-------------------------- MODULE SampleUploadsProofs --------------------------
(* For every set of requests, tasks, forms and orders, every limit and every    *)
(* way a file may decay: a request or a task that failed leaves nothing, an     *)
(* upload that exists is whole, and a task has the bytes that were sent.        *)
EXTENDS SampleUploads, SequenceTheorems, TLAPS

(* The directories of a task are a record of these four, as long as it lives.   *)
IsWorkspace(w) ==
  w = [stage |-> w.stage, sample |-> w.sample, audit |-> w.audit, auditStage |-> w.auditStage]
NoWorkspace ==
  [stage |-> NoDirectory, sample |-> NoDirectory, audit |-> NoManifest, auditStage |-> NoManifest]

IsPhased(s) == s = [f \in DOMAIN s |-> s[f]] /\ "phase" \in DOMAIN s

(* The state is a record per request and per task, each with a phase.           *)
Shapes ==
  /\ request = [r \in Requests |-> request[r]] /\ stage = [r \in Requests |-> stage[r]]
  /\ upload = [r \in Requests |-> upload[r]]
  /\ task = [t \in Tasks |-> task[t]] /\ workspace = [t \in Tasks |-> workspace[t]]
  /\ \A r \in Requests : IsPhased(request[r])
  /\ \A t \in Tasks : IsPhased(task[t]) /\ IsWorkspace(workspace[t])

(* What a request has made by the phase it is in.                               *)
RequestMade(r) ==
  /\ request[r].phase \in {"idle", "refused", "accepted", "failed"} =>
       stage[r] = NoDirectory /\ upload[r] = NoDirectory
  /\ request[r].phase \in {"writing", "publishing"} => upload[r] = NoDirectory

(* What a task has made by the phase it is in.                                  *)
TaskMade(t) ==
  /\ task[t].phase \notin {"new", "lost"} => "order" \in DOMAIN task[t]
  /\ task[t].phase \in {"new", "queued"} => workspace[t] = NoWorkspace
  /\ task[t].phase \in {"copying", "staged", "materialized", "failed"} /\ task[t].order.kind = "upload" =>
       /\ workspace[t].audit = NoManifest
       /\ task[t].phase # "materialized" => workspace[t].sample = NoDirectory
       /\ task[t].phase = "failed" => workspace[t] = NoWorkspace

MadeInv == Shapes /\ (\A r \in Requests : RequestMade(r)) /\ (\A t \in Tasks : TaskMade(t))

LEMMA MadeInit == Init => MadeInv
BY DEF Init, MadeInv, Shapes, IsPhased, IsWorkspace, RequestMade, TaskMade, NoWorkspace, Idle

taskVars == <<task, workspace>>
requestVars == <<request, stage, upload>>

LEMMA MadeImplies == MadeInv => FailureLeavesNothing
BY DEF MadeInv, RequestMade, TaskMade, FailureLeavesNothing, NoWorkspace

(* A step of one request keeps the phases and what the others have made.        *)
LEMMA RequestStep ==
  ASSUME MadeInv, NEW r \in Requests,
         \/ Receive(r) \/ StageMade(r) \/ ChunkWritten(r) \/ FileWritten(r) \/ ManifestWritten(r)
         \/ Published(r) \/ RenameDelayed(r) \/ CreateFails(r) \/ Abandoned(r) \/ Decays(r)
  PROVE  MadeInv'
<1> USE DEF MadeInv
<1>0. UNCHANGED taskVars
  BY DEF taskVars, Receive, StageMade, ChunkWritten, FileWritten, ManifestWritten, Published, RenameDelayed,
         CreateFails, Abandoned, Decays
<1>1. \A t \in Tasks : TaskMade(t)' /\ IsPhased(task[t])' /\ IsWorkspace(workspace[t])'
  BY <1>0 DEF taskVars, TaskMade, Shapes, IsPhased, IsWorkspace
<1>2. SUFFICES /\ request' = [q \in Requests |-> request'[q]] /\ stage' = [q \in Requests |-> stage'[q]]
               /\ upload' = [q \in Requests |-> upload'[q]]
               /\ \A q \in Requests : IsPhased(request'[q]) /\ RequestMade(q)'
  BY <1>0, <1>1 DEF Shapes, taskVars
<1>3. CASE Receive(r)
  BY <1>3 DEF Receive, Shapes, RequestMade, IsPhased
<1>4. CASE StageMade(r)
  BY <1>4 DEF StageMade, At, Shapes, RequestMade, IsPhased
<1>5. CASE ChunkWritten(r)
  <2>1. PICK read, total, window, files :
          /\ request' = [request EXCEPT ![r].read = read, ![r].total = total, ![r].window = window]
          /\ stage' = [stage EXCEPT ![r].files = files] /\ upload' = upload
    BY <1>5 DEF ChunkWritten
  <2>2. request[r].phase = "writing"
    BY <1>5 DEF ChunkWritten, More
  <2>3. request'[r].phase = "writing" /\ IsPhased(request'[r])
    BY <2>1, <2>2 DEF Shapes, IsPhased
  <2> QED
    BY <2>1, <2>2, <2>3 DEF Shapes, RequestMade
<1>6. CASE FileWritten(r)
  <2>1. request' = [request EXCEPT ![r] = [At(r, @.file + 1) EXCEPT !.total = request[r].total]]
    BY <1>6 DEF FileWritten
  <2>2. request[r].phase = "writing" /\ upload' = upload
    BY <1>6 DEF FileWritten, More
  <2>3. request'[r].phase = "writing" /\ IsPhased(request'[r])
    BY <2>1 DEF Shapes, IsPhased, At
  <2>4. PICK files : stage' = [stage EXCEPT ![r].files = files]
    BY <1>6 DEF FileWritten
  <2> QED
    BY <2>1, <2>2, <2>3, <2>4 DEF Shapes, RequestMade
<1>7. CASE ManifestWritten(r)
  BY <1>7 DEF ManifestWritten, Shapes, RequestMade, IsPhased
<1>8. CASE Published(r)
  <2>1. request' = [request EXCEPT ![r].phase = "answered"]
    BY <1>8 DEF Published
  <2>2. request'[r].phase = "answered" /\ IsPhased(request'[r])
    BY <2>1 DEF Shapes, IsPhased
  <2> QED
    BY <1>8, <2>1, <2>2 DEF Published, Shapes, RequestMade
<1>9. CASE RenameDelayed(r)
  <2>1. PICK attempt : request' = [request EXCEPT ![r].attempt = attempt]
    BY <1>9 DEF RenameDelayed
  <2>2. request'[r].phase = request[r].phase /\ IsPhased(request'[r])
    BY <2>1 DEF Shapes, IsPhased
  <2> QED
    BY <1>9, <2>1, <2>2 DEF RenameDelayed, Shapes, RequestMade
<1>10. CASE CreateFails(r)
  BY <1>10 DEF CreateFails, Shapes, RequestMade, IsPhased
<1>12. CASE Abandoned(r)
  BY <1>12 DEF Abandoned, Shapes, RequestMade, IsPhased
<1>11. CASE Decays(r)
  <2>1. upload[r] # NoDirectory
    BY <1>11 DEF Decays, NoDirectory
  <2>2. request[r].phase \notin {"idle", "refused", "accepted", "failed", "writing", "publishing"}
    BY <2>1 DEF RequestMade
  <2>3. PICK files : upload' = [upload EXCEPT ![r] = files]
    BY <1>11 DEF Decays
  <2>4. request' = request /\ stage' = stage
    BY <1>11 DEF Decays
  <2>5. \A q \in Requests \ {r} : upload'[q] = upload[q]
    BY <2>3 DEF Shapes
  <2>6. \A q \in Requests : RequestMade(q)'
    BY <2>2, <2>4, <2>5 DEF RequestMade
  <2> QED
    BY <2>3, <2>4, <2>6 DEF Shapes
<1> QED
  BY <1>3, <1>4, <1>5, <1>6, <1>7, <1>8, <1>9, <1>10, <1>11, <1>12

(* What the two renames of a materialization make of a task's directories.      *)
LEMMA MovedWorkspace ==
  ASSUME NEW w, IsWorkspace(w), NEW v,
         v = [w EXCEPT !.sample = w.stage, !.stage = NoDirectory]
  PROVE  IsWorkspace(v) /\ v.audit = w.audit
<1>1. v = [f \in {"stage", "sample", "audit", "auditStage"} |-> v[f]]
  BY DEF IsWorkspace
<1>2. v.audit = w.audit
  BY DEF IsWorkspace
<1> QED
  BY <1>1, <1>2 DEF IsWorkspace

(* What the handler of a failed one leaves of them.                             *)
LEMMA ClearedWorkspace ==
  ASSUME NEW w, IsWorkspace(w), w.audit = NoManifest, NEW v,
         v = [w EXCEPT !.stage = NoDirectory, !.auditStage = NoManifest, !.sample = NoDirectory]
  PROVE  v = NoWorkspace
<1>1. v = [f \in {"stage", "sample", "audit", "auditStage"} |-> v[f]]
  BY DEF IsWorkspace
<1>2. v.stage = NoDirectory /\ v.sample = NoDirectory /\ v.audit = NoManifest /\ v.auditStage = NoManifest
  BY DEF IsWorkspace
<1> QED
  BY <1>1, <1>2 DEF NoWorkspace

(* A step of one task keeps the phases and what the others have made.           *)
LEMMA TaskStep ==
  ASSUME MadeInv, NEW t \in Tasks,
         \/ CreateTask(t) \/ MaterializeBegins(t) \/ FileChecked(t) \/ FileSearched(t) \/ FileCopied(t)
         \/ AuditStaged(t) \/ SamplePublished(t) \/ AuditReplaced(t) \/ MaterializeFails(t) \/ UndoRaises(t)
         \/ CollectionBegins(t) \/ LocalCopied(t) \/ CollectionEnds(t) \/ CollectionFails(t)
         \/ InlineWritten(t) \/ ContractPrepared(t)
  PROVE  MadeInv'
<1> USE DEF MadeInv
<1> DEFINE Kept ==
      /\ task' = [task EXCEPT ![t] = task'[t]] /\ IsPhased(task'[t])
      /\ workspace' = [workspace EXCEPT ![t] = workspace'[t]] /\ IsWorkspace(workspace'[t])
      /\ TaskMade(t)'
<1>0. UNCHANGED requestVars
  BY DEF requestVars, CreateTask, MaterializeBegins, FileChecked, FileSearched, FileCopied, AuditStaged, SamplePublished,
         AuditReplaced, MaterializeFails, UndoRaises, CollectionBegins, LocalCopied, CollectionEnds, CollectionFails, InlineWritten,
         ContractPrepared
<1>1. SUFFICES Kept
  <2>1. \A u \in Tasks \ {t} : task'[u] = task[u] /\ workspace'[u] = workspace[u]
    BY Kept DEF Shapes
  <2>2. \A u \in Tasks : TaskMade(u)' /\ IsPhased(task'[u]) /\ IsWorkspace(workspace'[u])
    BY Kept, <2>1 DEF Shapes, TaskMade
  <2>3. task' = [u \in Tasks |-> task'[u]] /\ workspace' = [u \in Tasks |-> workspace'[u]]
    BY Kept DEF Shapes
  <2>4. \A r \in Requests : RequestMade(r)'
    BY <1>0 DEF requestVars, RequestMade
  <2> QED
    BY <1>0, <2>2, <2>3, <2>4 DEF Shapes, requestVars
(* Going to another phase keeps the rest of the task.                           *)
<1>2. ASSUME NEW phase, Goes(t, phase), task[t].phase \notin {"new", "lost"}
      PROVE  /\ task' = [task EXCEPT ![t] = task'[t]] /\ IsPhased(task'[t])
             /\ task'[t].phase = phase
             /\ "order" \in DOMAIN task'[t] /\ task'[t].order = task[t].order
  BY <1>2 DEF Goes, Shapes, IsPhased, TaskMade
<1>3. CASE CreateTask(t)
  BY <1>3 DEF CreateTask, Shapes, TaskMade, IsPhased
<1>4. CASE MaterializeBegins(t)
  <2>1. workspace[t] = NoWorkspace
    BY <1>4 DEF MaterializeBegins, OfKind, TaskMade
  <2>2. workspace' = [workspace EXCEPT ![t] = [NoWorkspace EXCEPT !.stage = Directory]]
    BY <1>4, <2>1 DEF MaterializeBegins, Shapes
  <2> QED
    BY <1>4, <2>2 DEF MaterializeBegins, Shapes, NoWorkspace, IsWorkspace, IsPhased, TaskMade
<1>16. CASE FileChecked(t) \/ FileSearched(t)
  <2>1. PICK step : task' = [task EXCEPT ![t].step = step]
    BY <1>16 DEF FileChecked, FileSearched
  <2>2. workspace' = workspace /\ task[t].phase = "copying" /\ task[t].order.kind = "upload"
    BY <1>16 DEF FileChecked, FileSearched, Opens, OfKind
  <2>3. /\ task' = [task EXCEPT ![t] = task'[t]] /\ IsPhased(task'[t])
        /\ task'[t].phase = "copying" /\ "order" \in DOMAIN task'[t] /\ task'[t].order = task[t].order
    BY <2>1, <2>2 DEF Shapes, IsPhased, TaskMade
  <2> QED
    BY <2>2, <2>3 DEF Shapes, TaskMade
<1>17. CASE UndoRaises(t)
  BY <1>17 DEF UndoRaises, Shapes, IsPhased, TaskMade
<1>5. CASE FileCopied(t)
  <2>1. PICK files : workspace' = [workspace EXCEPT ![t].stage.files = files]
    BY <1>5 DEF FileCopied
  <2>2. /\ workspace' = [workspace EXCEPT ![t] = workspace'[t]] /\ IsWorkspace(workspace'[t])
        /\ workspace'[t].audit = workspace[t].audit /\ workspace'[t].sample = workspace[t].sample
    BY <2>1 DEF Shapes, IsWorkspace
  <2>3. task' = [task EXCEPT ![t].file = @ + 1, ![t].step = "check"]
    BY <1>5 DEF FileCopied
  <2>4. task[t].phase = "copying" /\ task[t].order.kind = "upload"
    BY <1>5 DEF FileCopied, Opens, OfKind
  <2>5. /\ task' = [task EXCEPT ![t] = task'[t]] /\ IsPhased(task'[t])
        /\ task'[t].phase = "copying" /\ "order" \in DOMAIN task'[t]
    BY <2>3, <2>4 DEF Shapes, IsPhased, TaskMade
  <2> QED
    BY <2>2, <2>4, <2>5 DEF TaskMade
<1>6. CASE AuditStaged(t)
  <2>1. /\ workspace' = [workspace EXCEPT ![t] = workspace'[t]] /\ IsWorkspace(workspace'[t])
        /\ workspace'[t].audit = workspace[t].audit /\ workspace'[t].sample = workspace[t].sample
    BY <1>6 DEF AuditStaged, Shapes, IsWorkspace
  <2>2. task[t].phase = "copying" /\ task[t].order.kind = "upload" /\ Goes(t, "staged")
    BY <1>6 DEF AuditStaged, OfKind
  <2> QED
    BY <1>2, <2>1, <2>2 DEF TaskMade
<1>7. CASE SamplePublished(t)
  <2>1. /\ workspace' = [workspace EXCEPT ![t] = workspace'[t]] /\ IsWorkspace(workspace'[t])
        /\ workspace'[t].audit = workspace[t].audit
    <3>1. IsWorkspace(workspace[t])
      BY DEF Shapes
    <3>2. workspace'[t] = [workspace[t] EXCEPT !.sample = workspace[t].stage, !.stage = NoDirectory]
      BY <1>7 DEF SamplePublished, Shapes
    <3>3. workspace' = [workspace EXCEPT ![t] = workspace'[t]]
      BY <1>7 DEF SamplePublished, Shapes
    <3> QED
      BY <3>1, <3>2, <3>3, MovedWorkspace
  <2>2. task[t].phase = "staged" /\ task[t].order.kind = "upload" /\ Goes(t, "materialized")
    BY <1>7 DEF SamplePublished, OfKind
  <2> QED
    BY <1>2, <2>1, <2>2 DEF TaskMade
<1>8. CASE AuditReplaced(t)
  <2>1. workspace' = [workspace EXCEPT ![t] = workspace'[t]] /\ IsWorkspace(workspace'[t])
    BY <1>8 DEF AuditReplaced, Shapes, IsWorkspace
  <2>2. task[t].phase = "materialized" /\ Goes(t, "ready")
    BY <1>8 DEF AuditReplaced, OfKind
  <2> QED
    BY <1>2, <2>1, <2>2 DEF TaskMade
<1>9. CASE MaterializeFails(t)
  <2>1. workspace' = [workspace EXCEPT ![t] = Undone(t)] /\ Goes(t, "failed")
    BY <1>9 DEF MaterializeFails
  <2>2. task[t].phase \in {"queued", "copying", "staged", "materialized"} /\ task[t].order.kind = "upload"
    BY <1>9 DEF MaterializeFails
  <2>3. /\ workspace[t].audit = NoManifest
        /\ task[t].phase = "materialized" \/ workspace[t].sample = NoDirectory
    BY <2>2 DEF TaskMade, NoWorkspace
  <2>4. Undone(t) = NoWorkspace
    <3>1. IsWorkspace(workspace[t])
      BY DEF Shapes
    <3>2. PICK sample : /\ Undone(t) = [workspace[t] EXCEPT !.stage = NoDirectory, !.auditStage = NoManifest,
                                                            !.sample = sample]
                        /\ sample = NoDirectory
      BY <2>3 DEF Undone
    <3> QED
      BY <2>3, <3>1, <3>2, ClearedWorkspace
  <2>5. workspace' = [workspace EXCEPT ![t] = workspace'[t]] /\ workspace'[t] = NoWorkspace
    BY <2>1, <2>4 DEF Shapes
  <2>6. /\ task' = [task EXCEPT ![t] = task'[t]] /\ IsPhased(task'[t])
        /\ task'[t].phase = "failed" /\ "order" \in DOMAIN task'[t]
    BY <1>2, <2>1, <2>2
  <2>7. IsWorkspace(workspace'[t])
    BY <2>5 DEF NoWorkspace, IsWorkspace
  <2>8. TaskMade(t)'
    BY <2>5, <2>6 DEF TaskMade, NoWorkspace
  <2> QED
    BY <2>5, <2>6, <2>7, <2>8
<1>10. CASE CollectionBegins(t)
  <2>1. workspace' = [workspace EXCEPT ![t] = workspace'[t]] /\ IsWorkspace(workspace'[t])
    BY <1>10 DEF CollectionBegins, Shapes, IsWorkspace
  <2> QED
    BY <1>10, <2>1 DEF CollectionBegins, OfKind, Shapes, IsPhased, TaskMade
<1>11. CASE LocalCopied(t)
  <2>1. PICK files : workspace' = [workspace EXCEPT ![t].sample.files = files]
    BY <1>11 DEF LocalCopied
  <2>2. workspace' = [workspace EXCEPT ![t] = workspace'[t]] /\ IsWorkspace(workspace'[t])
    BY <2>1 DEF Shapes, IsWorkspace
  <2>3. PICK left : task' = [task EXCEPT ![t].left = left]
    BY <1>11 DEF LocalCopied
  <2>4. task[t].phase = "copying" /\ task[t].order.kind = "path"
    BY <1>11 DEF LocalCopied, OfKind
  <2>5. /\ task' = [task EXCEPT ![t] = task'[t]] /\ IsPhased(task'[t])
        /\ task'[t].phase = "copying" /\ "order" \in DOMAIN task'[t] /\ task'[t].order = task[t].order
    BY <2>3, <2>4 DEF Shapes, IsPhased, TaskMade
  <2> QED
    BY <2>2, <2>4, <2>5 DEF TaskMade
<1>12. CASE CollectionEnds(t)
  <2>1. PICK phase \in {"ready", "failed"} : Goes(t, phase)
    BY <1>12 DEF CollectionEnds
  <2>2. UNCHANGED workspace /\ task[t].order.kind = "path" /\ task[t].phase = "copying"
    BY <1>12 DEF CollectionEnds, OfKind
  <2> QED
    BY <1>2, <2>1, <2>2 DEF Shapes, TaskMade
<1>13. CASE CollectionFails(t)
  <2>1. /\ Goes(t, "failed") /\ UNCHANGED workspace /\ task[t].order.kind = "path"
        /\ task[t].phase \in {"queued", "copying"}
    BY <1>13 DEF CollectionFails
  <2> QED
    BY <1>2, <2>1 DEF Shapes, TaskMade
<1>14. CASE InlineWritten(t)
  <2>1. workspace' = [workspace EXCEPT ![t] = workspace'[t]] /\ IsWorkspace(workspace'[t])
    BY <1>14 DEF InlineWritten, Shapes, IsWorkspace
  <2>2. PICK phase \in {"ready", "failed"} : Goes(t, phase)
    BY <1>14 DEF InlineWritten
  <2>3. task[t].order.kind = "inline" /\ task[t].phase = "queued"
    BY <1>14 DEF InlineWritten, OfKind
  <2> QED
    BY <1>2, <2>1, <2>2, <2>3 DEF TaskMade
<1>15. CASE ContractPrepared(t)
  <2>1. UNCHANGED workspace /\ task[t].phase = "ready"
    BY <1>15 DEF ContractPrepared
  <2>2. \/ Goes(t, "sample_file_missing")
        \/ \E protected : task' = [task EXCEPT ![t] =
             [phase |-> "prepared", order |-> task[t].order, protected |-> protected]]
    BY <1>15 DEF ContractPrepared
  <2>3. /\ task' = [task EXCEPT ![t] = task'[t]] /\ IsPhased(task'[t])
        /\ task'[t].phase \in {"sample_file_missing", "prepared"} /\ "order" \in DOMAIN task'[t]
    BY <1>2, <2>1, <2>2 DEF Shapes, IsPhased
  <2> QED
    BY <2>1, <2>3 DEF Shapes, TaskMade
<1> QED
  BY <1>3, <1>4, <1>5, <1>6, <1>7, <1>8, <1>9, <1>10, <1>11, <1>12, <1>13, <1>14, <1>15, <1>16,
     <1>17

LEMMA MadeStep == MadeInv /\ [Next]_vars => MadeInv'
<1> SUFFICES ASSUME MadeInv, [Next]_vars PROVE MadeInv'
  OBVIOUS
<1>1. CASE LocalEdited \/ UNCHANGED vars
  BY <1>1 DEF LocalEdited, vars, MadeInv, Shapes, RequestMade, TaskMade, IsPhased, IsWorkspace
<1>2. CASE Restart
  <2>1. /\ \A r \in Requests : request'[r].phase = "lost" \/ request'[r] = request[r]
        /\ \A t \in Tasks : task'[t].phase = "lost" \/ task'[t] = task[t]
    BY <1>2 DEF Restart
  <2>2. /\ \A r \in Requests : IsPhased(request'[r])
        /\ \A t \in Tasks : IsPhased(task'[t])
    BY <1>2 DEF Restart, MadeInv, Shapes, IsPhased
  <2>3. request' = [r \in Requests |-> request'[r]] /\ task' = [t \in Tasks |-> task'[t]]
    BY <1>2 DEF Restart
  <2>4. UNCHANGED <<stage, upload, workspace>>
    BY <1>2 DEF Restart
  <2> QED
    BY <2>1, <2>2, <2>3, <2>4 DEF MadeInv, Shapes, RequestMade, TaskMade
<1>3. CASE \E r \in Requests :
        \/ Receive(r) \/ StageMade(r) \/ ChunkWritten(r) \/ FileWritten(r) \/ ManifestWritten(r)
        \/ Published(r) \/ RenameDelayed(r) \/ CreateFails(r) \/ Abandoned(r) \/ Decays(r)
  BY <1>3, RequestStep
<1>4. CASE \E t \in Tasks :
        \/ CreateTask(t) \/ MaterializeBegins(t) \/ FileChecked(t) \/ FileSearched(t) \/ FileCopied(t)
        \/ AuditStaged(t) \/ SamplePublished(t) \/ AuditReplaced(t) \/ MaterializeFails(t) \/ UndoRaises(t)
        \/ CollectionBegins(t) \/ LocalCopied(t) \/ CollectionEnds(t) \/ CollectionFails(t)
        \/ InlineWritten(t) \/ ContractPrepared(t)
  BY <1>4, TaskStep
<1> QED
  BY <1>1, <1>2, <1>3, <1>4 DEF Next

(* At whichever operation a request or a task fails, no staging directory, no   *)
(* upload, no sample and no audit file of it stays behind.                      *)
THEOREM NothingStays == Spec => []FailureLeavesNothing
BY MadeInit, MadeStep, MadeImplies, PTL DEF Spec

(* -- sequences of bytes ---------------------------------------------------------- *)
LEMMA Slice ==
  ASSUME NEW S, NEW s \in Seq(S), NEW m \in Nat, NEW n \in Nat, m + n <= Len(s)
  PROVE  /\ SubSeq(s, m + 1, m + n) \in Seq(S) /\ Len(SubSeq(s, m + 1, m + n)) = n
         /\ \A i \in 1..n : SubSeq(s, m + 1, m + n)[i] = s[m + i]
<1>1. PICK a \in Nat, b \in Nat : a = m + 1 /\ b = m + n
  OBVIOUS
<1>2. \A i \in a..b : s[i] \in S
  BY <1>1
<1>3. /\ SubSeq(s, a, b) \in Seq(S) /\ Len(SubSeq(s, a, b)) = IF a <= b THEN b - a + 1 ELSE 0
      /\ \A i \in 1..(b - a + 1) : SubSeq(s, a, b)[i] = s[a + i - 1]
  BY <1>2, SubSeqProperties
<1>4. /\ (IF a <= b THEN b - a + 1 ELSE 0) = n /\ b - a + 1 = n /\ \A i \in 1..n : a + i - 1 = m + i
  BY <1>1
<1> QED
  BY <1>1, <1>3, <1>4

LEMMA SameSeq ==
  ASSUME NEW S, NEW s \in Seq(S), NEW u \in Seq(S), Len(s) = Len(u), \A i \in 1..Len(s) : s[i] = u[i]
  PROVE  s = u
OBVIOUS

IsJoin(S, s, u, d) ==
  /\ d \in Seq(S) /\ Len(d) = Len(s) + Len(u) /\ Len(s) \in Nat /\ Len(u) \in Nat
  /\ \A i \in 1..Len(s) : d[i] = s[i]
  /\ \A i \in 1..Len(u) : d[Len(s) + i] = u[i]
LEMMA Joined == ASSUME NEW S, NEW s \in Seq(S), NEW u \in Seq(S), NEW d, d = s \o u PROVE IsJoin(S, s, u, d)
<1>1. ASSUME NEW i \in 1..Len(u) PROVE (s \o u)[Len(s) + i] = u[i]
  <2>1. Len(s) \in Nat /\ Len(s) + i \in 1..(Len(s) + Len(u)) /\ ~(Len(s) + i <= Len(s)) /\ (Len(s) + i) - Len(s) = i
    OBVIOUS
  <2> QED
    BY <2>1
<1> QED
  BY <1>1 DEF IsJoin

M == Len(Marker)
LEMMA MarkerLength == M \in Nat \ {0} /\ Marker \in Seq(Bytes)
BY UploadsAssumption DEF M

(* A marker lies at a place of the bytes.                                       *)
MarkerAt(s, i) == i >= 0 /\ i + M <= Len(s) /\ \A j \in 1..M : s[i + j] = Marker[j]
LEMMA MarkerPlaces ==
  ASSUME NEW s \in Seq(Bytes)
  PROVE  HasMarker(s) <=> \E i \in Int : MarkerAt(s, i)
<1>0. Len(s) \in Nat /\ M \in Nat \ {0} /\ Marker \in Seq(Bytes)
  BY MarkerLength
<1>1. ASSUME NEW i \in 0..(Len(s) - M)
      PROVE  SubSeq(s, i + 1, i + M) = Marker <=> \A j \in 1..M : s[i + j] = Marker[j]
  <2> DEFINE u == SubSeq(s, i + 1, i + M)
  <2>1. i \in Nat /\ i + M <= Len(s)
    BY <1>0
  <2>3. u \in Seq(Bytes) /\ Len(u) = M /\ \A j \in 1..M : u[j] = s[i + j]
    BY <1>0, <2>1, Slice
  <2> HIDE DEF u
  <2>4. u = Marker => \A j \in 1..M : s[i + j] = Marker[j]
    BY <2>3
  <2>5. ASSUME \A j \in 1..M : s[i + j] = Marker[j] PROVE u = Marker
    BY <1>0, <2>3, <2>5, SameSeq DEF M
  <2> QED
    BY <2>4, <2>5 DEF u
<1>2. HasMarker(s) <=> \E i \in 0..(Len(s) - M) : \A j \in 1..M : s[i + j] = Marker[j]
  BY <1>1 DEF HasMarker, M
<1>3. \A i \in Int : i \in 0..(Len(s) - M) <=> (i >= 0 /\ i + M <= Len(s))
  BY <1>0
<1> QED
  BY <1>2, <1>3 DEF MarkerAt

(* The window and the next chunk show every marker that ends in the chunk.      *)
LEMMA LastOf ==
  ASSUME NEW s \in Seq(Bytes)
  PROVE  /\ LastBytes(s, M) \in Seq(Bytes) /\ Len(LastBytes(s, M)) = IF Len(s) <= M THEN Len(s) ELSE M
         /\ \A i \in 1..Len(LastBytes(s, M)) : LastBytes(s, M)[i] = s[(Len(s) - Len(LastBytes(s, M))) + i]
<1>0. Len(s) \in Nat /\ M \in Nat
  BY MarkerLength
<1>1. CASE Len(s) <= M
  BY <1>0, <1>1 DEF LastBytes
<1>2. CASE ~(Len(s) <= M)
  <2>1. PICK n \in Nat : n = Len(s) - M /\ n + M = Len(s)
    BY <1>0, <1>2
  <2>2. PICK u : u = SubSeq(s, n + 1, n + M)
    OBVIOUS
  <2>3. u \in Seq(Bytes) /\ Len(u) = M /\ \A i \in 1..M : u[i] = s[n + i]
    BY <1>0, <2>1, <2>2, Slice
  <2>4. LastBytes(s, M) = u
    BY <1>2, <2>1, <2>2 DEF LastBytes
  <2> QED
    BY <1>2, <2>1, <2>3, <2>4
<1> QED
  BY <1>1, <1>2

(* The window with the next chunk is the end of all that was read.              *)
IsEnd(s, c, w, v, u) ==
  /\ w \in Seq(Bytes) /\ Len(w) = IF Len(s) <= M THEN Len(s) ELSE M
  /\ \A j \in 1..(Len(w) + Len(c)) : v[j] = u[(Len(s) - Len(w)) + j]
LEMMA Shifted ==
  ASSUME NEW s \in Seq(Bytes), NEW c \in Seq(Bytes), NEW w, w = LastBytes(s, M),
         NEW v, v = w \o c, NEW u, u = s \o c
  PROVE  IsEnd(s, c, w, v, u)
<1>0. IsJoin(Bytes, w, c, v) /\ IsJoin(Bytes, s, c, u)
  BY LastOf, Joined
<1>1. /\ w \in Seq(Bytes) /\ Len(w) = IF Len(s) <= M THEN Len(s) ELSE M
      /\ \A i \in 1..Len(w) : w[i] = s[(Len(s) - Len(w)) + i]
  BY LastOf
<1>2. Len(s) \in Nat /\ Len(w) \in Nat /\ Len(c) \in Nat /\ M \in Nat /\ Len(s) - Len(w) \in Nat
  BY <1>1, MarkerLength
<1>3. ASSUME NEW j \in 1..(Len(w) + Len(c))
      PROVE  v[j] = u[(Len(s) - Len(w)) + j]
  <2>1. CASE j <= Len(w)
    <3>1. j \in 1..Len(w) /\ (Len(s) - Len(w)) + j \in 1..Len(s)
      BY <1>2, <2>1
    <3>2. v[j] = w[j] /\ u[(Len(s) - Len(w)) + j] = s[(Len(s) - Len(w)) + j]
      BY <1>0, <1>1, <3>1 DEF IsJoin
    <3> QED
      BY <1>1, <3>1, <3>2
  <2>2. CASE ~(j <= Len(w))
    <3>1. PICK k \in 1..Len(c) : j = Len(w) + k /\ (Len(s) - Len(w)) + j = Len(s) + k
      <4>1. j - Len(w) \in 1..Len(c) /\ j = Len(w) + (j - Len(w)) /\ (Len(s) - Len(w)) + j = Len(s) + (j - Len(w))
        BY <1>2, <2>2
      <4> QED
        BY <4>1
    <3>2. v[Len(w) + k] = c[k] /\ u[Len(s) + k] = c[k]
      BY <1>0, <1>1, <3>1 DEF IsJoin
    <3> QED
      BY <3>1, <3>2
  <2> QED
    BY <2>1, <2>2
<1> QED
  BY <1>1, <1>3 DEF IsEnd

LEMMA WindowSees ==
  ASSUME NEW s \in Seq(Bytes), NEW c \in Seq(Bytes), ~HasMarker(s), ~HasMarker(LastBytes(s, M) \o c)
  PROVE  ~HasMarker(s \o c)
<1>1. PICK w, v, u : w = LastBytes(s, M) /\ v = w \o c /\ u = s \o c
  OBVIOUS
<1>2. /\ w \in Seq(Bytes) /\ Len(w) = IF Len(s) <= M THEN Len(s) ELSE M
      /\ \A j \in 1..(Len(w) + Len(c)) : v[j] = u[(Len(s) - Len(w)) + j]
  <2>1. IsEnd(s, c, w, v, u)
    BY <1>1, Shifted
  <2> QED
    BY <2>1 DEF IsEnd
<1>3. /\ v \in Seq(Bytes) /\ Len(v) = Len(w) + Len(c) /\ u \in Seq(Bytes) /\ Len(u) = Len(s) + Len(c)
      /\ \A j \in 1..Len(s) : u[j] = s[j]
      /\ Len(s) \in Nat /\ Len(w) \in Nat /\ Len(c) \in Nat
  <2>1. IsJoin(Bytes, w, c, v) /\ IsJoin(Bytes, s, c, u)
    BY <1>1, <1>2, Joined
  <2> QED
    BY <2>1 DEF IsJoin
<1>4. M \in Nat \ {0}
  BY MarkerLength
<1>5. ASSUME NEW i \in Int, MarkerAt(u, i) PROVE FALSE
  <2>1. CASE i + M <= Len(s)
    <3>1. \A j \in 1..M : i + j \in 1..Len(s)
      BY <1>3, <1>4, <1>5, <2>1 DEF MarkerAt
    <3>2. MarkerAt(s, i)
      BY <1>3, <1>5, <2>1, <3>1 DEF MarkerAt
    <3> QED
      BY <3>2, MarkerPlaces
  <2>2. CASE ~(i + M <= Len(s))
    <3>1. PICK k : k = i - (Len(s) - Len(w))
      OBVIOUS
    <3>2. k \in Int /\ k >= 0 /\ k + M <= Len(v)
      BY <1>2, <1>3, <1>4, <1>5, <2>2, <3>1 DEF MarkerAt
    <3>3. \A j \in 1..M : k + j \in 1..(Len(w) + Len(c)) /\ (Len(s) - Len(w)) + (k + j) = i + j
      BY <1>3, <1>4, <3>1, <3>2
    <3>4. \A j \in 1..M : v[k + j] = u[i + j]
      BY <1>2, <3>3
    <3>5. MarkerAt(v, k)
      BY <1>5, <3>2, <3>4 DEF MarkerAt
    <3>6. HasMarker(v)
      BY <1>3, <3>2, <3>5, MarkerPlaces
    <3> QED
      BY <1>1, <3>6
  <2> QED
    BY <2>1, <2>2
<1> QED
  BY <1>1, <1>3, <1>5, MarkerPlaces

LEMMA WindowMoves ==
  ASSUME NEW s \in Seq(Bytes), NEW c \in Seq(Bytes)
  PROVE  LastBytes(LastBytes(s, M) \o c, M) = LastBytes(s \o c, M)
<1>1. PICK w, v, u : w = LastBytes(s, M) /\ v = w \o c /\ u = s \o c
  OBVIOUS
<1>2. /\ w \in Seq(Bytes) /\ Len(w) = IF Len(s) <= M THEN Len(s) ELSE M
      /\ \A j \in 1..(Len(w) + Len(c)) : v[j] = u[(Len(s) - Len(w)) + j]
  <2>1. IsEnd(s, c, w, v, u)
    BY <1>1, Shifted
  <2> QED
    BY <2>1 DEF IsEnd
<1>3. /\ v \in Seq(Bytes) /\ Len(v) = Len(w) + Len(c) /\ u \in Seq(Bytes) /\ Len(u) = Len(s) + Len(c)
      /\ Len(s) \in Nat /\ Len(w) \in Nat /\ Len(c) \in Nat
  <2>1. IsJoin(Bytes, w, c, v) /\ IsJoin(Bytes, s, c, u)
    BY <1>1, <1>2, Joined
  <2> QED
    BY <2>1 DEF IsJoin
<1>4. M \in Nat \ {0}
  BY MarkerLength
<1>5. CASE Len(s) <= M
  BY <1>1, <1>5 DEF LastBytes
<1>6. CASE ~(Len(s) <= M)
  <2>1. PICK x, y : x = LastBytes(v, M) /\ y = LastBytes(u, M)
    OBVIOUS
  <2>2. /\ x \in Seq(Bytes) /\ Len(x) = IF Len(v) <= M THEN Len(v) ELSE M
        /\ \A i \in 1..Len(x) : x[i] = v[(Len(v) - Len(x)) + i]
    BY <1>3, <2>1, LastOf
  <2>3. /\ y \in Seq(Bytes) /\ Len(y) = IF Len(u) <= M THEN Len(u) ELSE M
        /\ \A i \in 1..Len(y) : y[i] = u[(Len(u) - Len(y)) + i]
    BY <1>3, <2>1, LastOf
  <2>4. Len(x) = M /\ Len(y) = M /\ Len(w) = M
    BY <1>2, <1>3, <1>4, <1>6, <2>2, <2>3
  <2>5. ASSUME NEW i \in 1..M PROVE x[i] = y[i]
    <3>1. PICK k : k = Len(c) + i
      OBVIOUS
    <3>2. k \in 1..(Len(w) + Len(c)) /\ k = (Len(v) - M) + i /\ (Len(s) - Len(w)) + k = (Len(u) - M) + i
      BY <1>3, <1>4, <2>4, <3>1
    <3> QED
      BY <1>2, <2>2, <2>3, <2>4, <3>1, <3>2
  <2>6. x = y
    BY <2>2, <2>3, <2>4, <2>5, SameSeq
  <2> QED
    BY <1>1, <2>1, <2>6
<1> QED
  BY <1>5, <1>6

LEMMA NothingHasNoMarker == ~HasMarker(<<>>) /\ LastBytes(<<>>, M) = <<>>
<1>1. PICK s : s \in Seq(Bytes) /\ s = <<>> /\ Len(s) = 0
  <2>1. <<>> \in Seq(Bytes) /\ Len(<<>>) = 0
    OBVIOUS
  <2> QED
    BY <2>1
<1>2. M \in Nat \ {0}
  BY MarkerLength
<1>3. ASSUME NEW i \in Int, MarkerAt(s, i) PROVE FALSE
  <2>1. Len(s) = 0
    BY <1>1
  <2>2. i >= 0 /\ i + M <= 0
    BY <1>3, <2>1 DEF MarkerAt
  <2> QED
    BY <1>2, <2>2
<1>4. ~HasMarker(s)
  BY <1>1, <1>3, MarkerPlaces
<1>5. LastBytes(s, M) = s
  BY <1>1, <1>2 DEF LastBytes
<1> QED
  BY <1>1, <1>4, <1>5

(* The first bytes of a file, and one more read of it.                          *)
First(s, n) == SubSeq(s, 1, n)
LEMMA FirstBytes ==
  ASSUME NEW s \in Seq(Bytes), NEW n \in Nat, n <= Len(s)
  PROVE  /\ First(s, n) \in Seq(Bytes) /\ Len(First(s, n)) = n
         /\ \A i \in 1..n : First(s, n)[i] = s[i]
         /\ n = Len(s) => First(s, n) = s
         /\ First(s, 0) = <<>>
<1>1. /\ First(s, n) \in Seq(Bytes) /\ Len(First(s, n)) = n
      /\ \A i \in 1..n : First(s, n)[i] = s[i]
  BY Slice DEF First
<1>2. n = Len(s) => First(s, n) = s
  BY <1>1, SameSeq
<1> QED
  BY <1>1, <1>2 DEF First

Taken(s, n) ==
  LET left == SubSeq(s, n + 1, Len(s))
  IN SubSeq(left, 1, IF Len(left) < ChunkBytes THEN Len(left) ELSE ChunkBytes)
LEMMA OneMoreRead ==
  ASSUME NEW s \in Seq(Bytes), NEW n \in Nat, n < Len(s)
  PROVE  /\ Taken(s, n) \in Seq(Bytes) /\ Len(Taken(s, n)) \in Nat \ {0} /\ n + Len(Taken(s, n)) <= Len(s)
         /\ First(s, n) \o Taken(s, n) = First(s, n + Len(Taken(s, n)))
<1>1. PICK rest \in Nat : Len(s) = n + rest /\ rest = Len(s) - n /\ rest > 0
  <2>1. Len(s) \in Nat
    OBVIOUS
  <2>2. Len(s) - n \in Nat /\ Len(s) = n + (Len(s) - n) /\ Len(s) - n > 0
    BY <2>1
  <2> QED
    BY <2>2, Zenon
<1>2. PICK left : left = SubSeq(s, n + 1, n + rest)
  OBVIOUS
<1>3. left \in Seq(Bytes) /\ Len(left) = rest /\ \A i \in 1..rest : left[i] = s[n + i]
  BY <1>1, <1>2, Slice
<1>4. PICK k \in Nat \ {0} : k = (IF Len(left) < ChunkBytes THEN Len(left) ELSE ChunkBytes) /\ k <= rest
  BY <1>1, <1>3, UploadsAssumption
<1>5. PICK c : c = Taken(s, n)
  OBVIOUS
<1>6. c = SubSeq(left, 1, k)
  BY <1>1, <1>2, <1>4, <1>5 DEF Taken
<1>7. c \in Seq(Bytes) /\ Len(c) = k /\ \A i \in 1..k : c[i] = s[n + i]
  <2>1. /\ SubSeq(left, 0 + 1, 0 + k) \in Seq(Bytes) /\ Len(SubSeq(left, 0 + 1, 0 + k)) = k
        /\ \A i \in 1..k : SubSeq(left, 0 + 1, 0 + k)[i] = left[0 + i]
    BY <1>3, <1>4, Slice
  <2>2. \A i \in 1..k : i \in 1..rest /\ 0 + i = i
    BY <1>4
  <2> QED
    BY <1>3, <1>4, <1>6, <2>1, <2>2
<1>8. PICK a, b : a = First(s, n) /\ b = First(s, n + k)
  OBVIOUS
<1>9. /\ a \in Seq(Bytes) /\ Len(a) = n /\ \A i \in 1..n : a[i] = s[i]
      /\ b \in Seq(Bytes) /\ Len(b) = n + k /\ \A i \in 1..(n + k) : b[i] = s[i]
  BY <1>1, <1>4, <1>8, FirstBytes
<1>10. a \o c = b
  <2>1. PICK d : d = a \o c
    OBVIOUS
  <2>2. /\ d \in Seq(Bytes) /\ Len(d) = n + k
        /\ \A i \in 1..n : d[i] = a[i]
        /\ \A i \in 1..k : d[n + i] = c[i]
    <3>1. /\ d \in Seq(Bytes) /\ Len(d) = Len(a) + Len(c)
          /\ \A i \in 1..Len(a) : d[i] = a[i]
          /\ \A i \in 1..Len(c) : d[Len(a) + i] = c[i]
      <4>1. IsJoin(Bytes, a, c, d)
        BY <1>7, <1>9, <2>1, Joined
      <4> QED
        BY <4>1 DEF IsJoin
    <3> QED
      BY <1>7, <1>9, <3>1
  <2>3. ASSUME NEW i \in 1..(n + k) PROVE d[i] = b[i]
    <3>1. CASE i <= n
      BY <1>9, <2>2, <3>1
    <3>2. CASE ~(i <= n)
      <4>1. PICK j \in 1..k : i = n + j
        <5>1. i - n \in 1..k /\ i = n + (i - n)
          BY <3>2
        <5> QED
          BY <5>1
      <4> QED
        BY <1>7, <1>9, <2>2, <4>1
    <3> QED
      BY <3>1, <3>2
  <2> QED
    BY <1>9, <2>1, <2>2, <2>3, SameSeq
<1> QED
  BY <1>1, <1>4, <1>5, <1>7, <1>8, <1>10

(* -- a directory that is being filled -------------------------------------------- *)
Part == [path : Seq(DOMAIN Fold), bytes : Seq(Bytes)]
Distinct(files) == \A i, j \in DOMAIN files : files[i].path = files[j].path => i = j
SentOf(files) ==
  [p \in {files[i].path : i \in DOMAIN files} |-> files[CHOOSE i \in DOMAIN files : files[i].path = p].bytes]

(* It holds the files before the k-th, and n bytes of that.                     *)
Holds(f, files, k, n) ==
  /\ f = [p \in DOMAIN f |-> f[p]]
  /\ \A p : p \in DOMAIN f <=> (\E i \in 1..(k - 1) : p = files[i].path) \/ (n > 0 /\ p = files[k].path)
  /\ \A i \in 1..(k - 1) : f[files[i].path] = files[i].bytes
  /\ n > 0 => f[files[k].path] = First(files[k].bytes, n)

IsWith(g, f, p, b) ==
  /\ g = [q \in DOMAIN g |-> g[q]] /\ g[p] = b
  /\ \A q : q \in DOMAIN g <=> q \in DOMAIN f \/ q = p
  /\ \A q \in DOMAIN f : q # p => g[q] = f[q]
LEMMA WithIs == ASSUME NEW f, NEW p, NEW b, NEW g, g = With(f, p, b) PROVE IsWith(g, f, p, b)
BY DEF With, IsWith

LEMMA HoldsMore ==
  ASSUME NEW files \in Seq(Part), Distinct(files), NEW k \in DOMAIN files, NEW n \in Nat, NEW b, b = files[k].bytes,
         n < Len(b), NEW f, Holds(f, files, k, n), NEW c, c = Taken(b, n),
         NEW g, g = With(f, files[k].path, (IF n = 0 THEN <<>> ELSE f[files[k].path]) \o c)
  PROVE  Holds(g, files, k, n + Len(c))
<1>0. k \in Nat /\ DOMAIN files = 1..Len(files) /\ Len(files) \in Nat
  OBVIOUS
<1>1. b \in Seq(Bytes) /\ Len(b) \in Nat
  <2>1. files[k] \in Part
    OBVIOUS
  <2> QED
    BY <2>1 DEF Part
<1>2. c \in Seq(Bytes) /\ Len(c) \in Nat \ {0} /\ First(b, n) \o c = First(b, n + Len(c))
  BY <1>1, OneMoreRead
<1>3. PICK old : old = IF n = 0 THEN <<>> ELSE f[files[k].path]
  OBVIOUS
<1>4. old = First(b, n)
  <2>1. CASE n = 0
    BY <1>1, <1>3, <2>1, FirstBytes
  <2>2. CASE n > 0
    BY <1>3, <2>2 DEF Holds
  <2> QED
    BY <2>1, <2>2
<1>5. PICK path, more : path = files[k].path /\ more = old \o c
  OBVIOUS
<1>6. more = First(b, n + Len(c))
  BY <1>2, <1>4, <1>5
<1>7. /\ g = [q \in DOMAIN g |-> g[q]] /\ g[path] = more
      /\ \A q : q \in DOMAIN g <=> q \in DOMAIN f \/ q = path
      /\ \A q \in DOMAIN f : q # path => g[q] = f[q]
  <2>1. IsWith(g, f, path, more)
    BY <1>3, <1>5, WithIs
  <2> QED
    BY <2>1 DEF IsWith
<1>8. \A i \in 1..(k - 1) : files[i].path # path /\ files[i].path \in DOMAIN f
  <2> TAKE i \in 1..(k - 1)
  <2>1. i \in DOMAIN files /\ i # k
    BY <1>0
  <2> QED
    BY <1>5, <2>1 DEF Distinct, Holds
<1>9. \A i \in 1..(k - 1) : g[files[i].path] = files[i].bytes
  BY <1>7, <1>8 DEF Holds
<1>10. n + Len(c) > 0
  BY <1>2
<1>11. \A p : p \in DOMAIN g <=> (\E i \in 1..(k - 1) : p = files[i].path) \/ p = path
  BY <1>5, <1>7 DEF Holds
<1> QED
  BY <1>5, <1>6, <1>7, <1>9, <1>10, <1>11 DEF Holds

LEMMA HoldsCopied ==
  ASSUME NEW files \in Seq(Part), Distinct(files), NEW k \in DOMAIN files, NEW b, b = files[k].bytes,
         NEW n \in Nat, NEW f, Holds(f, files, k, n), NEW g, g = With(f, files[k].path, b)
  PROVE  Holds(g, files, k + 1, 0)
<1>0. /\ k \in Nat /\ DOMAIN files = 1..Len(files) /\ Len(files) \in Nat
      /\ (k + 1) - 1 = k /\ ~(0 > 0)
  OBVIOUS
<1>2. PICK path : path = files[k].path
  OBVIOUS
<1>3. \A i \in 1..(k - 1) : files[i].path # path /\ files[i].path \in DOMAIN f
  <2> TAKE i \in 1..(k - 1)
  <2>1. i \in DOMAIN files /\ i # k
    BY <1>0
  <2> QED
    BY <1>2, <2>1 DEF Distinct, Holds
<1>4. IsWith(g, f, path, b)
  BY <1>2, WithIs
<1>5. \A i \in 1..k : i \in 1..(k - 1) \/ i = k
  BY <1>0
<1>6. \A i \in 1..k : g[files[i].path] = files[i].bytes
  <2>1. \A i \in 1..(k - 1) : f[files[i].path] = files[i].bytes
    BY DEF Holds
  <2> QED
    BY <1>2, <1>3, <1>4, <1>5, <2>1 DEF IsWith
<1>7. \A q : q \in DOMAIN g <=> \E i \in 1..k : q = files[i].path
  <2>1. 1..(k - 1) \subseteq 1..k /\ k \in 1..k
    BY <1>0
  <2>2. \A q : q \in DOMAIN f => (\E i \in 1..(k - 1) : q = files[i].path) \/ q = path
    BY <1>2 DEF Holds
  <2> QED
    BY <1>2, <1>3, <1>4, <1>5, <2>1, <2>2 DEF IsWith
<1>8. /\ \A q : q \in DOMAIN g <=> \E i \in 1..((k + 1) - 1) : q = files[i].path
      /\ \A i \in 1..((k + 1) - 1) : g[files[i].path] = files[i].bytes
  BY <1>0, <1>6, <1>7
<1> QED
  BY <1>0, <1>4, <1>8 DEF Holds, IsWith

LEMMA HoldsNext ==
  ASSUME NEW files \in Seq(Part), Distinct(files), NEW k \in DOMAIN files, NEW b, b = files[k].bytes,
         NEW f, Holds(f, files, k, Len(b)),
         NEW g, g = IF Len(b) = 0 THEN With(f, files[k].path, <<>>) ELSE f
  PROVE  Holds(g, files, k + 1, 0)
<1>1. b \in Seq(Bytes) /\ Len(b) \in Nat
  <2>1. files[k] \in Part
    OBVIOUS
  <2> QED
    BY <2>1 DEF Part
<1>2. PICK path : path = files[k].path
  OBVIOUS
<1>3. g = With(f, path, b)
  <2>1. CASE Len(b) = 0
    <3>1. b = <<>>
      BY <1>1, <2>1
    <3> QED
      BY <1>2, <2>1, <3>1
  <2>2. CASE Len(b) > 0
    <3>1. First(b, Len(b)) = b
      BY <1>1, FirstBytes
    <3>2. f[path] = b /\ path \in DOMAIN f /\ f = [q \in DOMAIN f |-> f[q]]
      BY <1>2, <2>2, <3>1 DEF Holds
    <3> QED
      BY <2>2, <3>2 DEF With
  <2> QED
    BY <1>1, <2>1, <2>2
<1> QED
  BY <1>1, <1>2, <1>3, HoldsCopied

LEMMA HoldsAll ==
  ASSUME NEW files \in Seq(Part), Distinct(files), NEW f, Holds(f, files, Len(files) + 1, 0)
  PROVE  f = SentOf(files)
<1>1. /\ DOMAIN files = 1..Len(files) /\ Len(files) \in Nat /\ (Len(files) + 1) - 1 = Len(files) /\ ~(0 > 0)
  OBVIOUS
<1>2. /\ f = [p \in DOMAIN f |-> f[p]]
      /\ \A p : p \in DOMAIN f <=> \E i \in DOMAIN files : p = files[i].path
      /\ \A i \in DOMAIN files : f[files[i].path] = files[i].bytes
  BY <1>1 DEF Holds
<1>3. DOMAIN f = {files[i].path : i \in DOMAIN files}
  BY <1>2
<1>4. ASSUME NEW p \in DOMAIN f PROVE f[p] = files[CHOOSE i \in DOMAIN files : files[i].path = p].bytes
  <2>1. PICK i \in DOMAIN files : files[i].path = p
    BY <1>2
  <2>2. PICK j : j = CHOOSE h \in DOMAIN files : files[h].path = p
    OBVIOUS
  <2>3. j \in DOMAIN files /\ files[j].path = p
    BY <2>1, <2>2
  <2> QED
    BY <1>2, <2>2, <2>3
<1> QED
  BY <1>2, <1>3, <1>4 DEF SentOf

LEMMA HoldsNone == ASSUME NEW files PROVE Holds(NoFiles, files, 1, 0)
<1>1. 1..(1 - 1) = {} /\ ~(0 > 0)
  OBVIOUS
<1>2. DOMAIN NoFiles = {} /\ NoFiles = [p \in DOMAIN NoFiles |-> NoFiles[p]]
  BY DEF NoFiles
<1> QED
  BY <1>1, <1>2 DEF Holds

(* -- the form ----------------------------------------------------------------------- *)
(* What is known of a form that was received.                                   *)
Received(form) ==
  /\ form \in Forms /\ Len(form.files) \in 1..MaxFiles /\ ValidPaths(Paths(form.files))
  /\ ~(TotalBytes(form.files) > MaxTotalBytes)
LEMMA FormFiles ==
  ASSUME NEW form, Received(form)
  PROVE  form.files \in Seq(Part) /\ Distinct(form.files)
<1>1. form.files \in Seq(Part)
  BY UploadsAssumption DEF Received, Part
<1>2. ASSUME NEW i \in DOMAIN form.files, NEW j \in DOMAIN form.files, form.files[i].path = form.files[j].path
      PROVE  i = j
  <2>1. PICK paths : paths = Paths(form.files)
    OBVIOUS
  <2>2. DOMAIN paths = DOMAIN form.files /\ paths[i] = form.files[i].path /\ paths[j] = form.files[j].path
    BY <2>1 DEF Paths
  <2>3. Key(paths[i]) = Key(paths[j])
    BY <1>2, <2>2
  <2> QED
    BY <2>1, <2>2, <2>3 DEF Received, ValidPaths
<1> QED
  BY <1>1, <1>2 DEF Distinct

(* -- what a request has made of its form ------------------------------------------- *)
Clean(bytes) == ~HasMarker(bytes) /\ Len(bytes) <= MaxFileBytes
Recorded(files) ==
  [i \in DOMAIN files |-> [path |-> files[i].path, size |-> Len(files[i].bytes), digest |-> files[i].bytes]]
(* A directory that may be published: every file as it was sent, and searched.  *)
Whole(dir, r, form) ==
  /\ dir.exists
  /\ dir = [exists |-> dir.exists, files |-> SentOf(form.files),
            manifest |-> [id |-> r, entry |-> Entry(form), files |-> Recorded(form.files)]]
  /\ \A i \in DOMAIN form.files : Clean(form.files[i].bytes)
  /\ \E i \in DOMAIN form.files : form.files[i].path = Entry(form)
(* The n bytes that were read of a file hold no marker, and the window is their *)
(* end.                                                                         *)
Searched(bytes, n, window) ==
  /\ n <= Len(bytes) /\ n <= MaxFileBytes /\ ~HasMarker(First(bytes, n))
  /\ window = LastBytes(First(bytes, n), M)
Filling(q, d) ==
  /\ q = [phase |-> "writing", form |-> q.form, file |-> q.file, read |-> q.read, window |-> q.window,
          total |-> q.total]
  /\ d.exists /\ d = [exists |-> d.exists, files |-> d.files, manifest |-> d.manifest]
  /\ Received(q.form) /\ q.file \in 1..(Len(q.form.files) + 1) /\ q.read \in Nat
  /\ \A i \in 1..(q.file - 1) : Clean(q.form.files[i].bytes)
  /\ q.file <= Len(q.form.files) => Searched(q.form.files[q.file].bytes, q.read, q.window)
  /\ q.file > Len(q.form.files) => q.read = 0
  /\ Holds(d.files, q.form.files, q.file, q.read)
RequestIs(r, q, d) ==
  /\ q.phase = "accepted" => q = [form |-> q.form, phase |-> "accepted"] /\ Received(q.form)
  /\ q.phase = "writing" => Filling(q, d)
  /\ q.phase = "publishing" =>
       q = [phase |-> "publishing", form |-> q.form, attempt |-> q.attempt] /\ Received(q.form) /\ Whole(d, r, q.form)
UploadIs(r) ==
  upload[r].exists =>
    /\ request[r].phase = "answered" /\ Received(request[r].form)
    /\ r \notin decayed => Whole(upload[r], r, request[r].form)
    /\ LoadManifest(r) => Digests(upload[r].manifest) = Digests([files |-> Recorded(request[r].form.files)])
WholeInv ==
  /\ \A r \in Requests : RequestIs(r, request[r], stage[r])
  /\ \A r \in Requests : UploadIs(r)

LEMMA WholeInit == Init => WholeInv
BY DEF Init, WholeInv, RequestIs, UploadIs, Idle, NoDirectory

LEMMA RecordedFiles ==
  ASSUME NEW files \in Seq(Part), NEW m, m.files = Recorded(files)
  PROVE  /\ DOMAIN m.files = DOMAIN files /\ Len(m.files) = Len(files)
         /\ \A i \in DOMAIN files : /\ m.files[i].path = files[i].path /\ m.files[i].size = Len(files[i].bytes)
                                    /\ m.files[i].digest = files[i].bytes
         /\ Paths(m.files) = Paths(files)
         /\ SumOf([i \in DOMAIN m.files |-> m.files[i].size]) = TotalBytes(files)
<1>1. DOMAIN m.files = DOMAIN files /\ DOMAIN files = 1..Len(files) /\ Len(files) \in Nat
  BY DEF Recorded
<1>2. m.files \in Seq([path : Seq(DOMAIN Fold), size : Nat, digest : Seq(Bytes)])
  <2>1. ASSUME NEW i \in 1..Len(files)
        PROVE  /\ files[i].path \in Seq(DOMAIN Fold) /\ files[i].bytes \in Seq(Bytes)
               /\ Len(files[i].bytes) \in Nat
    <3>1. files[i] \in Part
      OBVIOUS
    <3> QED
      BY <3>1 DEF Part
  <2>2. m.files = [i \in 1..Len(files) |-> [path |-> files[i].path, size |-> Len(files[i].bytes),
                                            digest |-> files[i].bytes]]
    BY <1>1 DEF Recorded
  <2> QED
    BY <1>1, <2>1, <2>2
<1>3. Len(m.files) = Len(files)
  BY <1>1, <1>2
<1>4. \A i \in DOMAIN files : /\ m.files[i].path = files[i].path /\ m.files[i].size = Len(files[i].bytes)
                              /\ m.files[i].digest = files[i].bytes
  BY DEF Recorded
<1>5. Paths(m.files) = Paths(files)
  BY <1>1, <1>4 DEF Paths
<1>6. [i \in DOMAIN m.files |-> m.files[i].size] = [i \in DOMAIN files |-> Len(files[i].bytes)]
  BY <1>1, <1>4
<1>7. SumOf([i \in DOMAIN m.files |-> m.files[i].size]) = TotalBytes(files)
  BY <1>6 DEF TotalBytes
<1> QED
  BY <1>1, <1>3, <1>4, <1>5, <1>7

(* load_manifest accepts what create wrote.                                     *)
LEMMA WholeLoads ==
  ASSUME NEW r \in Requests, NEW form, Received(form), Whole(upload[r], r, form)
  PROVE  LoadManifest(r) /\ Digests(upload[r].manifest) = Digests([files |-> Recorded(form.files)])
<1> DEFINE m == upload[r].manifest
           files == form.files
<1>1. m.id = r /\ m.entry = Entry(form) /\ m.files = Recorded(files) /\ upload[r].exists
  BY DEF Whole
<1> HIDE DEF m
<1>2. files \in Seq(Part)
  BY FormFiles
<1>3. PICK n : n = m
  OBVIOUS
<1>4. /\ DOMAIN n.files = DOMAIN files /\ Len(n.files) = Len(files)
      /\ \A i \in DOMAIN files : /\ n.files[i].path = files[i].path /\ n.files[i].size = Len(files[i].bytes)
                                 /\ n.files[i].digest = files[i].bytes
      /\ Paths(n.files) = Paths(files)
      /\ SumOf([i \in DOMAIN n.files |-> n.files[i].size]) = TotalBytes(files)
  BY <1>1, <1>2, <1>3, RecordedFiles
<1>5. ASSUME NEW i \in DOMAIN files PROVE n.files[i].size \in 0..MaxFileBytes
  <2>1. files[i] \in Part
    BY <1>2
  <2>2. Len(files[i].bytes) \in Nat
    BY <2>1 DEF Part
  <2>3. Len(files[i].bytes) <= MaxFileBytes
    BY DEF Whole, Clean
  <2> QED
    BY <1>4, <2>2, <2>3
<1>6. n.entry \in {n.files[i].path : i \in DOMAIN n.files}
  BY <1>1, <1>3, <1>4 DEF Whole
<1>7. ValidPaths(Paths(n.files)) /\ Len(n.files) \in 1..MaxFiles
  BY <1>4 DEF Received
<1>11. IsList(n.files)
  <2>1. n.files = [i \in DOMAIN files |-> n.files[i]] /\ DOMAIN files = 1..Len(files)
    <3>1. DOMAIN files = 1..Len(files)
      BY <1>2
    <3>2. n.files = Recorded(files)
      BY <1>1, <1>3
    <3> QED
      BY <3>1, <3>2 DEF Recorded
  <2> QED
    BY <1>4, <2>1 DEF IsList
<1>8. ~(SumOf([i \in DOMAIN n.files |-> n.files[i].size]) > MaxTotalBytes)
  BY <1>4 DEF Received
<1>9. LoadManifest(r)
  BY <1>1, <1>3, <1>4, <1>5, <1>6, <1>7, <1>8, <1>11 DEF LoadManifest, m
<1>10. Digests(n) = Digests([files |-> Recorded(files)])
  BY <1>1, <1>3 DEF Digests
<1> QED
  BY <1>3, <1>9, <1>10 DEF m

LEMMA WholeImplies == WholeInv => UploadsAreWhole
<1> SUFFICES ASSUME WholeInv, NEW r \in Requests, upload[r].exists, r \notin decayed
             PROVE  /\ upload[r].files = Sent(r) /\ Listed(upload[r].manifest) = DOMAIN Sent(r)
                    /\ \A p \in DOMAIN Sent(r) : ~HasMarker(Sent(r)[p])
                    /\ LoadManifest(r)
  BY DEF UploadsAreWhole
<1>1. PICK form : form = request[r].form
  OBVIOUS
<1>2. Received(form) /\ Whole(upload[r], r, form)
  BY <1>1 DEF WholeInv, UploadIs
<1>3. LoadManifest(r)
  BY <1>2, WholeLoads
<1>4. Sent(r) = SentOf(form.files)
  BY <1>1 DEF Sent, SentOf
<1>5. PICK m, files : m = upload[r].manifest /\ files = form.files
  OBVIOUS
<1>6. m.files = Recorded(files) /\ upload[r].files = SentOf(files)
  BY <1>2, <1>5 DEF Whole
<1>7. files \in Seq(Part)
  BY <1>2, <1>5, FormFiles
<1>8. DOMAIN m.files = DOMAIN files /\ \A i \in DOMAIN files : m.files[i].path = files[i].path
  BY <1>6, <1>7, RecordedFiles
<1>9. Listed(m) = DOMAIN SentOf(files)
  BY <1>8 DEF Listed, SentOf
<1>10. ASSUME NEW p \in DOMAIN SentOf(files) PROVE ~HasMarker(SentOf(files)[p])
  <2>1. PICK j : j = CHOOSE i \in DOMAIN files : files[i].path = p
    OBVIOUS
  <2>2. \E i \in DOMAIN files : files[i].path = p
    BY DEF SentOf
  <2>3. j \in DOMAIN files
    BY <2>1, <2>2
  <2>4. SentOf(files)[p] = files[j].bytes
    BY <2>1 DEF SentOf
  <2> QED
    BY <1>2, <1>5, <2>3, <2>4 DEF Whole, Clean
<1> QED
  BY <1>3, <1>4, <1>5, <1>6, <1>9, <1>10

(* A step of one request that publishes nothing keeps every upload.              *)
LEMMA OwnRequest ==
  ASSUME Shapes, WholeInv, NEW r \in Requests, NEW q,
         request' = [request EXCEPT ![r] = q], stage' = [stage EXCEPT ![r] = stage'[r]],
         upload' = upload, decayed' = decayed, request[r].phase # "answered",
         RequestIs(r, q, stage'[r])
  PROVE  WholeInv'
<1>1. /\ request'[r] = q /\ \A p \in Requests \ {r} : request'[p] = request[p] /\ stage'[p] = stage[p]
  BY DEF Shapes
<1>2. \A p \in Requests : RequestIs(p, request'[p], stage'[p])
  BY <1>1 DEF WholeInv
<1>3. ASSUME NEW p \in Requests, upload'[p].exists
      PROVE  UploadIs(p)'
  <2>1. p # r
    BY <1>3 DEF WholeInv, UploadIs
  <2>2. request'[p] = request[p]
    BY <1>1, <2>1
  <2>3. LoadManifest(p)' <=> LoadManifest(p)
    BY DEF LoadManifest
  <2>4. UploadIs(p)
    BY DEF WholeInv
  <2> QED
    BY <1>3, <2>2, <2>3, <2>4 DEF UploadIs
<1>4. \A p \in Requests : UploadIs(p)'
  BY <1>3 DEF UploadIs
<1> QED
  BY <1>2, <1>4 DEF WholeInv

LEMMA ReceiveWhole == ASSUME Shapes, WholeInv, NEW r \in Requests, Receive(r) PROVE WholeInv'
<1>1. PICK form \in Forms : request' = [request EXCEPT ![r] =
         [form |-> form,
          phase |-> IF ParseFails(form) \/ ~Normal(Entry(form)) \/ ~ValidPaths(Paths(form.files))
                    THEN "refused" ELSE "accepted"]]
  BY DEF Receive
<1>2. PICK q : q = [form |-> form,
                    phase |-> IF ParseFails(form) \/ ~Normal(Entry(form)) \/ ~ValidPaths(Paths(form.files))
                              THEN "refused" ELSE "accepted"]
  OBVIOUS
<1>3. q.form = form /\ q.phase \in {"refused", "accepted"} /\ q = [form |-> form, phase |-> q.phase]
      /\ (q.phase = "accepted" => ~ParseFails(form) /\ ValidPaths(Paths(form.files)))
  BY <1>2
<1>4. q.phase = "accepted" => Received(form)
  BY <1>3 DEF ParseFails, Received
<1>5. RequestIs(r, q, stage'[r])
  BY <1>3, <1>4 DEF RequestIs
<1>6. /\ request[r].phase = "idle" /\ stage' = stage /\ upload' = upload /\ decayed' = decayed
  BY DEF Receive
<1>7. stage' = [stage EXCEPT ![r] = stage'[r]]
  BY <1>6 DEF Shapes
<1> QED
  BY <1>1, <1>2, <1>5, <1>6, <1>7, OwnRequest

LEMMA StageWhole == ASSUME Shapes, WholeInv, NEW r \in Requests, StageMade(r) PROVE WholeInv'
<1>1. PICK q, form : q = At(r, 1) /\ form = request[r].form
  OBVIOUS
<1>2. q = [phase |-> "writing", form |-> form, file |-> 1, read |-> 0, window |-> <<>>, total |-> 0]
  BY <1>1 DEF At
<1>3. /\ q.phase = "writing" /\ q.form = form /\ q.file = 1 /\ q.read = 0 /\ q.window = <<>> /\ q.total = 0
  BY <1>2
<1>4. Received(form)
  BY <1>1 DEF WholeInv, RequestIs, StageMade
<1>5. /\ request[r].phase = "accepted" /\ request' = [request EXCEPT ![r] = q]
      /\ stage' = [stage EXCEPT ![r] = Directory] /\ upload' = upload /\ decayed' = decayed
  BY <1>1 DEF StageMade
<1>6. stage'[r] = Directory /\ stage' = [stage EXCEPT ![r] = stage'[r]]
  BY <1>5 DEF Shapes
<1>7. PICK d : d = stage'[r] /\ d = [exists |-> TRUE, files |-> NoFiles, manifest |-> NoManifest]
  BY <1>6 DEF Directory, NoDirectory
<1>8. d.exists /\ d = [exists |-> d.exists, files |-> d.files, manifest |-> d.manifest] /\ d.files = NoFiles
  BY <1>7
<1>9. Holds(d.files, form.files, 1, 0)
  BY <1>8, HoldsNone
<1>10. Searched(form.files[1].bytes, 0, <<>>)
  <2>1. PICK b : b = form.files[1].bytes
    OBVIOUS
  <2>2. b \in Seq(Bytes) /\ Len(b) \in Nat
    <3>1. form.files \in Seq(Part) /\ 1 \in 1..Len(form.files)
      BY <1>4, FormFiles, UploadsAssumption DEF Received
    <3>2. form.files[1] \in Part
      BY <3>1
    <3> QED
      BY <2>1, <3>2 DEF Part
  <2>3. First(b, 0) = <<>>
    BY <2>2, FirstBytes
  <2>4. 0 <= Len(b) /\ 0 <= MaxFileBytes
    BY <2>2, UploadsAssumption
  <2> QED
    BY <2>1, <2>3, <2>4, NothingHasNoMarker DEF Searched
<1>11. Filling(q, d)
  <2>1. Len(form.files) \in Nat /\ 1 \in 1..(Len(form.files) + 1) /\ 1..(1 - 1) = {} /\ 0 \in Nat
    BY <1>4 DEF Received
  <2> QED
    BY <1>2, <1>3, <1>4, <1>8, <1>9, <1>10, <2>1 DEF Filling
<1>12. RequestIs(r, q, d)
  BY <1>3, <1>11 DEF RequestIs
<1> QED
  BY <1>5, <1>6, <1>7, <1>12, OwnRequest

(* One more chunk is read.                                                       *)
LEMMA SearchedMore ==
  ASSUME NEW b \in Seq(Bytes), NEW n \in Nat, n < Len(b), NEW w, Searched(b, n, w), NEW c, c = Taken(b, n),
         ~(n + Len(c) > MaxFileBytes), ~HasMarker(w \o c)
  PROVE  Searched(b, n + Len(c), Carried(w \o c))
<1>1. /\ c \in Seq(Bytes) /\ Len(c) \in Nat \ {0} /\ n + Len(c) <= Len(b)
      /\ First(b, n) \o c = First(b, n + Len(c))
  BY OneMoreRead
<1>2. PICK s : s = First(b, n) /\ s \in Seq(Bytes)
  BY FirstBytes
<1>3. w = LastBytes(s, M) /\ ~HasMarker(s)
  BY <1>2 DEF Searched
<1>4. ~HasMarker(s \o c)
  BY <1>1, <1>2, <1>3, WindowSees
<1>5. LastBytes(w \o c, M) = LastBytes(s \o c, M)
  BY <1>1, <1>2, <1>3, WindowMoves
<1>6. n + Len(c) <= MaxFileBytes
  BY <1>1, UploadsAssumption
<1> QED
  BY <1>1, <1>2, <1>4, <1>5, <1>6 DEF Searched, Carried, M

LEMMA FilesChanged ==
  ASSUME NEW d, d = [exists |-> d.exists, files |-> d.files, manifest |-> d.manifest], NEW g, NEW m
  PROVE  /\ [d EXCEPT !.files = g] = [exists |-> d.exists, files |-> g, manifest |-> d.manifest]
         /\ [d EXCEPT !.manifest = m] = [exists |-> d.exists, files |-> d.files, manifest |-> m]
OBVIOUS

(* The file being received is a file of a received form.                         *)
LEMMA CurrentFile ==
  ASSUME NEW r \in Requests, NEW d, Filling(request[r], d), More(r)
  PROVE  /\ request[r].form.files \in Seq(Part) /\ Distinct(request[r].form.files)
         /\ request[r].file \in DOMAIN request[r].form.files /\ request[r].file \in Nat
         /\ DOMAIN request[r].form.files = 1..Len(request[r].form.files) /\ Len(request[r].form.files) \in Nat
         /\ Current(r).bytes \in Seq(Bytes) /\ Len(Current(r).bytes) \in Nat
         /\ Searched(Current(r).bytes, request[r].read, request[r].window) /\ request[r].read \in Nat
<1>1. request[r].form.files \in Seq(Part) /\ Distinct(request[r].form.files)
  BY FormFiles DEF Filling
<1>2. /\ request[r].file \in DOMAIN request[r].form.files /\ request[r].file \in Nat
      /\ DOMAIN request[r].form.files = 1..Len(request[r].form.files) /\ Len(request[r].form.files) \in Nat
  BY <1>1 DEF Filling, More
<1>3. Current(r) \in Part
  BY <1>1, <1>2 DEF Current
<1>4. Current(r).bytes \in Seq(Bytes) /\ Len(Current(r).bytes) \in Nat
  BY <1>3 DEF Part
<1> QED
  BY <1>1, <1>2, <1>4 DEF Filling, More, Current

LEMMA ChunkWhole == ASSUME Shapes, WholeInv, NEW r \in Requests, ChunkWritten(r) PROVE WholeInv'
<1>1. PICK q, d, form, files, k, n, b, w, c, g :
        /\ q = request[r] /\ d = stage[r] /\ form = q.form /\ files = form.files /\ k = q.file /\ n = q.read
        /\ b = Current(r).bytes /\ w = q.window /\ c = Chunk(r)
        /\ g = With(d.files, Current(r).path, (IF n = 0 THEN <<>> ELSE d.files[Current(r).path]) \o c)
  OBVIOUS
<1>2. PICK v, e : v = [q EXCEPT !.read = @ + Len(c), !.total = @ + Len(c), !.window = Carried(@ \o c)]
                  /\ e = [d EXCEPT !.files = g]
  OBVIOUS
<1>3. /\ request' = [request EXCEPT ![r] = v] /\ stage' = [stage EXCEPT ![r] = e]
      /\ upload' = upload /\ decayed' = decayed /\ ~Refuses(r, c) /\ n < Len(b) /\ More(r)
  BY <1>1, <1>2 DEF ChunkWritten, Shapes
<1>4. Filling(q, d) /\ q.phase = "writing"
  BY <1>1, <1>3 DEF WholeInv, RequestIs, More
<1>5. /\ files \in Seq(Part) /\ Distinct(files) /\ k \in DOMAIN files /\ k \in Nat /\ DOMAIN files = 1..Len(files)
      /\ Len(files) \in Nat /\ b \in Seq(Bytes) /\ Len(b) \in Nat /\ Searched(b, n, w) /\ n \in Nat
  BY <1>1, <1>3, <1>4, CurrentFile
<1>6. Current(r) = files[k] /\ b = files[k].bytes /\ c = Taken(b, n)
  BY <1>1 DEF Current, Chunk, Taken
<1>7. ~(n + Len(c) > MaxFileBytes) /\ ~HasMarker(w \o c)
  BY <1>1, <1>3 DEF Refuses
<1>8. Searched(b, n + Len(c), Carried(w \o c))
  BY <1>3, <1>5, <1>6, <1>7, SearchedMore
<1>9. Holds(g, files, k, n + Len(c))
  <2>1. PICK f : f = d.files
    OBVIOUS
  <2>2. Holds(f, files, k, n)
    BY <1>1, <1>4, <2>1 DEF Filling
  <2>3. g = With(f, files[k].path, (IF n = 0 THEN <<>> ELSE f[files[k].path]) \o c)
    BY <1>1, <1>6, <2>1
  <2> QED
    BY <1>3, <1>5, <1>6, <2>2, <2>3, HoldsMore
<1>10. Len(c) \in Nat
  BY <1>3, <1>5, <1>6, OneMoreRead
<1>11. /\ v.phase = "writing" /\ v.form = form /\ v.file = k /\ v.read = n + Len(c) /\ v.window = Carried(w \o c)
       /\ v = [phase |-> "writing", form |-> v.form, file |-> v.file, read |-> v.read, window |-> v.window,
               total |-> v.total]
  BY <1>1, <1>2, <1>4 DEF Filling
<1>12. e.files = g /\ e.exists /\ e = [exists |-> e.exists, files |-> e.files, manifest |-> e.manifest]
  <2>1. d.exists /\ d = [exists |-> d.exists, files |-> d.files, manifest |-> d.manifest]
    BY <1>4 DEF Filling
  <2>2. e = [d EXCEPT !.files = g]
    BY <1>2
  <2>3. e = [exists |-> d.exists, files |-> g, manifest |-> d.manifest]
    <3>1. [d EXCEPT !.files = g] = [exists |-> d.exists, files |-> g, manifest |-> d.manifest]
      BY <2>1, FilesChanged
    <3> QED
      BY <2>2, <3>1
  <2> QED
    BY <2>1, <2>3
<1>13. Received(form) /\ k \in 1..(Len(files) + 1) /\ \A i \in 1..(k - 1) : Clean(files[i].bytes)
  BY <1>1, <1>4 DEF Filling
<1>14. n + Len(c) \in Nat /\ ~(k > Len(files))
  BY <1>5, <1>10
<1>15. Filling(v, e)
  BY <1>1, <1>6, <1>8, <1>9, <1>11, <1>12, <1>13, <1>14 DEF Filling
<1>16. RequestIs(r, v, e)
  BY <1>11, <1>15 DEF RequestIs
<1>17. stage'[r] = e /\ stage' = [stage EXCEPT ![r] = stage'[r]] /\ request[r].phase # "answered"
  BY <1>1, <1>3, <1>4 DEF Shapes
<1> QED
  BY <1>3, <1>16, <1>17, OwnRequest

LEMMA FileWhole == ASSUME Shapes, WholeInv, NEW r \in Requests, FileWritten(r) PROVE WholeInv'
<1>1. PICK q, d, form, files, k, b, w, g :
        /\ q = request[r] /\ d = stage[r] /\ form = q.form /\ files = form.files /\ k = q.file
        /\ b = Current(r).bytes /\ w = q.window
        /\ g = IF Len(b) = 0 THEN With(d.files, Current(r).path, <<>>) ELSE d.files
  OBVIOUS
<1>2. PICK v, e : v = [At(r, k + 1) EXCEPT !.total = q.total] /\ e = [d EXCEPT !.files = g]
  OBVIOUS
<1>3. /\ request' = [request EXCEPT ![r] = v] /\ stage' = [stage EXCEPT ![r] = e]
      /\ upload' = upload /\ decayed' = decayed /\ q.read = Len(b) /\ More(r)
  BY <1>1, <1>2 DEF FileWritten, Shapes
<1>4. Filling(q, d) /\ q.phase = "writing"
  BY <1>1, <1>3 DEF WholeInv, RequestIs, More
<1>5. /\ files \in Seq(Part) /\ Distinct(files) /\ k \in DOMAIN files /\ k \in Nat /\ DOMAIN files = 1..Len(files)
      /\ Len(files) \in Nat /\ b \in Seq(Bytes) /\ Len(b) \in Nat /\ Searched(b, Len(b), w)
  BY <1>1, <1>3, <1>4, CurrentFile
<1>6. Current(r) = files[k] /\ b = files[k].bytes
  BY <1>1 DEF Current
<1>7. Clean(b)
  <2>1. First(b, Len(b)) = b
    BY <1>5, FirstBytes
  <2> QED
    BY <1>5, <2>1 DEF Searched, Clean
<1>8. Holds(g, files, k + 1, 0)
  <2>1. PICK f : f = d.files
    OBVIOUS
  <2>2. Holds(f, files, k, Len(b))
    BY <1>1, <1>3, <1>4, <2>1 DEF Filling
  <2>3. g = IF Len(b) = 0 THEN With(f, files[k].path, <<>>) ELSE f
    BY <1>1, <1>6, <2>1
  <2> QED
    BY <1>5, <1>6, <2>2, <2>3, HoldsNext
<1>9. \A i \in 1..k : Clean(files[i].bytes)
  <2>1. \A i \in 1..k : i \in 1..(k - 1) \/ i = k
    BY <1>5
  <2>2. \A i \in 1..(k - 1) : Clean(files[i].bytes)
    BY <1>1, <1>4 DEF Filling
  <2> QED
    BY <1>6, <1>7, <2>1, <2>2
<1>10. k + 1 <= Len(files) => Searched(files[k + 1].bytes, 0, <<>>)
  <2> SUFFICES ASSUME k + 1 <= Len(files) PROVE Searched(files[k + 1].bytes, 0, <<>>)
    OBVIOUS
  <2>1. PICK x : x = files[k + 1]
    OBVIOUS
  <2>2. x \in Part
    BY <1>5, <2>1
  <2>3. x.bytes \in Seq(Bytes) /\ Len(x.bytes) \in Nat
    BY <2>2 DEF Part
  <2>4. First(x.bytes, 0) = <<>>
    BY <2>3, FirstBytes
  <2>5. 0 <= Len(x.bytes) /\ 0 <= MaxFileBytes
    BY <2>3, UploadsAssumption
  <2> QED
    BY <2>1, <2>4, <2>5, NothingHasNoMarker DEF Searched
<1>11. v = [phase |-> "writing", form |-> form, file |-> k + 1, read |-> 0, window |-> <<>>, total |-> q.total]
  BY <1>1, <1>2 DEF At
<1>12. /\ v.phase = "writing" /\ v.form = form /\ v.file = k + 1 /\ v.read = 0 /\ v.window = <<>>
       /\ v = [phase |-> "writing", form |-> v.form, file |-> v.file, read |-> v.read, window |-> v.window,
               total |-> v.total]
  BY <1>11
<1>13. e.files = g /\ e.exists /\ e = [exists |-> e.exists, files |-> e.files, manifest |-> e.manifest]
  <2>1. d.exists /\ d = [exists |-> d.exists, files |-> d.files, manifest |-> d.manifest]
    BY <1>4 DEF Filling
  <2>2. e = [d EXCEPT !.files = g]
    BY <1>2
  <2>3. e = [exists |-> d.exists, files |-> g, manifest |-> d.manifest]
    <3>1. [d EXCEPT !.files = g] = [exists |-> d.exists, files |-> g, manifest |-> d.manifest]
      BY <2>1, FilesChanged
    <3> QED
      BY <2>2, <3>1
  <2> QED
    BY <2>1, <2>3
<1>14. Received(form) /\ k + 1 \in 1..(Len(files) + 1) /\ (k + 1) - 1 = k /\ 0 \in Nat
  BY <1>1, <1>4, <1>5 DEF Filling
<1>15. Filling(v, e)
  BY <1>1, <1>8, <1>9, <1>10, <1>12, <1>13, <1>14 DEF Filling
<1>16. RequestIs(r, v, e)
  BY <1>12, <1>15 DEF RequestIs
<1>17. stage'[r] = e /\ stage' = [stage EXCEPT ![r] = stage'[r]] /\ request[r].phase # "answered"
  BY <1>1, <1>3, <1>4 DEF Shapes
<1> QED
  BY <1>3, <1>16, <1>17, OwnRequest

LEMMA ManifestWhole == ASSUME Shapes, WholeInv, NEW r \in Requests, ManifestWritten(r) PROVE WholeInv'
<1>1. PICK q, d, form, files, m :
        /\ q = request[r] /\ d = stage[r] /\ form = q.form /\ files = form.files
        /\ m = [id |-> r, entry |-> Entry(form), files |-> Records(r)]
  OBVIOUS
<1>2. PICK v, e : v = [phase |-> "publishing", form |-> form, attempt |-> 1] /\ e = [d EXCEPT !.manifest = m]
  OBVIOUS
<1>3. /\ request' = [request EXCEPT ![r] = v] /\ stage' = [stage EXCEPT ![r] = e]
      /\ upload' = upload /\ decayed' = decayed /\ ~More(r) /\ q.phase = "writing"
      /\ \E i \in DOMAIN files : files[i].path = Entry(form)
  BY <1>1, <1>2 DEF ManifestWritten, EntryUploaded, Shapes
<1>4. Filling(q, d)
  BY <1>1, <1>3 DEF WholeInv, RequestIs
<1>5. files \in Seq(Part) /\ Distinct(files) /\ Received(form)
  BY <1>1, <1>4, FormFiles DEF Filling
<1>6. q.file = Len(files) + 1 /\ q.read = 0 /\ Len(files) \in Nat /\ DOMAIN files = 1..Len(files)
  BY <1>1, <1>3, <1>4, <1>5 DEF Filling, More
<1>7. /\ Holds(d.files, files, Len(files) + 1, 0) /\ \A i \in DOMAIN files : Clean(files[i].bytes)
  BY <1>1, <1>4, <1>6 DEF Filling
<1>8. PICK f : f = d.files
  OBVIOUS
<1>9. f = SentOf(files)
  BY <1>5, <1>7, <1>8, HoldsAll
<1>10. Records(r) = Recorded(files)
  <2>1. \A i \in DOMAIN files : f[files[i].path] = files[i].bytes
    BY <1>6, <1>7, <1>8 DEF Holds
  <2> QED
    BY <1>1, <1>8, <2>1 DEF Records, Recorded
<1>11. /\ e.exists
       /\ e = [exists |-> e.exists, files |-> SentOf(files),
               manifest |-> [id |-> r, entry |-> Entry(form), files |-> Recorded(files)]]
  <2>0. d.exists /\ d = [exists |-> d.exists, files |-> d.files, manifest |-> d.manifest]
    BY <1>4 DEF Filling
  <2>1. e = [exists |-> d.exists, files |-> f, manifest |-> m]
    BY <1>2, <1>8, <2>0, FilesChanged
  <2> QED
    BY <1>1, <1>9, <1>10, <2>0, <2>1
<1>12. Whole(e, r, form)
  BY <1>1, <1>3, <1>7, <1>11 DEF Whole
<1>13. v.phase = "publishing" /\ v.form = form
       /\ v = [phase |-> "publishing", form |-> v.form, attempt |-> v.attempt]
  BY <1>2
<1>14. RequestIs(r, v, e)
  BY <1>5, <1>12, <1>13 DEF RequestIs
<1>15. stage'[r] = e /\ stage' = [stage EXCEPT ![r] = stage'[r]] /\ request[r].phase # "answered"
  BY <1>1, <1>3 DEF Shapes
<1> QED
  BY <1>3, <1>14, <1>15, OwnRequest

LEMMA DelayWhole == ASSUME Shapes, WholeInv, NEW r \in Requests, RenameDelayed(r) PROVE WholeInv'
<1>1. PICK q, v : q = request[r] /\ v = [q EXCEPT !.attempt = @ + 1]
  OBVIOUS
<1>2. /\ request' = [request EXCEPT ![r] = v] /\ stage' = stage /\ upload' = upload /\ decayed' = decayed
      /\ q.phase = "publishing"
  BY <1>1 DEF RenameDelayed
<1>3. /\ q = [phase |-> "publishing", form |-> q.form, attempt |-> q.attempt] /\ Received(q.form)
      /\ Whole(stage[r], r, q.form)
  BY <1>1, <1>2 DEF WholeInv, RequestIs
<1>4. /\ v.phase = "publishing" /\ v.form = q.form
      /\ v = [phase |-> "publishing", form |-> v.form, attempt |-> v.attempt]
  BY <1>1, <1>3
<1>5. RequestIs(r, v, stage[r])
  BY <1>3, <1>4 DEF RequestIs
<1>6. stage'[r] = stage[r] /\ stage' = [stage EXCEPT ![r] = stage'[r]] /\ request[r].phase # "answered"
  BY <1>1, <1>2 DEF Shapes
<1> QED
  BY <1>2, <1>5, <1>6, OwnRequest

LEMMA FailWhole == ASSUME Shapes, WholeInv, NEW r \in Requests, CreateFails(r) PROVE WholeInv'
<1>0. PICK v : v = [phase |-> "failed"]
  OBVIOUS
<1>1. v = [phase |-> "failed"] /\ v.phase = "failed"
  BY <1>0
<1>2. /\ request' = [request EXCEPT ![r] = v] /\ stage' = [stage EXCEPT ![r] = NoDirectory] /\ upload' = upload
      /\ decayed' = decayed /\ request[r].phase # "answered"
  BY <1>1 DEF CreateFails
<1>3. stage' = [stage EXCEPT ![r] = stage'[r]]
  BY <1>2 DEF Shapes
<1>4. RequestIs(r, v, stage'[r])
  BY <1>1 DEF RequestIs
<1> QED
  BY <1>2, <1>3, <1>4, OwnRequest

LEMMA AbandonWhole == ASSUME Shapes, WholeInv, NEW r \in Requests, Abandoned(r) PROVE WholeInv'
<1>0. PICK v : v = [phase |-> "lost", form |-> request[r].form]
  OBVIOUS
<1>1. v = [phase |-> "lost", form |-> request[r].form] /\ v.phase = "lost"
  BY <1>0
<1>2. /\ request' = [request EXCEPT ![r] = v] /\ stage' = stage /\ upload' = upload
      /\ decayed' = decayed /\ request[r].phase # "answered"
  BY <1>1 DEF Abandoned
<1>3. stage' = [stage EXCEPT ![r] = stage'[r]]
  BY <1>2 DEF Shapes
<1>4. RequestIs(r, v, stage'[r])
  BY <1>1 DEF RequestIs
<1> QED
  BY <1>2, <1>3, <1>4, OwnRequest

LEMMA PublishWhole == ASSUME Shapes, WholeInv, NEW r \in Requests, Published(r) PROVE WholeInv'
<1>1. PICK q, v, d : q = request[r] /\ v = [q EXCEPT !.phase = "answered"] /\ d = stage[r]
  OBVIOUS
<1>2. /\ request' = [request EXCEPT ![r] = v] /\ stage' = [stage EXCEPT ![r] = NoDirectory]
      /\ upload' = [upload EXCEPT ![r] = d] /\ decayed' = decayed /\ q.phase = "publishing"
  BY <1>1 DEF Published
<1>3. /\ q = [phase |-> "publishing", form |-> q.form, attempt |-> q.attempt] /\ Received(q.form)
      /\ Whole(d, r, q.form)
  BY <1>1, <1>2 DEF WholeInv, RequestIs
<1>4. v.phase = "answered" /\ v.form = q.form
  BY <1>1, <1>3
<1>5. /\ request'[r] = v /\ upload'[r] = d
      /\ \A p \in Requests \ {r} : request'[p] = request[p] /\ stage'[p] = stage[p] /\ upload'[p] = upload[p]
  BY <1>2 DEF Shapes
<1>6. ASSUME NEW p \in Requests PROVE RequestIs(p, request'[p], stage'[p])
  <2>1. CASE p = r
    BY <1>4, <1>5, <2>1 DEF RequestIs
  <2> QED
    BY <1>5, <2>1 DEF WholeInv
<1>7. ASSUME NEW p \in Requests \ {r} PROVE UploadIs(p)'
  <2>1. LoadManifest(p)' <=> LoadManifest(p)
    <3>1. upload'[p] = upload[p]
      BY <1>5
    <3> QED
      BY <3>1 DEF LoadManifest
  <2>2. UploadIs(p)
    BY DEF WholeInv
  <2> QED
    BY <1>2, <1>5, <2>1, <2>2 DEF UploadIs
<1>8. UploadIs(r)'
  <2>1. PICK form : form = q.form
    OBVIOUS
  <2>2. Received(form) /\ Whole(upload'[r], r, form)
    BY <1>3, <1>5, <2>1
  <2>3. Digests(upload'[r].manifest) = Digests([files |-> Recorded(form.files)])
    BY <2>2 DEF Whole, Digests
  <2> QED
    BY <1>4, <1>5, <2>1, <2>2, <2>3 DEF UploadIs
<1> QED
  BY <1>6, <1>7, <1>8 DEF WholeInv

LEMMA DecayWhole == ASSUME Shapes, WholeInv, NEW r \in Requests, Decays(r) PROVE WholeInv'
<1>1. PICK d : upload' = [upload EXCEPT ![r] = d]
  BY DEF Decays
<1>2. /\ request' = request /\ stage' = stage /\ upload[r].exists /\ r \notin decayed /\ decayed' = decayed \cup {r}
      /\ LoadManifest(r)' => Digests(upload'[r].manifest) = Digests(upload[r].manifest)
  BY DEF Decays
<1>3. \A p \in Requests \ {r} : upload'[p] = upload[p]
  BY <1>1 DEF Shapes
<1>4. \A p \in Requests : RequestIs(p, request'[p], stage'[p])
  BY <1>2 DEF WholeInv
<1>5. ASSUME NEW p \in Requests \ {r} PROVE UploadIs(p)'
  <2>1. LoadManifest(p)' <=> LoadManifest(p)
    BY <1>3 DEF LoadManifest
  <2>2. UploadIs(p)
    BY DEF WholeInv
  <2> QED
    BY <1>2, <1>3, <2>1, <2>2 DEF UploadIs
<1>6. UploadIs(r)'
  <2>1. PICK form : form = request[r].form
    OBVIOUS
  <2>2. request[r].phase = "answered" /\ Received(form) /\ Whole(upload[r], r, form)
    BY <1>2, <2>1 DEF WholeInv, UploadIs
  <2>3. Digests(upload[r].manifest) = Digests([files |-> Recorded(form.files)])
    BY <2>2 DEF Whole, Digests
  <2> QED
    BY <1>2, <2>1, <2>2, <2>3 DEF UploadIs
<1> QED
  BY <1>4, <1>5, <1>6 DEF WholeInv

LEMMA WholeStep == Shapes /\ WholeInv /\ [Next]_vars => WholeInv'
<1> SUFFICES ASSUME Shapes, WholeInv, [Next]_vars PROVE WholeInv'
  OBVIOUS
<1>1. ASSUME UNCHANGED <<request, stage, upload, decayed>> PROVE WholeInv'
  <2>1. \A r \in Requests : LoadManifest(r)' <=> LoadManifest(r)
    BY <1>1 DEF LoadManifest
  <2>2. \A r \in Requests : UploadIs(r)'
    BY <1>1, <2>1 DEF WholeInv, UploadIs
  <2> QED
    BY <1>1, <2>2 DEF WholeInv
<1>2. CASE LocalEdited \/ UNCHANGED vars
  BY <1>1, <1>2 DEF LocalEdited, vars
<1>3. CASE \E t \in Tasks :
        \/ CreateTask(t) \/ MaterializeBegins(t) \/ FileChecked(t) \/ FileSearched(t) \/ FileCopied(t)
        \/ AuditStaged(t) \/ SamplePublished(t) \/ AuditReplaced(t) \/ MaterializeFails(t) \/ UndoRaises(t)
        \/ CollectionBegins(t) \/ LocalCopied(t) \/ CollectionEnds(t) \/ CollectionFails(t)
        \/ InlineWritten(t) \/ ContractPrepared(t)
  BY <1>1, <1>3 DEF CreateTask, MaterializeBegins, FileChecked, FileSearched, FileCopied, AuditStaged, SamplePublished,
         AuditReplaced, MaterializeFails, UndoRaises, CollectionBegins, LocalCopied, CollectionEnds, CollectionFails, InlineWritten,
         ContractPrepared
<1>4. CASE Restart
  <2>1. ASSUME NEW r \in Requests
        PROVE  /\ request[r].phase = "answered" => request'[r] = request[r]
               /\ request'[r].phase \notin {"accepted", "writing", "publishing"}
    BY <1>4 DEF Restart
  <2>2. stage' = stage /\ upload' = upload /\ decayed' = decayed
    BY <1>4 DEF Restart
  <2>3. \A r \in Requests : LoadManifest(r)' <=> LoadManifest(r)
    BY <2>2 DEF LoadManifest
  <2>4. \A r \in Requests : UploadIs(r)'
    BY <2>1, <2>2, <2>3 DEF WholeInv, UploadIs
  <2>5. \A r \in Requests : RequestIs(r, request'[r], stage'[r])
    BY <2>1 DEF RequestIs
  <2> QED
    BY <2>4, <2>5 DEF WholeInv
<1>5. CASE \E r \in Requests :
        \/ Receive(r) \/ StageMade(r) \/ ChunkWritten(r) \/ FileWritten(r) \/ ManifestWritten(r)
        \/ Published(r) \/ RenameDelayed(r) \/ CreateFails(r) \/ Abandoned(r) \/ Decays(r)
  BY <1>5, ReceiveWhole, StageWhole, ChunkWhole, FileWhole, ManifestWhole, PublishWhole, DelayWhole, FailWhole,
     AbandonWhole, DecayWhole
<1> QED
  BY <1>2, <1>3, <1>4, <1>5 DEF Next

(* Whatever is sent and whichever operation fails or is the last before a        *)
(* restart, an upload that exists is whole.                                      *)
THEOREM UploadsWhole == Spec => []UploadsAreWhole
<1>1. Init => MadeInv /\ WholeInv
  BY MadeInit, WholeInit
<1>2. MadeInv /\ WholeInv /\ [Next]_vars => MadeInv' /\ WholeInv'
  BY MadeStep, WholeStep DEF MadeInv
<1> QED
  BY <1>1, <1>2, WholeImplies, PTL DEF Spec

(* -- the sample of a task over an upload --------------------------------------------- *)
(* A manifest lists the files with what was sent in them.                        *)
ListedAs(m, files) ==
  /\ DOMAIN m.files = DOMAIN files /\ Len(m.files) = Len(files)
  /\ \A i \in DOMAIN files : m.files[i].path = files[i].path /\ m.files[i].digest = files[i].bytes
LEMMA LoadedIsListed ==
  ASSUME WholeInv, NEW r \in Requests, LoadManifest(r), NEW files, files = request[r].form.files
  PROVE  /\ request[r].phase = "answered" /\ Received(request[r].form)
         /\ ListedAs(upload[r].manifest, files)
         /\ Listed(upload[r].manifest) = DOMAIN SentOf(files)
         /\ upload[r].manifest.entry \in DOMAIN SentOf(files)
<1>1. PICK m : m = upload[r].manifest
  OBVIOUS
<1>2. /\ IsList(m.files) /\ Len(m.files) \in 1..MaxFiles /\ upload[r].exists
      /\ m.entry \in {m.files[i].path : i \in DOMAIN m.files}
  BY <1>1 DEF LoadManifest
<1>3. /\ request[r].phase = "answered" /\ Received(request[r].form)
      /\ Digests(m) = Digests([files |-> Recorded(files)])
  BY <1>1, <1>2 DEF WholeInv, UploadIs
<1>4. files \in Seq(Part)
  BY <1>3, FormFiles
<1>5. PICK n : n = [files |-> Recorded(files)]
  OBVIOUS
<1>6. n.files = Recorded(files)
  BY <1>5
<1>7. /\ DOMAIN n.files = DOMAIN files
      /\ \A i \in DOMAIN files : n.files[i].path = files[i].path /\ n.files[i].digest = files[i].bytes
  BY <1>4, <1>6, RecordedFiles
<1>8. DOMAIN Digests(m) = DOMAIN m.files /\ DOMAIN Digests(n) = DOMAIN n.files
  BY DEF Digests
<1>9. DOMAIN m.files = DOMAIN files
  BY <1>3, <1>5, <1>7, <1>8
<1>10. ASSUME NEW i \in DOMAIN files
       PROVE  m.files[i].path = files[i].path /\ m.files[i].digest = files[i].bytes
  <2>1. /\ Digests(m)[i] = <<m.files[i].path, m.files[i].digest>>
        /\ Digests(n)[i] = <<n.files[i].path, n.files[i].digest>>
    BY <1>7, <1>9 DEF Digests
  <2>2. <<m.files[i].path, m.files[i].digest>> = <<n.files[i].path, n.files[i].digest>>
    BY <1>3, <1>5, <2>1
  <2> QED
    BY <1>7, <2>2
<1>11. Len(m.files) = Len(files)
  <2>1. PICK k \in Nat : k = Len(m.files)
    BY <1>2, UploadsAssumption
  <2>2. m.files = [i \in 1..k |-> m.files[i]]
    BY <1>2, <2>1 DEF IsList
  <2>3. DOMAIN m.files = 1..k
    BY <2>2
  <2>4. DOMAIN files = 1..Len(files) /\ Len(files) \in Nat
    BY <1>4
  <2>5. 1..k = 1..Len(files)
    BY <1>9, <2>3, <2>4
  <2> QED
    BY <2>1, <2>4, <2>5
<1>12. Listed(m) = DOMAIN SentOf(files)
  BY <1>9, <1>10 DEF Listed, SentOf
<1>13. m.entry \in DOMAIN SentOf(files)
  BY <1>2, <1>9, <1>10 DEF SentOf
<1> QED
  BY <1>1, <1>3, <1>9, <1>10, <1>11, <1>12, <1>13 DEF ListedAs

(* The first files of a directory, which are as they were sent but for x.        *)
Agrees(f, files, n, x) ==
  /\ \A p : p \in DOMAIN f <=> \E i \in 1..(n - 1) : p = files[i].path
  /\ \A i \in 1..(n - 1) : files[i].path \notin x => f[files[i].path] = files[i].bytes
(* All of them.                                                                  *)
SentButFor(f, files, x) ==
  DOMAIN f = DOMAIN SentOf(files) /\ \A p \in DOMAIN SentOf(files) : p \notin x => f[p] = SentOf(files)[p]

LEMMA AgreesMore ==
  ASSUME NEW files \in Seq(Part), Distinct(files), NEW k \in DOMAIN files, NEW x, NEW b,
         files[k].path \notin x => b = files[k].bytes,
         NEW f, Agrees(f, files, k, x), NEW g, g = With(f, files[k].path, b)
  PROVE  Agrees(g, files, k + 1, x)
<1>0. k \in Nat /\ DOMAIN files = 1..Len(files) /\ Len(files) \in Nat /\ (k + 1) - 1 = k
  OBVIOUS
<1>2. PICK path : path = files[k].path
  OBVIOUS
<1>3. \A i \in 1..(k - 1) : files[i].path # path /\ files[i].path \in DOMAIN f
  <2> TAKE i \in 1..(k - 1)
  <2>1. i \in DOMAIN files /\ i # k
    BY <1>0
  <2> QED
    BY <1>2, <2>1 DEF Distinct, Agrees
<1>4. IsWith(g, f, path, b)
  BY <1>2, WithIs
<1>5. \A i \in 1..k : i \in 1..(k - 1) \/ i = k
  BY <1>0
<1>6. \A i \in 1..k : files[i].path \notin x => g[files[i].path] = files[i].bytes
  <2>1. \A i \in 1..(k - 1) : files[i].path \notin x => f[files[i].path] = files[i].bytes
    BY DEF Agrees
  <2> QED
    BY <1>2, <1>3, <1>4, <1>5, <2>1 DEF IsWith
<1>7. \A q : q \in DOMAIN g <=> \E i \in 1..k : q = files[i].path
  <2>1. 1..(k - 1) \subseteq 1..k /\ k \in 1..k
    BY <1>0
  <2>2. \A q : q \in DOMAIN f => (\E i \in 1..(k - 1) : q = files[i].path) \/ q = path
    BY <1>2 DEF Agrees
  <2> QED
    BY <1>2, <1>3, <1>4, <1>5, <2>1, <2>2 DEF IsWith
<1> QED
  BY <1>0, <1>6, <1>7 DEF Agrees

LEMMA AgreesAll ==
  ASSUME NEW files \in Seq(Part), Distinct(files), NEW x, NEW f, Agrees(f, files, Len(files) + 1, x)
  PROVE  SentButFor(f, files, x)
<1>1. /\ DOMAIN files = 1..Len(files) /\ Len(files) \in Nat /\ (Len(files) + 1) - 1 = Len(files)
  OBVIOUS
<1>2. /\ \A p : p \in DOMAIN f <=> \E i \in DOMAIN files : p = files[i].path
      /\ \A i \in DOMAIN files : files[i].path \notin x => f[files[i].path] = files[i].bytes
  BY <1>1 DEF Agrees
<1>3. DOMAIN f = DOMAIN SentOf(files)
  BY <1>2 DEF SentOf
<1>4. ASSUME NEW p \in DOMAIN SentOf(files), p \notin x PROVE f[p] = SentOf(files)[p]
  <2>1. PICK i \in DOMAIN files : files[i].path = p
    BY <1>2, <1>3
  <2>2. PICK j : j = CHOOSE h \in DOMAIN files : files[h].path = p
    OBVIOUS
  <2>3. j \in DOMAIN files /\ files[j].path = p
    BY <2>1, <2>2
  <2>4. SentOf(files)[p] = files[j].bytes
    BY <2>2, <2>3 DEF SentOf
  <2> QED
    BY <1>2, <1>4, <2>3, <2>4
<1> QED
  BY <1>3, <1>4 DEF SentButFor

LEMMA AgreesNone == ASSUME NEW files, NEW x PROVE Agrees(NoFiles, files, 1, x)
<1>1. 1..(1 - 1) = {}
  OBVIOUS
<1>2. DOMAIN NoFiles = {}
  BY DEF NoFiles
<1> QED
  BY <1>1, <1>2 DEF Agrees

(* What a task has by the phase it is in, when it serves an upload.  What was    *)
(* found intact and not yet copied is what was sent, unless it changed since.    *)
FilesFor(id) == request[id].form.files
LEMMA SentIs == ASSUME NEW id PROVE Sent(id) = SentOf(FilesFor(id))
BY DEF Sent, SentOf, FilesFor
Serves(order) ==
  /\ order.id \in Requests /\ request[order.id].phase = "answered" /\ Received(request[order.id].form)
  /\ order.entry \in DOMAIN SentOf(FilesFor(order.id)) /\ order.tests \subseteq DOMAIN SentOf(FilesFor(order.id))
Checked(k, files, found, x) ==
  k.step # "check" /\ k.file \in DOMAIN files /\ files[k.file].path \notin x =>
    found[files[k.file].path] = files[k.file].bytes
Copying(k, w, files, x) ==
  /\ ListedAs(k.manifest, files) /\ k.file \in 1..(Len(files) + 1) /\ Agrees(w.stage.files, files, k.file, x)
  /\ k.step # "check" => k.file \in DOMAIN files
  /\ k = [f \in DOMAIN k |-> k[f]] /\ {"file", "step", "manifest"} \subseteq DOMAIN k
  /\ w.stage = [f \in DOMAIN w.stage |-> w.stage[f]] /\ "files" \in DOMAIN w.stage
Prepared(k, files, x) ==
  /\ DOMAIN k.protected = DOMAIN SentOf(files) \ {k.order.entry}
  /\ \A p \in DOMAIN SentOf(files) \ {k.order.entry} : p \notin x => k.protected[p] = SentOf(files)[p]
Served(k, w, files, x) ==
  /\ k.phase = "copying" => Copying(k, w, files, x)
  /\ k.phase = "staged" => SentButFor(w.stage.files, files, x) /\ ListedAs(w.auditStage, files)
  /\ k.phase = "materialized" => SentButFor(w.sample.files, files, x) /\ ListedAs(w.auditStage, files)
  /\ k.phase \in {"ready", "prepared"} => SentButFor(w.sample.files, files, x) /\ ListedAs(w.audit, files)
  /\ k.phase = "prepared" => Prepared(k, files, x)
Serving == {"queued", "copying", "staged", "materialized", "ready", "prepared", "sample_file_missing"}
TaskIs(k, w, x) ==
  k.phase \in Serving /\ k.order.kind = "upload" =>
    /\ Serves(k.order) /\ Served(k, w, FilesFor(k.order.id), x) /\ k.phase # "sample_file_missing"
    /\ k.phase = "copying" => Checked(k, FilesFor(k.order.id), upload[k.order.id].files, x)
SampleInv == \A t \in Tasks : TaskIs(task[t], workspace[t], raced[t])

LEMMA SampleInit == Init => SampleInv
BY DEF Init, SampleInv, TaskIs, Serving

LEMMA SampleImplies == SampleInv => SampleIsTheUpload
<1> SUFFICES ASSUME SampleInv, NEW t \in Tasks, task[t].order.kind = "upload",
                    task[t].phase \in {"ready", "prepared", "sample_file_missing"},
                    NEW sent, sent = Sent(task[t].order.id)
             PROVE  /\ DOMAIN workspace[t].sample.files = DOMAIN sent
                    /\ \A p \in DOMAIN sent \ raced[t] : workspace[t].sample.files[p] = sent[p]
                    /\ Listed(workspace[t].audit) = DOMAIN sent
                    /\ task[t].phase # "sample_file_missing"
                    /\ task[t].phase = "prepared" =>
                         /\ DOMAIN task[t].protected = DOMAIN sent \ {task[t].order.entry}
                         /\ \A p \in (DOMAIN sent \ {task[t].order.entry}) \ raced[t] :
                              task[t].protected[p] = sent[p]
  BY DEF SampleIsTheUpload
<1>1. PICK files : files = FilesFor(task[t].order.id)
  OBVIOUS
<1>2. Served(task[t], workspace[t], files, raced[t]) /\ task[t].phase \in {"ready", "prepared"}
  BY <1>1 DEF SampleInv, TaskIs, Serving
<1>3. sent = SentOf(files)
  BY <1>1, SentIs
<1>4. SentButFor(workspace[t].sample.files, files, raced[t]) /\ ListedAs(workspace[t].audit, files)
  BY <1>2 DEF Served
<1>5. Listed(workspace[t].audit) = DOMAIN sent
  BY <1>3, <1>4 DEF ListedAs, Listed, SentOf
<1>6. /\ DOMAIN workspace[t].sample.files = DOMAIN sent
      /\ \A p \in DOMAIN sent \ raced[t] : workspace[t].sample.files[p] = sent[p]
  BY <1>3, <1>4 DEF SentButFor
<1> QED
  BY <1>2, <1>3, <1>5, <1>6 DEF Served, Prepared

(* No step changes a request that was answered.                                  *)
LEMMA AnsweredStays ==
  ASSUME Shapes, [Next]_vars, NEW r \in Requests, request[r].phase = "answered"
  PROVE  request'[r] = request[r]
<1>1. CASE LocalEdited \/ UNCHANGED vars
  BY <1>1 DEF LocalEdited, vars
<1>2. CASE \E t \in Tasks :
        \/ CreateTask(t) \/ MaterializeBegins(t) \/ FileChecked(t) \/ FileSearched(t) \/ FileCopied(t)
        \/ AuditStaged(t) \/ SamplePublished(t) \/ AuditReplaced(t) \/ MaterializeFails(t) \/ UndoRaises(t)
        \/ CollectionBegins(t) \/ LocalCopied(t) \/ CollectionEnds(t) \/ CollectionFails(t)
        \/ InlineWritten(t) \/ ContractPrepared(t)
  BY <1>2 DEF CreateTask, MaterializeBegins, FileChecked, FileSearched, FileCopied, AuditStaged, SamplePublished,
         AuditReplaced, MaterializeFails, UndoRaises, CollectionBegins, LocalCopied, CollectionEnds, CollectionFails, InlineWritten,
         ContractPrepared
<1>3. CASE Restart
  BY <1>3 DEF Restart
<1>4. ASSUME NEW q \in Requests,
        \/ Receive(q) \/ StageMade(q) \/ ChunkWritten(q) \/ FileWritten(q) \/ ManifestWritten(q)
        \/ Published(q) \/ RenameDelayed(q) \/ CreateFails(q) \/ Abandoned(q) \/ Decays(q)
      PROVE  request'[r] = request[r]
  <2>1. CASE Decays(q)
    BY <2>1 DEF Decays
  <2>2. CASE ~Decays(q)
    <3>1. request[q].phase \in {"idle", "accepted", "writing", "publishing"}
      BY <1>4, <2>2 DEF Receive, StageMade, ChunkWritten, FileWritten, ManifestWritten, Published, RenameDelayed,
         CreateFails, Abandoned, More
    <3>2. q # r
      BY <3>1
    <3>3. PICK v : request' = [request EXCEPT ![q] = v]
      BY <1>4, <2>2 DEF Receive, StageMade, ChunkWritten, FileWritten, ManifestWritten, Published, RenameDelayed,
         CreateFails, Abandoned
    <3> QED
      BY <3>2, <3>3 DEF Shapes
  <2> QED
    BY <2>1, <2>2
<1> QED
  BY <1>1, <1>2, <1>3, <1>4 DEF Next

LEMMA ServesStays ==
  ASSUME Shapes, [Next]_vars, NEW order, Serves(order)
  PROVE  Serves(order)' /\ FilesFor(order.id)' = FilesFor(order.id)
<1>1. request'[order.id] = request[order.id]
  BY AnsweredStays DEF Serves
<1> QED
  BY <1>1 DEF Serves, FilesFor

(* An upload that was answered changes only by decay.                            *)
LEMMA UploadStays ==
  ASSUME Shapes, [Next]_vars, NEW r \in Requests, request[r].phase = "answered", ~Decays(r)
  PROVE  upload'[r] = upload[r]
<1>1. CASE LocalEdited \/ UNCHANGED vars \/ Restart
  BY <1>1 DEF LocalEdited, vars, Restart
<1>2. CASE \E t \in Tasks :
        \/ CreateTask(t) \/ MaterializeBegins(t) \/ FileChecked(t) \/ FileSearched(t) \/ FileCopied(t)
        \/ AuditStaged(t) \/ SamplePublished(t) \/ AuditReplaced(t) \/ MaterializeFails(t) \/ UndoRaises(t)
        \/ CollectionBegins(t) \/ LocalCopied(t) \/ CollectionEnds(t) \/ CollectionFails(t)
        \/ InlineWritten(t) \/ ContractPrepared(t)
  BY <1>2 DEF CreateTask, MaterializeBegins, FileChecked, FileSearched, FileCopied, AuditStaged, SamplePublished,
         AuditReplaced, MaterializeFails, UndoRaises, CollectionBegins, LocalCopied, CollectionEnds,
         CollectionFails, InlineWritten, ContractPrepared
<1>3. ASSUME NEW q \in Requests,
        \/ Receive(q) \/ StageMade(q) \/ ChunkWritten(q) \/ FileWritten(q) \/ ManifestWritten(q)
        \/ RenameDelayed(q) \/ CreateFails(q) \/ Abandoned(q)
      PROVE  upload'[r] = upload[r]
  BY <1>3 DEF Receive, StageMade, ChunkWritten, FileWritten, ManifestWritten, RenameDelayed, CreateFails, Abandoned
<1>4. ASSUME NEW q \in Requests, Published(q) \/ Decays(q) PROVE upload'[r] = upload[r]
  <2>1. q # r
    BY <1>4 DEF Published
  <2>2. PICK d : upload' = [upload EXCEPT ![q] = d]
    BY <1>4 DEF Published, Decays
  <2> QED
    BY <2>1, <2>2 DEF Shapes
<1> QED
  BY <1>1, <1>2, <1>3, <1>4 DEF Next

(* What changed between check and copy is not forgotten, and only decay adds to it. *)
LEMMA RacedGrows ==
  ASSUME [Next]_vars, NEW t \in Tasks
  PROVE  raced[t] \subseteq raced'[t]
<1>1. CASE \E r \in Requests : Decays(r)
  BY <1>1 DEF Decays
<1>2. CASE ~\E r \in Requests : Decays(r)
  <2>1. raced' = raced
    BY <1>2 DEF Next, vars, LocalEdited, Restart, CreateTask, MaterializeBegins, FileChecked, FileSearched,
       FileCopied, AuditStaged, SamplePublished, AuditReplaced, MaterializeFails, UndoRaises, CollectionBegins,
       LocalCopied, CollectionEnds, CollectionFails, InlineWritten, ContractPrepared, Receive, StageMade,
       ChunkWritten, FileWritten, ManifestWritten, Published, RenameDelayed, CreateFails, Abandoned
  <2> QED
    BY <2>1
<1> QED
  BY <1>1, <1>2

LEMMA ServedGrows ==
  ASSUME NEW k, NEW w, NEW files, NEW x, NEW y, x \subseteq y, Served(k, w, files, x)
  PROVE  Served(k, w, files, y)
<1>1. ASSUME Copying(k, w, files, x) PROVE Copying(k, w, files, y)
  <2>1. ASSUME NEW f, NEW n, Agrees(f, files, n, x) PROVE Agrees(f, files, n, y)
    BY <2>1 DEF Agrees
  <2> QED
    BY <1>1, <2>1 DEF Copying
<1>2. ASSUME NEW f, SentButFor(f, files, x) PROVE SentButFor(f, files, y)
  BY <1>2 DEF SentButFor
<1>3. Prepared(k, files, x) => Prepared(k, files, y)
  BY DEF Prepared
<1> QED
  BY <1>1, <1>2, <1>3 DEF Served

(* A step that leaves a task as it is keeps what it serves.                       *)
LEMMA OtherTask ==
  ASSUME Shapes, [Next]_vars, SampleInv, NEW t \in Tasks, task'[t] = task[t], workspace'[t] = workspace[t]
  PROVE  TaskIs(task[t], workspace[t], raced[t])'
<1>1. SUFFICES ASSUME task[t].phase \in Serving, task[t].order.kind = "upload"
               PROVE  TaskIs(task[t], workspace[t], raced[t])'
  BY DEF TaskIs
<1>2. PICK k, w, x, y : k = task[t] /\ w = workspace[t] /\ x = raced[t] /\ y = raced'[t]
  OBVIOUS
<1>3. PICK order, files : order = k.order /\ files = FilesFor(order.id)
  OBVIOUS
<1>4. TaskIs(k, w, x)
  BY <1>2 DEF SampleInv
<1>5. /\ Serves(order) /\ Served(k, w, files, x) /\ k.phase # "sample_file_missing"
      /\ k.phase = "copying" => Checked(k, files, upload[order.id].files, x)
  BY <1>1, <1>2, <1>3, <1>4 DEF TaskIs
<1>6. Serves(order)' /\ FilesFor(order.id)' = files
  BY <1>3, <1>5, ServesStays
<1>7. Served(k, w, files, y)
  <2>1. x \subseteq y
    BY <1>2, RacedGrows
  <2> QED
    BY <1>5, <2>1, ServedGrows
<1>8. ASSUME k.phase = "copying" PROVE Checked(k, files, upload'[order.id].files, y)
  <2>1. CASE Decays(order.id)
    <3>1. SUFFICES ASSUME k.step # "check", k.file \in DOMAIN files PROVE files[k.file].path \in y
      BY DEF Checked
    <3>2. InHand(t, order.id)
      BY <1>1, <1>2, <1>3, <1>8, <3>1 DEF InHand, OfKind
    <3>3. Record(t).path \in raced'[t]
      BY <2>1, <3>2 DEF Decays
    <3>4. Record(t).path = files[k.file].path
      BY <1>2, <1>5, <1>8, <3>1 DEF Served, Copying, ListedAs, Record
    <3> QED
      BY <1>2, <3>3, <3>4
  <2>2. CASE ~Decays(order.id)
    <3>1. upload'[order.id] = upload[order.id]
      BY <1>5, <2>2, UploadStays DEF Serves
    <3>2. x \subseteq y
      BY <1>2, RacedGrows
    <3> QED
      BY <1>5, <1>8, <3>1, <3>2 DEF Checked
  <2> QED
    BY <2>1, <2>2
<1>9. task'[t] = k /\ workspace'[t] = w /\ raced'[t] = y
  BY <1>2
<1> QED
  BY <1>3, <1>5, <1>6, <1>7, <1>8, <1>9 DEF TaskIs, Serves, FilesFor

(* A step of one task that keeps what the task serves.                            *)
LEMMA OwnTask ==
  ASSUME Shapes, [Next]_vars, SampleInv, NEW t \in Tasks, NEW k, NEW w, UNCHANGED <<upload, raced>>,
         task' = [task EXCEPT ![t] = k], workspace' = [workspace EXCEPT ![t] = w], TaskIs(k, w, raced[t])
  PROVE  SampleInv'
<1>1. /\ task'[t] = k /\ workspace'[t] = w
      /\ \A u \in Tasks \ {t} : task'[u] = task[u] /\ workspace'[u] = workspace[u]
  BY DEF Shapes
<1>2. \A u \in Tasks \ {t} : TaskIs(task[u], workspace[u], raced[u])'
  BY <1>1, OtherTask
<1>3. TaskIs(task[t], workspace[t], raced[t])'
  <2>1. SUFFICES ASSUME k.phase \in Serving, k.order.kind = "upload"
                 PROVE  TaskIs(task[t], workspace[t], raced[t])'
    BY <1>1 DEF TaskIs
  <2>2. PICK order, files, x : order = k.order /\ files = FilesFor(order.id) /\ x = raced[t]
    OBVIOUS
  <2>3. /\ Serves(order) /\ Served(k, w, files, x) /\ k.phase # "sample_file_missing"
        /\ k.phase = "copying" => Checked(k, files, upload[order.id].files, x)
    BY <2>1, <2>2 DEF TaskIs
  <2>4. Serves(order)' /\ FilesFor(order.id)' = files
    BY <2>2, <2>3, ServesStays
  <2>5. raced'[t] = x /\ upload'[order.id] = upload[order.id]
    BY <2>2
  <2> QED
    BY <1>1, <2>2, <2>3, <2>4, <2>5 DEF TaskIs, Serves, FilesFor
<1> QED
  BY <1>2, <1>3 DEF SampleInv

LEMMA GoesOn ==
  ASSUME MadeInv, NEW t \in Tasks, NEW phase, Goes(t, phase), task[t].phase \notin {"new", "lost"}
  PROVE  \E k : task' = [task EXCEPT ![t] = k] /\ k.phase = phase /\ k.order = task[t].order
<1>1. PICK k : k = [task[t] EXCEPT !.phase = phase]
  OBVIOUS
<1>2. task' = [task EXCEPT ![t] = k]
  BY <1>1 DEF Goes, MadeInv, Shapes
<1>3. k.phase = phase /\ k.order = task[t].order
  BY <1>1 DEF MadeInv, Shapes, IsPhased, TaskMade
<1> QED
  BY <1>2, <1>3

LEMMA CreateTaskSample ==
  ASSUME MadeInv, WholeInv, SampleInv, [Next]_vars, NEW t \in Tasks, CreateTask(t) PROVE SampleInv'
<1>1. PICK order : task' = [task EXCEPT ![t] =
                     [order |-> order, phase |-> IF Admitted(order) THEN "queued" ELSE "rejected"]]
  BY DEF CreateTask
<1>2. PICK k, w, files : /\ k = [order |-> order, phase |-> IF Admitted(order) THEN "queued" ELSE "rejected"]
                         /\ w = workspace[t] /\ files = FilesFor(order.id)
  OBVIOUS
<1>3. /\ k.order = order /\ k.phase \in {"queued", "rejected"} /\ (k.phase = "queued" => Admitted(order))
  BY <1>2
<1>4. ASSUME order.kind = "upload", Admitted(order) PROVE Serves(order)
  <2>1. /\ order.id \in Requests /\ LoadManifest(order.id) /\ upload[order.id].manifest.entry = order.entry
        /\ order.tests \subseteq Listed(upload[order.id].manifest)
    BY <1>4 DEF Admitted, ValidReference
  <2>2. /\ request[order.id].phase = "answered" /\ Received(request[order.id].form)
        /\ Listed(upload[order.id].manifest) = DOMAIN SentOf(files)
        /\ upload[order.id].manifest.entry \in DOMAIN SentOf(files)
    BY <1>2, <2>1, LoadedIsListed DEF FilesFor
  <2> QED
    BY <1>2, <2>1, <2>2 DEF Serves
<1>5. TaskIs(k, w, raced[t])
  BY <1>3, <1>4 DEF TaskIs, Serving, Served
<1>6. workspace' = [workspace EXCEPT ![t] = w] /\ UNCHANGED <<upload, raced>>
  BY <1>2 DEF CreateTask, MadeInv, Shapes
<1> QED
  BY <1>1, <1>2, <1>5, <1>6, OwnTask DEF MadeInv

LEMMA BeginsSample ==
  ASSUME MadeInv, WholeInv, SampleInv, [Next]_vars, NEW t \in Tasks, MaterializeBegins(t) PROVE SampleInv'
<1>1. PICK order, files, m : /\ order = task[t].order /\ files = FilesFor(order.id)
                             /\ m = upload[order.id].manifest
  OBVIOUS
<1>2. PICK k, w : /\ k = [phase |-> "copying", order |-> order, file |-> 1, step |-> "check", manifest |-> m]
                  /\ w = [workspace[t] EXCEPT !.stage = Directory]
  OBVIOUS
<1>3. /\ task' = [task EXCEPT ![t] = k] /\ workspace' = [workspace EXCEPT ![t] = w]
      /\ task[t].phase = "queued" /\ order.kind = "upload" /\ LoadManifest(order.id)
      /\ UNCHANGED <<upload, raced>>
  BY <1>1, <1>2 DEF MaterializeBegins, OfKind, ValidReference, MadeInv, Shapes
<1>4. Serves(order)
  <2>1. TaskIs(task[t], workspace[t], raced[t])
    BY DEF SampleInv
  <2> QED
    BY <1>1, <1>3, <2>1 DEF TaskIs, Serving
<1>5. ListedAs(m, files)
  BY <1>1, <1>3, <1>4, LoadedIsListed DEF Serves, FilesFor
<1>6. w.stage = Directory
  BY <1>2 DEF MadeInv, Shapes, IsWorkspace
<1>7. /\ w.stage = [f \in DOMAIN w.stage |-> w.stage[f]] /\ "files" \in DOMAIN w.stage /\ w.stage.files = NoFiles
  BY <1>6 DEF Directory, NoDirectory
<1>8. Agrees(w.stage.files, files, 1, raced[t])
  BY <1>7, AgreesNone
<1>9. /\ k.phase = "copying" /\ k.order = order /\ k.file = 1 /\ k.step = "check" /\ k.manifest = m
      /\ k = [f \in DOMAIN k |-> k[f]] /\ {"file", "step", "manifest"} \subseteq DOMAIN k
  BY <1>2
<1>10. 1 \in 1..(Len(files) + 1)
  <2>1. Len(files) \in 1..MaxFiles
    BY <1>1, <1>4 DEF Serves, Received, FilesFor
  <2> QED
    BY <2>1, UploadsAssumption
<1>11. Copying(k, w, files, raced[t])
  BY <1>5, <1>7, <1>8, <1>9, <1>10 DEF Copying
<1>12. TaskIs(k, w, raced[t])
  BY <1>1, <1>4, <1>9, <1>11 DEF TaskIs, Served, Checked
<1> QED
  BY <1>3, <1>12, OwnTask DEF MadeInv

(* What is known of the file a task has in hand.                                  *)
InHandIs(q, w, files, n, x) ==
  /\ q.phase = "copying" /\ q.order.kind = "upload" /\ n = q.file
  /\ Serves(q.order) /\ files = FilesFor(q.order.id) /\ Copying(q, w, files, x)
  /\ Checked(q, files, upload[q.order.id].files, x)
  /\ files \in Seq(Part) /\ Distinct(files)
  /\ n \in DOMAIN files /\ n \in Nat /\ DOMAIN files = 1..Len(files) /\ Len(files) \in Nat
  /\ q.manifest.files[n].path = files[n].path /\ q.manifest.files[n].digest = files[n].bytes
LEMMA HandIs ==
  ASSUME SampleInv, NEW t \in Tasks, NEW step, Opens(t, step), NEW q, q = task[t],
         NEW files, files = FilesFor(q.order.id)
  PROVE  InHandIs(q, workspace[t], files, q.file, raced[t])
<1>1. PICK u, x, n : u = workspace[t] /\ x = raced[t] /\ n = q.file
  OBVIOUS
<1>2. /\ q.phase = "copying" /\ q.order.kind = "upload" /\ n <= Len(q.manifest.files)
  BY <1>1 DEF Opens, OfKind
<1>3. /\ Serves(q.order) /\ Copying(q, u, files, x) /\ Checked(q, files, upload[q.order.id].files, x)
  <2>1. TaskIs(q, u, x)
    BY <1>1 DEF SampleInv
  <2> QED
    BY <1>1, <1>2, <2>1 DEF TaskIs, Serving, Served
<1>4. files \in Seq(Part) /\ Distinct(files)
  <2>1. PICK form : form = request[q.order.id].form
    OBVIOUS
  <2>2. Received(form) /\ files = form.files
    BY <1>1, <1>3, <2>1 DEF Serves, FilesFor
  <2> QED
    BY <2>2, FormFiles
<1>5. /\ n \in DOMAIN files /\ n \in Nat /\ DOMAIN files = 1..Len(files) /\ Len(files) \in Nat
      /\ q.manifest.files[n].path = files[n].path /\ q.manifest.files[n].digest = files[n].bytes
  <2>1. n \in 1..(Len(files) + 1) /\ Len(q.manifest.files) = Len(files)
    BY <1>1, <1>3 DEF Copying, ListedAs
  <2>2. DOMAIN files = 1..Len(files) /\ Len(files) \in Nat
    BY <1>4
  <2>3. n \in DOMAIN files /\ n \in Nat
    BY <1>2, <2>1, <2>2
  <2> QED
    BY <1>3, <2>2, <2>3 DEF Copying, ListedAs
<1> QED
  BY <1>1, <1>2, <1>3, <1>4, <1>5 DEF InHandIs

(* Once the file is found to be what the manifest lists, it is what was sent.      *)
LEMMA OpenedSample ==
  ASSUME MadeInv, WholeInv, SampleInv, [Next]_vars, NEW t \in Tasks, FileChecked(t) \/ FileSearched(t)
  PROVE  SampleInv'
<1>1. PICK q, u, files, n, x : /\ q = task[t] /\ u = workspace[t] /\ files = FilesFor(q.order.id)
                               /\ n = q.file /\ x = raced[t]
  OBVIOUS
<1>2. InHandIs(q, u, files, n, x)
  <2>1. Opens(t, "check") \/ Opens(t, "search")
    BY DEF FileChecked, FileSearched
  <2> QED
    BY <1>1, <2>1, HandIs
<1>3. PICK step : /\ step # "check" /\ task' = [task EXCEPT ![t].step = step] /\ UNCHANGED <<upload, raced>>
                  /\ workspace' = workspace
  BY DEF FileChecked, FileSearched
<1>4. PICK k : k = [q EXCEPT !.step = step]
  OBVIOUS
<1>5. task' = [task EXCEPT ![t] = k] /\ workspace' = [workspace EXCEPT ![t] = u]
  BY <1>1, <1>3, <1>4 DEF MadeInv, Shapes
<1>6. /\ k.phase = "copying" /\ k.order = q.order /\ k.file = n /\ k.manifest = q.manifest
      /\ k = [f \in DOMAIN k |-> k[f]] /\ {"file", "step", "manifest"} \subseteq DOMAIN k
  <2>1. q = [f \in DOMAIN q |-> q[f]] /\ {"file", "step", "manifest"} \subseteq DOMAIN q
    BY <1>2 DEF InHandIs, Copying
  <2> QED
    BY <1>1, <1>2, <1>4, <2>1 DEF InHandIs, MadeInv, Shapes, IsPhased, TaskMade
<1>7. Copying(k, u, files, x)
  BY <1>2, <1>6 DEF InHandIs, Copying
<1>8. Checked(k, files, upload[q.order.id].files, x)
  <2>1. CASE FileChecked(t)
    <3>1. upload[q.order.id].files[files[n].path] = files[n].bytes
      BY <1>1, <1>2, <2>1 DEF FileChecked, Intact, Record, Found, InHandIs
    <3> QED
      BY <1>6, <3>1 DEF Checked
  <2>2. CASE FileSearched(t)
    <3>1. q.step # "check"
      BY <1>1, <2>2 DEF FileSearched, Opens
    <3> QED
      BY <1>2, <1>6, <3>1 DEF InHandIs, Checked
  <2> QED
    BY <2>1, <2>2
<1>9. TaskIs(k, u, x)
  BY <1>2, <1>6, <1>7, <1>8 DEF TaskIs, Served, InHandIs
<1> QED
  BY <1>1, <1>3, <1>5, <1>9, OwnTask DEF MadeInv

LEMMA CopiedSample ==
  ASSUME MadeInv, WholeInv, SampleInv, [Next]_vars, NEW t \in Tasks, FileCopied(t) PROVE SampleInv'
<1>1. PICK q, u, files, n, x : /\ q = task[t] /\ u = workspace[t] /\ files = FilesFor(q.order.id)
                               /\ n = q.file /\ x = raced[t]
  OBVIOUS
<1>2. InHandIs(q, u, files, n, x)
  <2>1. Opens(t, "copy")
    BY DEF FileCopied
  <2> QED
    BY <1>1, <2>1, HandIs
<1>3. PICK bytes, g : /\ bytes = upload[q.order.id].files[files[n].path]
                      /\ g = With(u.stage.files, files[n].path, bytes)
  OBVIOUS
<1>4. files[n].path \notin x => bytes = files[n].bytes
  <2>1. q.step # "check"
    BY <1>1 DEF FileCopied, Opens
  <2> QED
    BY <1>2, <1>3, <2>1 DEF InHandIs, Checked
<1>5. PICK k, w : k = [q EXCEPT !.file = n + 1, !.step = "check"] /\ w = [u EXCEPT !.stage.files = g]
  OBVIOUS
<1>6. task' = [task EXCEPT ![t] = k] /\ workspace' = [workspace EXCEPT ![t] = w] /\ UNCHANGED <<upload, raced>>
  <2>1. /\ task' = [task EXCEPT ![t].file = @ + 1, ![t].step = "check"] /\ UNCHANGED <<upload, raced>>
        /\ workspace' = [workspace EXCEPT ![t].stage.files = With(@, Record(t).path, Found(t)[Record(t).path])]
    BY DEF FileCopied
  <2>2. Record(t).path = files[n].path /\ Found(t)[Record(t).path] = bytes
    BY <1>1, <1>2, <1>3 DEF Record, Found, InHandIs
  <2>3. workspace' = [workspace EXCEPT ![t].stage.files = With(@, files[n].path, bytes)]
    BY <2>1, <2>2
  <2> QED
    BY <1>1, <1>3, <1>5, <2>1, <2>3 DEF MadeInv, Shapes
<1>7. Agrees(g, files, n + 1, x)
  <2>1. PICK f : f = u.stage.files
    OBVIOUS
  <2>2. /\ Agrees(f, files, n, x) /\ files \in Seq(Part) /\ Distinct(files) /\ n \in DOMAIN files
        /\ g = With(f, files[n].path, bytes)
    BY <1>2, <1>3, <2>1 DEF InHandIs, Copying
  <2> QED
    BY <1>4, <2>2, AgreesMore
<1>8. /\ w.stage = [f \in DOMAIN w.stage |-> w.stage[f]] /\ "files" \in DOMAIN w.stage /\ w.stage.files = g
  <2>1. u.stage = [f \in DOMAIN u.stage |-> u.stage[f]] /\ "files" \in DOMAIN u.stage
    BY <1>2 DEF InHandIs, Copying
  <2>2. w.stage = [u.stage EXCEPT !.files = g]
    BY <1>1, <1>5 DEF MadeInv, Shapes, IsWorkspace
  <2> QED
    BY <2>1, <2>2
<1>9. /\ k.phase = "copying" /\ k.order = q.order /\ k.file = n + 1 /\ k.step = "check" /\ k.manifest = q.manifest
      /\ k = [f \in DOMAIN k |-> k[f]] /\ {"file", "step", "manifest"} \subseteq DOMAIN k
  <2>1. q = [f \in DOMAIN q |-> q[f]] /\ {"file", "step", "manifest"} \subseteq DOMAIN q
    BY <1>2 DEF InHandIs, Copying
  <2> QED
    BY <1>1, <1>2, <1>5, <2>1 DEF InHandIs, MadeInv, Shapes, IsPhased, TaskMade
<1>10. Copying(k, w, files, x)
  <2>1. n + 1 \in 1..(Len(files) + 1) /\ ListedAs(k.manifest, files)
    BY <1>2, <1>9 DEF InHandIs, Copying
  <2> QED
    BY <1>7, <1>8, <1>9, <2>1 DEF Copying
<1>11. TaskIs(k, w, x)
  <2>1. Serves(k.order) /\ files = FilesFor(k.order.id)
    BY <1>2, <1>9 DEF InHandIs
  <2>2. Checked(k, files, upload[k.order.id].files, x)
    BY <1>9 DEF Checked
  <2> QED
    BY <1>9, <1>10, <2>1, <2>2 DEF TaskIs, Served
<1> QED
  BY <1>1, <1>6, <1>11, OwnTask DEF MadeInv

LEMMA AuditSample ==
  ASSUME MadeInv, WholeInv, SampleInv, [Next]_vars, NEW t \in Tasks, AuditStaged(t) PROVE SampleInv'
<1>1. PICK q, u, order, files : /\ q = task[t] /\ u = workspace[t] /\ order = q.order
                                /\ files = FilesFor(order.id)
  OBVIOUS
<1>2. /\ q.phase = "copying" /\ order.kind = "upload" /\ q.file > Len(q.manifest.files) /\ Goes(t, "staged")
  BY <1>1 DEF AuditStaged, OfKind
<1>3. /\ Serves(order) /\ Copying(q, u, files, raced[t])
  <2>1. TaskIs(q, u, raced[t])
    BY <1>1 DEF SampleInv
  <2> QED
    BY <1>1, <1>2, <2>1 DEF TaskIs, Serving, Served
<1>4. files \in Seq(Part) /\ Distinct(files)
  <2>1. PICK form : form = request[order.id].form
    OBVIOUS
  <2>2. Received(form) /\ files = form.files
    BY <1>1, <1>3, <2>1 DEF Serves, FilesFor
  <2> QED
    BY <2>2, FormFiles
<1>5. q.file = Len(files) + 1
  <2>1. q.file \in 1..(Len(files) + 1) /\ Len(q.manifest.files) = Len(files)
    BY <1>3 DEF Copying, ListedAs
  <2> QED
    BY <1>2, <1>4, <2>1
<1>6. SentButFor(u.stage.files, files, raced[t])
  <2>1. PICK f : f = u.stage.files
    OBVIOUS
  <2>2. Agrees(f, files, Len(files) + 1, raced[t])
    BY <1>3, <1>5, <2>1 DEF Copying
  <2> QED
    BY <1>4, <2>1, <2>2, AgreesAll
<1>7. PICK w : w = [u EXCEPT !.auditStage = q.manifest]
  OBVIOUS
<1>8. workspace' = [workspace EXCEPT ![t] = w] /\ UNCHANGED <<upload, raced>>
  BY <1>1, <1>7 DEF AuditStaged, MadeInv, Shapes
<1>9. w.stage = u.stage /\ w.auditStage = q.manifest
  BY <1>1, <1>7 DEF MadeInv, Shapes, IsWorkspace
<1>10. PICK k : task' = [task EXCEPT ![t] = k] /\ k.phase = "staged" /\ k.order = order
  BY <1>1, <1>2, GoesOn
<1>11. TaskIs(k, w, raced[t])
  BY <1>1, <1>3, <1>6, <1>9, <1>10 DEF TaskIs, Served, Copying
<1> QED
  BY <1>8, <1>10, <1>11, OwnTask DEF MadeInv

LEMMA PublishedSample ==
  ASSUME MadeInv, WholeInv, SampleInv, [Next]_vars, NEW t \in Tasks, SamplePublished(t) PROVE SampleInv'
<1>1. PICK q, u, order, files : /\ q = task[t] /\ u = workspace[t] /\ order = q.order
                                /\ files = FilesFor(order.id)
  OBVIOUS
<1>2. /\ q.phase = "staged" /\ order.kind = "upload" /\ Goes(t, "materialized")
  BY <1>1 DEF SamplePublished, OfKind
<1>3. /\ Serves(order) /\ SentButFor(u.stage.files, files, raced[t]) /\ ListedAs(u.auditStage, files)
  <2>1. TaskIs(q, u, raced[t])
    BY <1>1 DEF SampleInv
  <2> QED
    BY <1>1, <1>2, <2>1 DEF TaskIs, Serving, Served
<1>4. PICK w : w = [u EXCEPT !.sample = u.stage, !.stage = NoDirectory]
  OBVIOUS
<1>5. workspace' = [workspace EXCEPT ![t] = w] /\ UNCHANGED <<upload, raced>>
  BY <1>1, <1>4 DEF SamplePublished, MadeInv, Shapes
<1>6. w.sample = u.stage /\ w.auditStage = u.auditStage
  <2>1. IsWorkspace(u)
    BY <1>1 DEF MadeInv, Shapes
  <2>2. w = [f \in {"stage", "sample", "audit", "auditStage"} |-> w[f]]
    BY <1>4, <2>1 DEF IsWorkspace
  <2> QED
    BY <1>4, <2>1 DEF IsWorkspace
<1>7. PICK k : task' = [task EXCEPT ![t] = k] /\ k.phase = "materialized" /\ k.order = order
  BY <1>1, <1>2, GoesOn
<1>8. TaskIs(k, w, raced[t])
  BY <1>1, <1>3, <1>6, <1>7 DEF TaskIs, Served
<1> QED
  BY <1>5, <1>7, <1>8, OwnTask DEF MadeInv

LEMMA ReplacedSample ==
  ASSUME MadeInv, WholeInv, SampleInv, [Next]_vars, NEW t \in Tasks, AuditReplaced(t) PROVE SampleInv'
<1>1. PICK q, u, order, files : /\ q = task[t] /\ u = workspace[t] /\ order = q.order
                                /\ files = FilesFor(order.id)
  OBVIOUS
<1>2. /\ q.phase = "materialized" /\ order.kind = "upload" /\ Goes(t, "ready")
  BY <1>1 DEF AuditReplaced, OfKind
<1>3. /\ Serves(order) /\ SentButFor(u.sample.files, files, raced[t]) /\ ListedAs(u.auditStage, files)
  <2>1. TaskIs(q, u, raced[t])
    BY <1>1 DEF SampleInv
  <2> QED
    BY <1>1, <1>2, <2>1 DEF TaskIs, Serving, Served
<1>4. PICK w : w = [u EXCEPT !.audit = u.auditStage, !.auditStage = NoManifest]
  OBVIOUS
<1>5. workspace' = [workspace EXCEPT ![t] = w] /\ UNCHANGED <<upload, raced>>
  BY <1>1, <1>4 DEF AuditReplaced, MadeInv, Shapes
<1>6. w.sample = u.sample /\ w.audit = u.auditStage
  <2>1. IsWorkspace(u)
    BY <1>1 DEF MadeInv, Shapes
  <2> QED
    BY <1>4, <2>1 DEF IsWorkspace
<1>7. PICK k : task' = [task EXCEPT ![t] = k] /\ k.phase = "ready" /\ k.order = order
  BY <1>1, <1>2, GoesOn
<1>8. TaskIs(k, w, raced[t])
  BY <1>1, <1>3, <1>6, <1>7 DEF TaskIs, Served
<1> QED
  BY <1>5, <1>7, <1>8, OwnTask DEF MadeInv

LEMMA PreparedSample ==
  ASSUME MadeInv, WholeInv, SampleInv, [Next]_vars, NEW t \in Tasks, ContractPrepared(t) PROVE SampleInv'
<1>1. PICK q, u, order, files, found :
        /\ q = task[t] /\ u = workspace[t] /\ order = q.order /\ files = FilesFor(order.id)
        /\ found = u.sample.files
  OBVIOUS
<1>2. q.phase = "ready" /\ workspace' = [workspace EXCEPT ![t] = u] /\ UNCHANGED <<upload, raced>>
  BY <1>1 DEF ContractPrepared, MadeInv, Shapes
<1>3. TaskIs(q, u, raced[t])
  BY <1>1 DEF SampleInv
<1>4. CASE {order.entry} \cup order.tests \subseteq DOMAIN found
  <2>1. PICK k : k = [phase |-> "prepared", order |-> order,
                      protected |-> [p \in DOMAIN found \ {order.entry} |-> found[p]]]
    OBVIOUS
  <2>2. task' = [task EXCEPT ![t] = k]
    BY <1>1, <1>4, <2>1 DEF ContractPrepared
  <2>3. /\ k.phase = "prepared" /\ k.order = order
        /\ k.protected = [p \in DOMAIN found \ {order.entry} |-> found[p]]
    BY <2>1
  <2>4. ASSUME order.kind = "upload"
        PROVE  Serves(order) /\ SentButFor(found, files, raced[t]) /\ ListedAs(u.audit, files)
    BY <1>1, <1>2, <1>3, <2>4 DEF TaskIs, Serving, Served
  <2>5. ASSUME order.kind = "upload" PROVE Prepared(k, files, raced[t])
    BY <2>3, <2>4, <2>5 DEF Prepared, SentButFor
  <2>6. TaskIs(k, u, raced[t])
    BY <1>1, <2>3, <2>4, <2>5 DEF TaskIs, Served
  <2> QED
    BY <1>2, <2>2, <2>6, OwnTask DEF MadeInv
<1>5. CASE ~({order.entry} \cup order.tests \subseteq DOMAIN found)
  <2>1. Goes(t, "sample_file_missing")
    BY <1>1, <1>5 DEF ContractPrepared
  <2>2. PICK k : task' = [task EXCEPT ![t] = k] /\ k.phase = "sample_file_missing" /\ k.order = order
    BY <1>1, <1>2, <2>1, GoesOn
  <2>3. order.kind # "upload"
    <3>1. ASSUME order.kind = "upload"
          PROVE  Serves(order) /\ SentButFor(found, files, raced[t])
      BY <1>1, <1>2, <1>3, <3>1 DEF TaskIs, Serving, Served
    <3> QED
      BY <1>1, <1>5, <3>1 DEF Serves, SentButFor
  <2>4. TaskIs(k, u, raced[t])
    BY <2>2, <2>3 DEF TaskIs
  <2> QED
    BY <1>2, <2>2, <2>4, OwnTask DEF MadeInv
<1> QED
  BY <1>4, <1>5

(* The steps of the other kinds, and the failures, serve no upload.                *)
LEMMA OtherSample ==
  ASSUME MadeInv, SampleInv, [Next]_vars, NEW t \in Tasks,
         \/ MaterializeFails(t) \/ UndoRaises(t) \/ CollectionBegins(t) \/ LocalCopied(t) \/ CollectionEnds(t)
         \/ CollectionFails(t) \/ InlineWritten(t)
  PROVE  SampleInv'
<1>1. PICK w : w = workspace'[t]
  OBVIOUS
<1>2. workspace' = [workspace EXCEPT ![t] = w] /\ UNCHANGED <<upload, raced>>
  <2>1. PICK v : /\ workspace' = [workspace EXCEPT ![t] = v] \/ workspace' = workspace
                 /\ UNCHANGED <<upload, raced>>
    BY DEF MaterializeFails, UndoRaises, CollectionBegins, LocalCopied, CollectionEnds, CollectionFails, InlineWritten,
           MadeInv, Shapes
  <2> QED
    BY <1>1, <2>1 DEF MadeInv, Shapes
<1>3. SUFFICES \E k : /\ task' = [task EXCEPT ![t] = k]
                      /\ k.phase \notin Serving \/ k.order.kind # "upload"
  <2>1. PICK k : task' = [task EXCEPT ![t] = k] /\ (k.phase \notin Serving \/ k.order.kind # "upload")
    BY <1>3
  <2>2. TaskIs(k, w, raced[t])
    BY <2>1 DEF TaskIs
  <2> QED
    BY <1>2, <2>1, <2>2, OwnTask DEF MadeInv
<1>4. PICK q : q = task[t]
  OBVIOUS
<1>5. ASSUME NEW phase, Goes(t, phase), q.phase \notin {"new", "lost"}, phase \notin Serving \/ q.order.kind # "upload"
      PROVE  \E k : task' = [task EXCEPT ![t] = k] /\ (k.phase \notin Serving \/ k.order.kind # "upload")
  <2>1. PICK k : task' = [task EXCEPT ![t] = k] /\ k.phase = phase /\ k.order = q.order
    BY <1>4, <1>5, GoesOn
  <2> QED
    BY <1>5, <2>1
<1>6. CASE MaterializeFails(t)
  BY <1>4, <1>5, <1>6 DEF MaterializeFails, Serving
<1>12. CASE UndoRaises(t)
  <2>1. PICK k : k = [phase |-> "lost"]
    OBVIOUS
  <2>2. task' = [task EXCEPT ![t] = k] /\ k.phase \notin Serving
    BY <1>12, <2>1 DEF UndoRaises, Serving
  <2> QED
    BY <2>2
<1>7. CASE CollectionBegins(t)
  <2>1. PICK k : /\ task' = [task EXCEPT ![t] = k]
                 /\ k = [phase |-> "copying", order |-> q.order, left |-> DOMAIN local]
    BY <1>4, <1>7 DEF CollectionBegins, MadeInv, Shapes
  <2>2. k.order = q.order
    BY <2>1
  <2>3. q.order.kind # "upload"
    BY <1>4, <1>7 DEF CollectionBegins, OfKind
  <2> QED
    BY <2>1, <2>2, <2>3
<1>8. CASE LocalCopied(t)
  <2>1. PICK p : task' = [task EXCEPT ![t].left = @ \ {p}]
    BY <1>8 DEF LocalCopied
  <2>2. PICK k : k = [q EXCEPT !.left = @ \ {p}]
    OBVIOUS
  <2>3. task' = [task EXCEPT ![t] = k]
    BY <1>4, <2>1, <2>2 DEF MadeInv, Shapes
  <2>4. q.phase = "copying" /\ q.order.kind # "upload"
    BY <1>4, <1>8 DEF LocalCopied, OfKind
  <2>5. k.order = q.order
    BY <1>4, <2>2, <2>4 DEF MadeInv, Shapes, IsPhased, TaskMade
  <2> QED
    BY <2>3, <2>4, <2>5
<1>9. CASE CollectionEnds(t)
  BY <1>4, <1>5, <1>9 DEF CollectionEnds, OfKind
<1>10. CASE CollectionFails(t)
  BY <1>4, <1>5, <1>10 DEF CollectionFails
<1>11. CASE InlineWritten(t)
  BY <1>4, <1>5, <1>11 DEF InlineWritten, OfKind
<1> QED
  BY <1>6, <1>7, <1>8, <1>9, <1>10, <1>11, <1>12

LEMMA SampleStep == MadeInv /\ WholeInv /\ SampleInv /\ [Next]_vars => SampleInv'
<1> SUFFICES ASSUME MadeInv, WholeInv, SampleInv, [Next]_vars PROVE SampleInv'
  OBVIOUS
<1>1. CASE UNCHANGED <<task, workspace>>
  <2>1. \A t \in Tasks : TaskIs(task[t], workspace[t], raced[t])'
    BY <1>1, OtherTask DEF MadeInv
  <2> QED
    BY <2>1 DEF SampleInv
<1>2. CASE LocalEdited \/ UNCHANGED vars
  BY <1>1, <1>2 DEF LocalEdited, vars
<1>3. CASE Restart
  <2>1. ASSUME NEW t \in Tasks PROVE task'[t].phase \notin Serving
    BY <1>3 DEF Restart, Serving
  <2> QED
    BY <2>1 DEF SampleInv, TaskIs
<1>4. CASE \E r \in Requests :
        \/ Receive(r) \/ StageMade(r) \/ ChunkWritten(r) \/ FileWritten(r) \/ ManifestWritten(r)
        \/ Published(r) \/ RenameDelayed(r) \/ CreateFails(r) \/ Abandoned(r) \/ Decays(r)
  BY <1>1, <1>4 DEF Receive, StageMade, ChunkWritten, FileWritten, ManifestWritten, Published, RenameDelayed,
     CreateFails, Abandoned, Decays
<1>5. CASE \E t \in Tasks :
        \/ CreateTask(t) \/ MaterializeBegins(t) \/ FileChecked(t) \/ FileSearched(t) \/ FileCopied(t)
        \/ AuditStaged(t) \/ SamplePublished(t) \/ AuditReplaced(t) \/ MaterializeFails(t) \/ UndoRaises(t)
        \/ CollectionBegins(t) \/ LocalCopied(t) \/ CollectionEnds(t) \/ CollectionFails(t)
        \/ InlineWritten(t) \/ ContractPrepared(t)
  BY <1>5, CreateTaskSample, BeginsSample, OpenedSample, CopiedSample, AuditSample, PublishedSample, ReplacedSample,
     PreparedSample, OtherSample
<1> QED
  BY <1>2, <1>3, <1>4, <1>5 DEF Next

(* Whatever becomes of an upload after a task was admitted over it, the task has   *)
(* no sample, or each file as it was sent, but for one that changed between its    *)
(* own check and its copy.                                                         *)
THEOREM SampleIsUpload == Spec => []SampleIsTheUpload
<1>1. Init => MadeInv /\ WholeInv /\ SampleInv
  BY MadeInit, WholeInit, SampleInit
<1>2. MadeInv /\ WholeInv /\ SampleInv /\ [Next]_vars => MadeInv' /\ WholeInv' /\ SampleInv'
  BY MadeStep, WholeStep, SampleStep DEF MadeInv
<1> QED
  BY <1>1, <1>2, SampleImplies, PTL DEF Spec
================================================================================
