----------------------------- MODULE SampleUploads -----------------------------
(* How a sample gets into a task: a multipart request that becomes a published   *)
(* upload, a task that is admitted over an upload, a local directory or an       *)
(* inline text, and the worker that copies the sample into the task's workspace. *)
(* Uploads and tasks run concurrently, any file operation may fail, published    *)
(* files may decay, local ones may be edited, and the server may be restarted.   *)
(*                                                                               *)
(* A file is a sequence of bytes and a digest is the bytes themselves; a path is *)
(* the sequence of its components.                                               *)
EXTENDS Integers, Sequences, FiniteSets

CONSTANTS Requests, Tasks,  \* upload requests, which name their upload, and tasks
          Forms, Bytes,     \* what a client may send, and the bytes it is made of
          Orders,           \* the samples a task may name
          LocalTrees,       \* contents of the local directory
          Decay(_),         \* what may become of a published upload
          Fold,             \* components by their case-folded name
          Unsafe,           \* components no rule of sample_security lets pass
          Marker,           \* the bytes a private key begins with
          ChunkBytes, MaxFiles, MaxFileBytes, MaxTotalBytes, MaxRequestBytes,
          Attempts          \* renames that are tried against a watched directory

ASSUME UploadsAssumption ==
  /\ Marker \in Seq(Bytes) /\ Marker # <<>> /\ ChunkBytes \in Nat \ {0} /\ Attempts \in Nat \ {0}
  /\ {MaxFiles, MaxFileBytes, MaxTotalBytes, MaxRequestBytes} \subseteq Nat
  /\ \A form \in Forms : form.files \in Seq([path : Seq(DOMAIN Fold), bytes : Seq(Bytes)])

VARIABLES request,    \* what create() has done for each request
          stage,      \* .staging-<id> below the upload root
          upload,     \* <id> below the upload root
          task,       \* what the intake has done for each task
          workspace,  \* each task's sample, staging directory and audit files
          local,      \* the local sample directory
          decayed,    \* uploads whose files are not what was published
          raced,      \* of each task's files, those that changed after their check
          restarted

vars == <<request, stage, upload, task, workspace, local, decayed, raced, restarted>>

NoFiles == [p \in {} |-> <<>>]
NoManifest == [id |-> "none"]
NoDirectory == [exists |-> FALSE, files |-> NoFiles, manifest |-> NoManifest]
Directory == [NoDirectory EXCEPT !.exists = TRUE]
With(files, path, bytes) == [p \in DOMAIN files \cup {path} |-> IF p = path THEN bytes ELSE files[p]]

(* -- sample_security.py --------------------------------------------------------- *)
Normal(path) == path # <<>> /\ \A i \in DOMAIN path : path[i] \notin Unsafe
Key(path) == [i \in DOMAIN path |-> Fold[path[i]]]
IsBelow(key, other) == Len(other) < Len(key) /\ SubSeq(key, 1, Len(other)) = other
\* Safe, and neither the same file nor a file and its directory once names are folded.
ValidPaths(paths) ==
  /\ \A i \in DOMAIN paths : Normal(paths[i])
  /\ \A i, j \in DOMAIN paths :
       /\ i # j => Key(paths[i]) # Key(paths[j])
       /\ ~IsBelow(Key(paths[i]), Key(paths[j]))

HasMarker(bytes) ==
  \E i \in 0..Len(bytes) - Len(Marker) : SubSeq(bytes, i + 1, i + Len(Marker)) = Marker
LastBytes(bytes, n) == IF Len(bytes) <= n THEN bytes ELSE SubSeq(bytes, Len(bytes) - n + 1, Len(bytes))
\* What is looked at again together with the next chunk.
(* Mutant: each chunk is searched by itself.                                       *)
NothingCarried(scanned) == <<>>
Carried(scanned) == LastBytes(scanned, Len(Marker))

(* -- the multipart parser ---------------------------------------------------------- *)
\* A form is the length of the request, its files, its entry_file values and its other fields.
SumOf(sizes) ==
  LET upTo[i \in 0..Len(sizes)] == IF i = 0 THEN 0 ELSE upTo[i - 1] + sizes[i]
  IN upTo[Len(sizes)]
TotalBytes(files) == SumOf([i \in DOMAIN files |-> Len(files[i].bytes)])
ParseFails(form) ==
  \/ form.length > MaxRequestBytes \/ TotalBytes(form.files) > MaxTotalBytes
  \/ \E i \in DOMAIN form.files : Len(form.files[i].bytes) > MaxFileBytes
  \/ Len(form.files) \notin 1..MaxFiles \/ Len(form.entries) # 1 \/ form.others # {}
Entry(form) == form.entries[1]
Paths(files) == [i \in DOMAIN files |-> files[i].path]

(* -- SampleUploadStore.create ------------------------------------------------------ *)
Idle == [phase |-> "idle"]
Receive(r) ==
  /\ request[r].phase = "idle" /\ ~restarted
  /\ \E form \in Forms :
       request' = [request EXCEPT ![r] =
         [form |-> form,
          phase |-> IF ParseFails(form) \/ ~Normal(Entry(form)) \/ ~ValidPaths(Paths(form.files))
                    THEN "refused" ELSE "accepted"]]
  /\ UNCHANGED <<stage, upload, task, workspace, local, decayed, raced, restarted>>

At(r, file) ==
  [phase |-> "writing", form |-> request[r].form, file |-> file, read |-> 0, window |-> <<>>, total |-> 0]
StageMade(r) ==
  /\ request[r].phase = "accepted"
  /\ request' = [request EXCEPT ![r] = At(r, 1)]
  /\ stage' = [stage EXCEPT ![r] = Directory]
  /\ UNCHANGED <<upload, task, workspace, local, decayed, raced, restarted>>

Current(r) == request[r].form.files[request[r].file]
More(r) == request[r].phase = "writing" /\ request[r].file <= Len(request[r].form.files)
Chunk(r) ==
  LET left == SubSeq(Current(r).bytes, request[r].read + 1, Len(Current(r).bytes))
  IN SubSeq(left, 1, IF Len(left) < ChunkBytes THEN Len(left) ELSE ChunkBytes)
Refuses(r, chunk) ==
  \/ request[r].read + Len(chunk) > MaxFileBytes \/ request[r].total + Len(chunk) > MaxTotalBytes
  \/ HasMarker(request[r].window \o chunk)
\* One read of the uploaded file, behind which other requests and tasks may run.
ChunkWritten(r) ==
  /\ More(r) /\ request[r].read < Len(Current(r).bytes)
  /\ LET chunk == Chunk(r)
         path == Current(r).path
         old == IF request[r].read = 0 THEN <<>> ELSE stage[r].files[path]
     IN /\ ~Refuses(r, chunk)
        /\ stage' = [stage EXCEPT ![r].files = With(@, path, old \o chunk)]
        /\ request' = [request EXCEPT ![r].read = @ + Len(chunk), ![r].total = @ + Len(chunk),
                                      ![r].window = Carried(@ \o chunk)]
  /\ UNCHANGED <<upload, task, workspace, local, decayed, raced, restarted>>
FileWritten(r) ==
  /\ More(r) /\ request[r].read = Len(Current(r).bytes)
  /\ stage' = [stage EXCEPT ![r].files =
                 IF request[r].read = 0 THEN With(@, Current(r).path, <<>>) ELSE @]
  /\ request' = [request EXCEPT ![r] = [At(r, @.file + 1) EXCEPT !.total = request[r].total]]
  /\ UNCHANGED <<upload, task, workspace, local, decayed, raced, restarted>>

Records(r) ==
  LET files == request[r].form.files
  IN [i \in DOMAIN files |-> [path |-> files[i].path, size |-> Len(stage[r].files[files[i].path]),
                              digest |-> stage[r].files[files[i].path]]]
EntryUploaded(r) ==
  \E i \in DOMAIN request[r].form.files : request[r].form.files[i].path = Entry(request[r].form)
ManifestWritten(r) ==
  /\ request[r].phase = "writing" /\ ~More(r) /\ EntryUploaded(r)
  /\ stage' = [stage EXCEPT ![r].manifest =
                 [id |-> r, entry |-> Entry(request[r].form), files |-> Records(r)]]
  /\ request' = [request EXCEPT ![r] = [phase |-> "publishing", form |-> @.form, attempt |-> 1]]
  /\ UNCHANGED <<upload, task, workspace, local, decayed, raced, restarted>>
Published(r) ==
  /\ request[r].phase = "publishing"
  /\ upload' = [upload EXCEPT ![r] = stage[r]] /\ stage' = [stage EXCEPT ![r] = NoDirectory]
  /\ request' = [request EXCEPT ![r].phase = "answered"]
  /\ UNCHANGED <<task, workspace, local, decayed, raced, restarted>>
RenameDelayed(r) ==
  /\ request[r].phase = "publishing" /\ request[r].attempt < Attempts
  /\ request' = [request EXCEPT ![r].attempt = @ + 1]
  /\ UNCHANGED <<stage, upload, task, workspace, local, decayed, raced, restarted>>
\* A limit, a marker, an entry that is missing, or any operation that fails.
CreateFails(r) ==
  /\ request[r].phase \in {"accepted", "writing", "publishing"}
  /\ stage' = [stage EXCEPT ![r] = NoDirectory]
  /\ request' = [request EXCEPT ![r] = [phase |-> "failed"]]
  /\ UNCHANGED <<upload, task, workspace, local, decayed, raced, restarted>>

\* A cancelled read is no Exception, and the removal may fail: the directory stays.
Abandoned(r) ==
  /\ request[r].phase \in {"writing", "publishing"}
  /\ request' = [request EXCEPT ![r] = [phase |-> "lost", form |-> @.form]]
  /\ UNCHANGED <<stage, upload, task, workspace, local, decayed, raced, restarted>>

(* -- load_manifest and validate_reference ------------------------------------------- *)
IsList(files) == files = [i \in 1..Len(files) |-> files[i]]
LoadManifest(r) ==
  LET m == upload[r].manifest
  IN /\ upload[r].exists /\ m.id = r
     /\ IsList(m.files) /\ Len(m.files) \in 1..MaxFiles /\ ValidPaths(Paths(m.files))
     /\ \A i \in DOMAIN m.files : m.files[i].size \in 0..MaxFileBytes
     /\ ~(SumOf([i \in DOMAIN m.files |-> m.files[i].size]) > MaxTotalBytes)
     /\ m.entry \in {m.files[i].path : i \in DOMAIN m.files}
ValidReference(r, entry) == LoadManifest(r) /\ upload[r].manifest.entry = entry
Listed(m) == {m.files[i].path : i \in DOMAIN m.files}
Digests(m) == [i \in DOMAIN m.files |-> <<m.files[i].path, m.files[i].digest>>]

(* -- create_task ---------------------------------------------------------------------- *)
Admitted(order) ==
  CASE order.kind = "upload" ->
         /\ order.id \in Requests /\ ValidReference(order.id, order.entry)
         /\ order.tests \subseteq Listed(upload[order.id].manifest)
    [] order.kind = "path" -> order.tests # {} => {order.entry} \cup order.tests \subseteq DOMAIN local
    [] order.kind = "inline" -> order.tests = {}
CreateTask(t) ==
  /\ task[t].phase = "new"
  /\ \E order \in Orders :
       task' = [task EXCEPT ![t] =
                  [order |-> order, phase |-> IF Admitted(order) THEN "queued" ELSE "rejected"]]
  /\ UNCHANGED <<request, stage, upload, workspace, local, decayed, raced, restarted>>

(* -- SampleUploadStore.materialize ------------------------------------------------------- *)
Goes(t, phase) == task' = [task EXCEPT ![t].phase = phase]
OfKind(t, kind, phase) == task[t].phase = phase /\ task[t].order.kind = kind

\* The manifest is read again: the upload may have decayed in the queue.
MaterializeBegins(t) ==
  /\ OfKind(t, "upload", "queued")
  /\ ValidReference(task[t].order.id, task[t].order.entry)
  /\ workspace' = [workspace EXCEPT ![t].stage = Directory]
  /\ task' = [task EXCEPT ![t] =
       [phase |-> "copying", order |-> @.order, file |-> 1, step |-> "check",
        manifest |-> upload[@.order.id].manifest]]
  /\ UNCHANGED <<request, stage, upload, local, decayed, raced, restarted>>

(* Mutant: a file of the right size is taken for the right file.                      *)
SameSize(record, bytes) == Len(bytes) = record.size
Intact(record, bytes) == Len(bytes) = record.size /\ bytes = record.digest
Record(t) == task[t].manifest.files[task[t].file]
Found(t) == upload[task[t].order.id].files
\* The file is opened three times, and is each time what it is by then.
Opens(t, step) ==
  /\ OfKind(t, "upload", "copying") /\ task[t].file <= Len(task[t].manifest.files)
  /\ task[t].step = step /\ Record(t).path \in DOMAIN Found(t)
FileChecked(t) ==
  /\ Opens(t, "check") /\ Intact(Record(t), Found(t)[Record(t).path])
  /\ task' = [task EXCEPT ![t].step = "search"]
  /\ UNCHANGED <<request, stage, upload, workspace, local, decayed, raced, restarted>>
FileSearched(t) ==
  /\ Opens(t, "search") /\ ~HasMarker(Found(t)[Record(t).path])
  /\ task' = [task EXCEPT ![t].step = "copy"]
  /\ UNCHANGED <<request, stage, upload, workspace, local, decayed, raced, restarted>>
FileCopied(t) ==
  /\ Opens(t, "copy")
  /\ workspace' = [workspace EXCEPT ![t].stage.files = With(@, Record(t).path, Found(t)[Record(t).path])]
  /\ task' = [task EXCEPT ![t].file = @ + 1, ![t].step = "check"]
  /\ UNCHANGED <<request, stage, upload, local, decayed, raced, restarted>>
AuditStaged(t) ==
  /\ OfKind(t, "upload", "copying") /\ task[t].file > Len(task[t].manifest.files)
  /\ ~workspace[t].sample.exists
  /\ workspace' = [workspace EXCEPT ![t].auditStage = task[t].manifest]
  /\ Goes(t, "staged")
  /\ UNCHANGED <<request, stage, upload, local, decayed, raced, restarted>>
SamplePublished(t) ==
  /\ OfKind(t, "upload", "staged")
  /\ workspace' = [workspace EXCEPT ![t].sample = workspace[t].stage, ![t].stage = NoDirectory]
  /\ Goes(t, "materialized")
  /\ UNCHANGED <<request, stage, upload, local, decayed, raced, restarted>>
AuditReplaced(t) ==
  /\ OfKind(t, "upload", "materialized")
  /\ workspace' = [workspace EXCEPT ![t].audit = workspace[t].auditStage, ![t].auditStage = NoManifest]
  /\ Goes(t, "ready")
  /\ UNCHANGED <<request, stage, upload, local, decayed, raced, restarted>>

\* What the handler takes back, by how far the task got.
(* Mutant: the sample that was already renamed is left.                             *)
UndoneButSample(t) == [workspace[t] EXCEPT !.stage = NoDirectory, !.auditStage = NoManifest]
Undone(t) ==
  [workspace[t] EXCEPT !.stage = NoDirectory, !.auditStage = NoManifest,
     !.sample = IF task[t].phase = "materialized" THEN NoDirectory ELSE @]
MaterializeFails(t) ==
  /\ task[t].phase \in {"queued", "copying", "staged", "materialized"}
  /\ task[t].order.kind = "upload"
  /\ workspace' = [workspace EXCEPT ![t] = Undone(t)]
  /\ Goes(t, "failed")
  /\ UNCHANGED <<request, stage, upload, local, decayed, raced, restarted>>

\* The removal of what was made may itself fail, and the rest is not reached.
UndoRaises(t) ==
  /\ task[t].phase \in {"copying", "staged", "materialized"} /\ task[t].order.kind = "upload"
  /\ task' = [task EXCEPT ![t] = [phase |-> "lost"]]
  /\ UNCHANGED <<request, stage, upload, workspace, local, decayed, raced, restarted>>

(* -- local directories and inline texts ------------------------------------------------ *)
CollectSafeFiles(files) ==
  /\ \A p, q \in DOMAIN files : Normal(p) /\ (p # q => Key(p) # Key(q)) /\ ~HasMarker(files[p])
CollectionBegins(t) ==
  /\ OfKind(t, "path", "queued") /\ CollectSafeFiles(local)
  /\ task' = [task EXCEPT ![t] = [phase |-> "copying", order |-> @.order, left |-> DOMAIN local]]
  /\ workspace' = [workspace EXCEPT ![t].sample = Directory]
  /\ UNCHANGED <<request, stage, upload, local, decayed, raced, restarted>>
\* The file is copied as it is now, or is gone.
LocalCopied(t) ==
  /\ OfKind(t, "path", "copying")
  /\ \E p \in task[t].left :
       /\ p \in DOMAIN local
       /\ workspace' = [workspace EXCEPT ![t].sample.files = With(@, p, local[p])]
       /\ task' = [task EXCEPT ![t].left = @ \ {p}]
  /\ UNCHANGED <<request, stage, upload, local, decayed, raced, restarted>>
CollectionEnds(t) ==
  /\ OfKind(t, "path", "copying") /\ task[t].left = {}
  /\ Goes(t, IF task[t].order.entry \in DOMAIN workspace[t].sample.files THEN "ready" ELSE "failed")
  /\ UNCHANGED <<request, stage, upload, workspace, local, decayed, raced, restarted>>
CollectionFails(t) ==
  /\ task[t].phase \in {"queued", "copying"} /\ task[t].order.kind = "path"
  /\ Goes(t, "failed")
  /\ UNCHANGED <<request, stage, upload, workspace, local, decayed, raced, restarted>>
InlineWritten(t) ==
  /\ OfKind(t, "inline", "queued")
  /\ IF Normal(task[t].order.entry) /\ ~HasMarker(task[t].order.bytes)
     THEN /\ workspace' = [workspace EXCEPT ![t].sample =
                [Directory EXCEPT !.files = With(@, task[t].order.entry, task[t].order.bytes)]]
          /\ Goes(t, "ready")
     ELSE Goes(t, "failed") /\ UNCHANGED workspace
  /\ UNCHANGED <<request, stage, upload, local, decayed, raced, restarted>>

(* -- file_task.py: the contract over the sample ------------------------------------------ *)
ContractPrepared(t) ==
  /\ task[t].phase = "ready" /\ task[t].order.tests # {}
  /\ LET files == workspace[t].sample.files
         order == task[t].order
     IN IF {order.entry} \cup order.tests \subseteq DOMAIN files
        THEN task' = [task EXCEPT ![t] = [phase |-> "prepared", order |-> order,
               protected |-> [p \in DOMAIN files \ {order.entry} |-> files[p]]]]
        ELSE Goes(t, "sample_file_missing")
  /\ UNCHANGED <<request, stage, upload, workspace, local, decayed, raced, restarted>>

(* -- what happens to the files ------------------------------------------------------------ *)
InHand(t, r) == OfKind(t, "upload", "copying") /\ task[t].order.id = r /\ task[t].step # "check"
\* No decay makes up other digests: a manifest that still loads lists what it listed.
Decays(r) ==
  /\ upload[r].exists /\ r \notin decayed
  /\ \E dir \in Decay(upload[r]) : upload' = [upload EXCEPT ![r] = dir]
  /\ LoadManifest(r)' => Digests(upload'[r].manifest) = Digests(upload[r].manifest)
  /\ decayed' = decayed \cup {r}
  /\ raced' = [t \in Tasks |-> IF InHand(t, r) THEN raced[t] \cup {Record(t).path} ELSE raced[t]]
  /\ UNCHANGED <<request, stage, task, workspace, local, restarted>>
LocalEdited ==
  /\ \E tree \in LocalTrees \ {local} : local' = tree
  /\ UNCHANGED <<request, stage, upload, task, workspace, decayed, raced, restarted>>
\* Requests and tasks are gone; directories stay as they are.
Restart ==
  /\ ~restarted /\ restarted' = TRUE
  /\ request' = [r \in Requests |->
       IF request[r].phase \in {"answered", "failed", "refused"} THEN request[r]
       ELSE IF request[r].phase = "idle" THEN [phase |-> "lost"]
       ELSE [phase |-> "lost", form |-> request[r].form]]
  /\ task' = [t \in Tasks |-> IF task[t].phase = "new" THEN task[t] ELSE [phase |-> "lost"]]
  /\ UNCHANGED <<stage, upload, workspace, local, decayed, raced>>

Init ==
  /\ request = [r \in Requests |-> Idle]
  /\ stage = [r \in Requests |-> NoDirectory] /\ upload = [r \in Requests |-> NoDirectory]
  /\ task = [t \in Tasks |-> [phase |-> "new"]]
  /\ workspace = [t \in Tasks |-> [stage |-> NoDirectory, sample |-> NoDirectory,
                                   audit |-> NoManifest, auditStage |-> NoManifest]]
  /\ local \in LocalTrees /\ decayed = {} /\ raced = [t \in Tasks |-> {}] /\ restarted = FALSE
Next ==
  \/ \E r \in Requests :
       \/ Receive(r) \/ StageMade(r) \/ ChunkWritten(r) \/ FileWritten(r) \/ ManifestWritten(r)
       \/ Published(r) \/ RenameDelayed(r) \/ CreateFails(r) \/ Abandoned(r) \/ Decays(r)
  \/ \E t \in Tasks :
       \/ CreateTask(t) \/ MaterializeBegins(t) \/ FileChecked(t) \/ FileSearched(t) \/ FileCopied(t)
       \/ AuditStaged(t) \/ SamplePublished(t) \/ AuditReplaced(t) \/ MaterializeFails(t) \/ UndoRaises(t)
       \/ CollectionBegins(t) \/ LocalCopied(t) \/ CollectionEnds(t) \/ CollectionFails(t)
       \/ InlineWritten(t) \/ ContractPrepared(t)
  \/ LocalEdited \/ Restart
Spec == Init /\ [][Next]_vars

(* -- properties ---------------------------------------------------------------------------- *)
Sent(r) ==
  LET files == request[r].form.files
  IN [p \in {files[i].path : i \in DOMAIN files} |->
        files[CHOOSE i \in DOMAIN files : files[i].path = p].bytes]

(* An upload that exists is whole whenever the server stops, and usable: its files    *)
(* are the ones that were sent, none of them holds a key, not even across two reads,  *)
(* and load_manifest accepts the manifest that create wrote.                          *)
UploadsAreWhole ==
  \A r \in Requests : upload[r].exists /\ r \notin decayed =>
    /\ upload[r].files = Sent(r) /\ Listed(upload[r].manifest) = DOMAIN Sent(r)
    /\ \A p \in DOMAIN Sent(r) : ~HasMarker(Sent(r)[p])
    /\ LoadManifest(r)

(* A request that is answered with an error leaves no staging directory and no        *)
(* upload, and a task whose upload could not be materialized leaves no sample, no     *)
(* staging directory and no audit file, at whichever operation it failed, unless the  *)
(* removal itself fails or a read is cancelled (Abandoned, UndoRaises).               *)
FailureLeavesNothing ==
  /\ \A r \in Requests : request[r].phase \in {"refused", "failed"} =>
       stage[r] = NoDirectory /\ upload[r] = NoDirectory
  /\ \A t \in Tasks : task[t].phase = "failed" /\ task[t].order.kind = "upload" =>
       workspace[t] = [stage |-> NoDirectory, sample |-> NoDirectory,
                       audit |-> NoManifest, auditStage |-> NoManifest]

(* A task over an upload has each of its files as it was sent, whatever became of the *)
(* upload since admission, but for a file that changed after it had been checked and  *)
(* before it was copied (sample_uploads.py:384-391).  No file is missing, the audit   *)
(* lists them all, and admission's test files are there, under the contract.          *)
SampleIsTheUpload ==
  \A t \in Tasks :
    task[t].phase \in {"ready", "prepared", "sample_file_missing"} /\ task[t].order.kind = "upload" =>
      LET sent == Sent(task[t].order.id)
          Agrees(files, paths) == DOMAIN files = paths /\ \A p \in paths \ raced[t] : files[p] = sent[p]
      IN /\ Agrees(workspace[t].sample.files, DOMAIN sent)
         /\ Listed(workspace[t].audit) = DOMAIN sent
         /\ task[t].phase # "sample_file_missing"
         /\ task[t].phase = "prepared" => Agrees(task[t].protected, DOMAIN sent \ {task[t].order.entry})
===============================================================================
