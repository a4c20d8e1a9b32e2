----------------------------- MODULE Ingestion -----------------------------
(***************************************************************************)
(* Uploaded files and the documents made of them: the upload request, the  *)
(* job that ingests the file, versions of a document, re-indexing,         *)
(* deletion, and the sweeps that clean up behind them.                     *)
(* (api/routers/documents.py, worker/jobs.py, pipelines/ingestion.py,      *)
(* services/reindex.py.)                                                   *)
(*                                                                         *)
(* A request or a job has one database transaction, committed at its end;  *)
(* what it wrote is invisible until then, and a row it updated stays       *)
(* locked.  The chunks of a document belong to that transaction with       *)
(* pgvector and to nobody's with Chroma.  So a job is: Lookup... (two      *)
(* reads), Supersede (lock the previous version, number the new one),      *)
(* Index (load, embed, store the chunks), Commit; then the scratch file is *)
(* deleted and the queue told.  The queue (arq) runs a job again when its  *)
(* worker died or was shut down, and not when the job raised.              *)
(*                                                                         *)
(* Left out: a second re-index of a document while one is running, which   *)
(* the code admits.  The two share a scratch file, and their chunks have   *)
(* the same ids (uuid5 of the document and the index): with pgvector the   *)
(* second waits for the first's row locks and fails if that one committed. *)
(***************************************************************************)
EXTENDS Naturals, FiniteSets

CONSTANTS
  Uploads,       \* requests to upload; each has an UploadJob row and a queued job
  Names,         \* file names in one knowledge base
  Contents,      \* what a file may contain (its checksum)
  MaxDocuments,  \* bound on the Document rows ever inserted
  MaxTries,      \* max_tries of the worker (queue.max_retries)
  Backend,       \* the vector store, "pgvector" or "chroma"
  Nothing,       \* no content, no name
  Env            \* which events may happen: a subset of Events

\* fail: loading, embedding or storing raises; crash: a worker dies; shutdown: a
\* job is cancelled, by a restart or by its timeout; local: no queue, the API
\* process ingests; abort: an upload request fails after it has queued its job
\* stale: jobs and scratch files grow older than an hour; orphans: Chroma's sweep
\* reindex: one is requested; weekly: the scheduled one
\* twins: two first uploads of a name have overlapped before, and both documents are current
Events == {"fail", "crash", "shutdown", "local", "abort", "stale", "orphans", "reindex",
           "weekly", "delete", "twins"}

ASSUME IngestionAssumption ==
  /\ MaxDocuments \in Nat \ {0} /\ MaxTries \in Nat \ {0}
  /\ Backend \in {"pgvector", "chroma"}
  /\ Nothing \notin Contents \union Names
  /\ Env \subseteq Events

VARIABLES
  request,   \* each upload request
  job,       \* UploadJob rows, as committed
  file,      \* uploads whose scratch file exists
  message,   \* the queue's entry of each upload, and how often it was started
  task,      \* each upload's running ingestion: its transaction
  doc,       \* Document rows, as committed, with their DocumentVersion
  chunks,    \* a document's chunks in the vector store, as a search sees them
  reindex,   \* each document's running re-index
  listed     \* what the stale-job sweep and the orphan sweep have read

vars == <<request, job, file, message, task, doc, chunks, reindex, listed>>

Ids == 1..MaxDocuments
Id == 0..MaxDocuments         \* 0: None
Chunks == {"none", "some", "all"}
Request == [step: {"none", "open", "committed", "aborted"},
            name: Names \union {Nothing}, content: Contents \union {Nothing}]
Job == [status: {"none", "QUEUED", "SUCCEEDED", "FAILED"}, document: Id]
Message == [state: {"none", "queued", "running", "done"}, local: BOOLEAN, tries: 0..MaxTries]
\* row: the job found its UploadJob; hit: the document of a skipped upload
Task == [step: {"none", "unique", "looked", "indexing", "stored", "failed", "ended", "unlinked"},
         row: BOOLEAN, new: Id, previous: Id, hit: Id, root: Id, number: 0..MaxDocuments]
\* number: the version number, 0 without a DocumentVersion
\* of: history, the document it superseded (kept when it is deleted)
Document == [status: {"none", "READY", "FAILED", "deleted"},
             name: Names \union {Nothing}, content: Contents \union {Nothing},
             current: BOOLEAN, root: Id, number: 0..MaxDocuments, of: Id]
Reindex == [step: {"none", "queued", "cleared", "stored"}, weekly: BOOLEAN]

NoTask == [step |-> "none", row |-> FALSE, new |-> 0, previous |-> 0, hit |-> 0,
           root |-> 0, number |-> 0]
NoDocument == [status |-> "none", name |-> Nothing, content |-> Nothing, current |-> FALSE,
               root |-> 0, number |-> 0, of |-> 0]
First(n, c) == [status |-> "READY", name |-> n, content |-> c, current |-> TRUE,
                root |-> 0, number |-> 0, of |-> 0]
NoReindex == [step |-> "none", weekly |-> FALSE]

Init ==
  /\ request = [u \in Uploads |-> [step |-> "none", name |-> Nothing, content |-> Nothing]]
  /\ job = [u \in Uploads |-> [status |-> "none", document |-> 0]]
  /\ file = {}
  /\ message = [u \in Uploads |-> [state |-> "none", local |-> FALSE, tries |-> 0]]
  /\ task = [u \in Uploads |-> NoTask]
  \* nothing yet, a document of an earlier upload, or the two that a race left
  /\ \E old \in {{}, {1}} \union (IF "twins" \in Env THEN {{1, 2}} ELSE {}),
        n \in Names, c \in [Ids -> Contents] :
       doc = [d \in Ids |-> IF d \in old THEN First(n, c[d]) ELSE NoDocument]
  /\ chunks = [d \in Ids |-> IF doc[d].status = "READY" THEN "all" ELSE "none"]
  /\ reindex = [d \in Ids |-> NoReindex]
  /\ listed = [jobs |-> {}, orphans |-> {}]

Exists(d) == doc[d].status \in {"READY", "FAILED"}
Running(u) == task[u].step \in {"unique", "looked", "indexing", "stored"}

-----------------------------------------------------------------------------
(* upload_document: the file is kept, the row inserted and the job queued   *)
(* (or handed to this process) before the request's transaction commits.   *)

Upload(u) ==
  /\ request[u].step = "none"
  /\ \E n \in Names, c \in Contents, local \in BOOLEAN :
       /\ local => "local" \in Env
       /\ request' = [request EXCEPT ![u] = [step |-> "open", name |-> n, content |-> c]]
       /\ message' = [message EXCEPT ![u].state = "queued", ![u].local = local]
  /\ file' = file \union {u}
  /\ UNCHANGED <<job, task, doc, chunks, reindex, listed>>

UploadCommits(u) ==
  /\ request[u].step = "open"
  /\ request' = [request EXCEPT ![u].step = "committed"]
  /\ job' = [job EXCEPT ![u].status = "QUEUED"]
  /\ UNCHANGED <<file, message, task, doc, chunks, reindex, listed>>

UploadAborts(u) ==
  /\ "abort" \in Env
  /\ request[u].step = "open" /\ ~message[u].local
  /\ request' = [request EXCEPT ![u].step = "aborted"]
  /\ UNCHANGED <<job, file, message, task, doc, chunks, reindex, listed>>

-----------------------------------------------------------------------------
(* ingest_document_job, _ingest_in_background and IngestionPipeline.ingest. *)

\* An id no row, chunk or transaction uses.
Fresh == {d \in Ids : /\ doc[d].status = "none" /\ chunks[d] = "none"
                      /\ d \notin listed.orphans
                      /\ \A u \in Uploads : task[u].new # d}

\* Mutant of Duplicates: the same file name is taken for the same file.
SameName(u) == {d \in Ids : doc[d].status = "READY" /\ doc[d].current /\ doc[d].name = request[u].name}

\* get_by_checksum, and below get_current_by_tenant_kb_and_filename
Duplicates(u) ==
  {d \in Ids : doc[d].status = "READY" /\ doc[d].current /\ doc[d].content = request[u].content}

Previous(u) == {d \in Ids : Exists(d) /\ doc[d].current /\ doc[d].name = request[u].name}

\* The queue starts the job, which looks for its UploadJob and for the document it
\* duplicates.
Begin(u, local) ==
  /\ message[u].state = "queued" /\ message[u].tries < MaxTries
  /\ message' = [message EXCEPT ![u].state = "running", ![u].tries = @ + 1]
  /\ task' = [task EXCEPT ![u] = [local EXCEPT !.row = job[u].status # "none"]]
  /\ UNCHANGED <<request, job, file, doc, chunks, reindex, listed>>

\* The scratch file is gone, or there are two rows where one is expected.
LookupFails(u) ==
  /\ u \notin file \/ Cardinality(Duplicates(u)) > 1
  /\ Begin(u, [NoTask EXCEPT !.step = "failed"])

LookupDuplicate(u) ==
  /\ u \in file
  /\ \E d \in Ids : /\ Duplicates(u) = {d}
                    /\ Begin(u, [NoTask EXCEPT !.step = "stored", !.hit = d])

LookupUnique(u) ==
  /\ u \in file /\ Duplicates(u) = {}
  /\ Begin(u, [NoTask EXCEPT !.step = "unique"])

\* The second read, which sees what was committed since the first: the version to
\* supersede; the new row is inserted.
LookupPrevious(u) ==
  /\ task[u].step = "unique"
  /\ \E p \in Id, new \in Fresh :
       /\ IF p = 0 THEN Previous(u) = {} ELSE Previous(u) = {p}
       /\ \A d \in Fresh : new <= d
       /\ task' = [task EXCEPT ![u].step = "looked", ![u].new = new, ![u].previous = p]
  /\ UNCHANGED <<request, job, file, message, doc, chunks, reindex, listed>>

\* Here, too, two rows where one is expected.
PreviousFails(u) ==
  /\ task[u].step = "unique" /\ Cardinality(Previous(u)) > 1
  /\ task' = [task EXCEPT ![u].step = "failed"]
  /\ UNCHANGED <<request, job, file, message, doc, chunks, reindex, listed>>

\* Mutant of Locked: the row of the previous version is not locked.
NeverLocked(d) == FALSE

\* A Document row that some transaction has updated and not committed.
Locked(d) == \E u \in Uploads : task[u].step \in {"indexing", "stored"} /\ task[u].previous = d

\* A lineage starts with the document that was superseded first.
Root(p) == IF doc[p].number = 0 THEN p ELSE doc[p].root

\* Its version numbers, the 1 that p gets if it has none included.
Numbers(p) == {1} \union {doc[d].number : d \in {e \in Ids : Exists(e) /\ doc[e].root = Root(p)}}

\* _track_version, with what is committed once p's row is locked: the number after the
\* highest of the lineage.
Supersede(u) ==
  LET p == task[u].previous
  IN /\ task[u].step = "looked"
     /\ p # 0 => (Exists(p) /\ ~Locked(p))
     /\ IF p = 0 THEN task' = [task EXCEPT ![u].step = "indexing"]
        ELSE \E n \in Numbers(p) :
               /\ \A k \in Numbers(p) : k <= n
               /\ n < MaxDocuments
               /\ task' = [task EXCEPT ![u].step = "indexing", ![u].root = Root(p), ![u].number = n + 1]
     /\ UNCHANGED <<request, job, file, message, doc, chunks, reindex, listed>>

\* The version to supersede was deleted meanwhile: its update finds no row.
SupersedeFails(u) ==
  /\ task[u].step = "looked"
  /\ task[u].previous # 0 /\ ~Exists(task[u].previous)
  /\ task' = [task EXCEPT ![u].step = "failed", ![u].new = 0, ![u].previous = 0]
  /\ UNCHANGED <<request, job, file, message, doc, chunks, reindex, listed>>

\* Load, clean, split, embed, add_many, and the summary and graph that follow.
Index(u) ==
  /\ task[u].step = "indexing"
  /\ task' = [task EXCEPT ![u].step = "stored"]
  /\ chunks' = IF Backend = "chroma" THEN [chunks EXCEPT ![task[u].new] = "all"] ELSE chunks
  /\ UNCHANGED <<request, job, file, message, doc, reindex, listed>>

\* Any of these raises: the transaction is rolled back, what Chroma has stays.
IndexFails(u) ==
  /\ "fail" \in Env
  /\ task[u].step = "indexing"
  /\ task' = [task EXCEPT ![u] = [NoTask EXCEPT !.step = "failed"]]
  /\ \E c \in IF Backend = "chroma" THEN Chunks ELSE {"none"} :
       chunks' = [chunks EXCEPT ![task[u].new] = c]
  /\ UNCHANGED <<request, job, file, message, doc, reindex, listed>>

\* Mutant of Hidden: a status says that there is a newer version.
HiddenByStatus(u) ==
  [d \in Ids |-> IF d # task[u].previous THEN doc[d] ELSE [doc[d] EXCEPT !.status = "SUPERSEDED"]]

\* _track_version's updates: the previous version is no longer current, and has a
\* DocumentVersion from now on.
Hidden(u) ==
  LET p == task[u].previous
  IN [d \in Ids |->
        IF d # p THEN doc[d]
        ELSE IF doc[p].number # 0 THEN [doc[p] EXCEPT !.current = FALSE]
        ELSE [doc[p] EXCEPT !.current = FALSE, !.root = p, !.number = 1]]

\* The job's commit: the document READY with its chunks, its version and the one it
\* superseded, and the row SUCCEEDED.
Commit(u) ==
  LET t == task[u]
      new == [status |-> "READY", name |-> request[u].name, content |-> request[u].content,
              current |-> TRUE, root |-> t.root, number |-> t.number, of |-> t.previous]
  IN /\ t.step = "stored"
     /\ t.hit # 0 => Exists(t.hit)
     /\ IF t.hit # 0 THEN UNCHANGED <<doc, chunks>>
        ELSE /\ doc' = [Hidden(u) EXCEPT ![t.new] = new]
             /\ chunks' = IF Backend = "pgvector" THEN [chunks EXCEPT ![t.new] = "all"] ELSE chunks
     /\ job' = IF ~t.row THEN job
               ELSE [job EXCEPT ![u] = [status |-> "SUCCEEDED",
                                        document |-> IF t.hit # 0 THEN t.hit ELSE t.new]]
     /\ task' = [task EXCEPT ![u] = [NoTask EXCEPT !.step = "ended"]]
     /\ UNCHANGED <<request, file, message, reindex, listed>>

\* The document the upload duplicates was deleted meanwhile: a foreign key error.
CommitFails(u) ==
  /\ task[u].step = "stored" /\ task[u].hit # 0 /\ ~Exists(task[u].hit)
  /\ task' = [task EXCEPT ![u].step = "failed", ![u].hit = 0]
  /\ UNCHANGED <<request, job, file, message, doc, chunks, reindex, listed>>

\* The second transaction of a job that raised.
MarkFailed(u) ==
  /\ task[u].step = "failed"
  /\ job' = IF job[u].status = "none" THEN job ELSE [job EXCEPT ![u].status = "FAILED"]
  /\ task' = [task EXCEPT ![u] = [NoTask EXCEPT !.step = "ended"]]
  /\ UNCHANGED <<request, file, message, doc, chunks, reindex, listed>>

\* finally: the scratch file; then the job is over for the queue, raised or not.
Unlink(u) ==
  /\ task[u].step = "ended"
  /\ file' = file \ {u}
  /\ task' = [task EXCEPT ![u].step = "unlinked"]
  /\ UNCHANGED <<request, job, message, doc, chunks, reindex, listed>>

Ack(u) ==
  /\ task[u].step = "unlinked"
  /\ task' = [task EXCEPT ![u] = NoTask]
  /\ message' = [message EXCEPT ![u].state = "done"]
  /\ UNCHANGED <<request, job, file, doc, chunks, reindex, listed>>

\* A job that was cut off is run again, up to max_tries; this process's is not.
Again(u) ==
  IF message[u].local \/ message[u].tries = MaxTries THEN "done" ELSE "queued"

\* The worker dies: its transaction is rolled back, its file stays.
Crash(u) ==
  /\ "crash" \in Env
  /\ task[u].step # "none"
  /\ task' = [task EXCEPT ![u] = NoTask]
  /\ message' = [message EXCEPT ![u].state = Again(u)]
  /\ UNCHANGED <<request, job, file, doc, chunks, reindex, listed>>

\* Mutant of Cancelled: the session commits what was flushed.
CancelledCommits(u) ==
  /\ "shutdown" \in Env
  /\ task[u].step = "indexing"
  /\ doc' = Hidden(u)
  /\ task' = [task EXCEPT ![u] = NoTask]
  /\ message' = [message EXCEPT ![u].state = "done"]
  /\ file' = file \ {u}
  /\ UNCHANGED <<request, job, chunks, reindex, listed>>

\* The job is cancelled, by a shutdown or (not run again) by its timeout.
\* CancelledError is no Exception: nothing is recorded, the file is deleted.
Cancelled(u) ==
  /\ "shutdown" \in Env
  /\ Running(u)
  /\ task' = [task EXCEPT ![u] = NoTask]
  /\ \E state \in {"done", Again(u)} : message' = [message EXCEPT ![u].state = state]
  /\ file' = file \ {u}
  /\ UNCHANGED <<request, job, doc, chunks, reindex, listed>>

-----------------------------------------------------------------------------
(* The sweeps.  Whether something is older than an hour is nobody's clock   *)
(* here: with "stale" any job or file may be.                               *)

\* Mutant of StaleJobs: only jobs whose ingestion is running.
StaleRunning == {u \in Uploads : job[u].status = "QUEUED" /\ Running(u)}

\* list_stale: QUEUED or RUNNING; RUNNING is never committed.
StaleJobs == {u \in Uploads : job[u].status = "QUEUED"}

\* cleanup_stale_upload_jobs_job: the list.
ListStaleJobs ==
  /\ "stale" \in Env
  /\ listed.jobs = {}
  /\ listed' = [listed EXCEPT !.jobs = StaleJobs]
  /\ UNCHANGED <<request, job, file, message, task, doc, chunks, reindex>>

\* mark_failed of one of them: the update waits for a job that has its row locked,
\* and does not look at the status again.  (All are committed together in the code.)
FailStaleJob(u) ==
  /\ u \in listed.jobs
  /\ ~(Running(u) /\ task[u].row)
  /\ listed' = [listed EXCEPT !.jobs = @ \ {u}]
  /\ job' = [job EXCEPT ![u].status = "FAILED"]
  /\ UNCHANGED <<request, file, message, task, doc, chunks, reindex>>

\* cleanup_orphaned_scratch_files: any file may be old, also one whose job still waits
\* in the queue.
SweepFile(u) ==
  /\ "stale" \in Env
  /\ u \in file
  /\ file' = file \ {u}
  /\ UNCHANGED <<request, job, message, task, doc, chunks, reindex, listed>>

\* Mutant of Orphans: candidates come from the tenants Postgres has documents of.
OrphansOfTenants ==
  IF \E d \in Ids : Exists(d) THEN {d \in Ids : chunks[d] # "none" /\ ~Exists(d)} ELSE {}

\* cleanup_orphaned_chunks_job: what Chroma has, minus the rows Postgres has.
Orphans == {d \in Ids : chunks[d] # "none" /\ ~Exists(d)}

ListOrphans ==
  /\ "orphans" \in Env /\ Backend = "chroma"
  /\ listed.orphans = {}
  /\ listed' = [listed EXCEPT !.orphans = Orphans]
  /\ UNCHANGED <<request, job, file, message, task, doc, chunks, reindex>>

DropOrphan(d) ==
  /\ d \in listed.orphans
  /\ listed' = [listed EXCEPT !.orphans = @ \ {d}]
  /\ chunks' = [chunks EXCEPT ![d] = "none"]
  /\ UNCHANGED <<request, job, file, message, task, doc, reindex>>

-----------------------------------------------------------------------------
(* Re-indexing, in place: requested, of a current document, or weekly.     *)

QueueReindex(d) ==
  /\ "reindex" \in Env
  /\ Exists(d) /\ doc[d].current
  /\ reindex[d].step = "none"
  /\ reindex' = [reindex EXCEPT ![d] = [step |-> "queued", weekly |-> FALSE]]
  /\ UNCHANGED <<request, job, file, message, task, doc, chunks, listed>>

\* reindex_stale_documents_job takes document d from its list, one after the other.
\* (The code commits them together, at the end.)
TakeStaleDocument(d) ==
  /\ "weekly" \in Env
  /\ \A e \in Ids : ~reindex[e].weekly
  /\ Exists(d) /\ doc[d].current
  /\ reindex[d].step = "none"
  /\ reindex' = [reindex EXCEPT ![d] = [step |-> "queued", weekly |-> TRUE]]
  /\ UNCHANGED <<request, job, file, message, task, doc, chunks, listed>>

\* IngestionPipeline.reindex_document: the file is downloaded, the old chunks go.
ReindexClears(d) ==
  /\ reindex[d].step = "queued"
  /\ IF Exists(d)
       THEN /\ reindex' = [reindex EXCEPT ![d].step = "cleared"]
            /\ chunks' = IF Backend = "chroma" THEN [chunks EXCEPT ![d] = "none"] ELSE chunks
       ELSE reindex' = [reindex EXCEPT ![d] = NoReindex] /\ UNCHANGED chunks
  /\ UNCHANGED <<request, job, file, message, task, doc, listed>>

ReindexStores(d) ==
  /\ reindex[d].step = "cleared"
  /\ reindex' = [reindex EXCEPT ![d].step = "stored"]
  /\ chunks' = IF Backend = "chroma" THEN [chunks EXCEPT ![d] = "all"] ELSE chunks
  /\ UNCHANGED <<request, job, file, message, task, doc, listed>>

\* The row is READY with its new chunks; a row deleted meanwhile rolls it back.
ReindexCommits(d) ==
  /\ reindex[d].step = "stored"
  /\ reindex' = [reindex EXCEPT ![d] = NoReindex]
  /\ doc' = IF Exists(d) THEN [doc EXCEPT ![d].status = "READY"] ELSE doc
  /\ chunks' = IF Backend = "pgvector" /\ Exists(d) THEN [chunks EXCEPT ![d] = "all"] ELSE chunks
  /\ UNCHANGED <<request, job, file, message, task, listed>>

\* run_reindex lets the exception roll the transaction back; the weekly job catches
\* it inside the one transaction of its whole sweep and goes on.
FailureKept(d) == reindex[d].weekly

\* Mutant of FailedDocument: the status is left as it was.
StatusKept(d) == doc[d]

FailedDocument(d) == IF Exists(d) THEN [doc[d] EXCEPT !.status = "FAILED"] ELSE doc[d]

ReindexFails(d) ==
  /\ "fail" \in Env
  /\ \/ reindex[d].step = "queued" /\ Exists(d)      \* the download
     \/ reindex[d].step = "cleared"
  /\ reindex' = [reindex EXCEPT ![d] = NoReindex]
  /\ doc' = IF FailureKept(d) THEN [doc EXCEPT ![d] = FailedDocument(d)] ELSE doc
  /\ IF reindex[d].step = "queued" THEN UNCHANGED chunks
     ELSE IF Backend = "chroma" THEN \E c \in Chunks : chunks' = [chunks EXCEPT ![d] = c]
     ELSE chunks' = IF FailureKept(d) THEN [chunks EXCEPT ![d] = "none"] ELSE chunks
  /\ UNCHANGED <<request, job, file, message, task, listed>>

-----------------------------------------------------------------------------
\* A delete waits for the transactions that updated the row, refer to it, or hold
\* its chunks.
Held(d) ==
  \/ Locked(d)
  \/ \E u \in Uploads : task[u].step \in {"indexing", "stored"} /\ task[u].root = d
  \/ Backend = "pgvector" /\ reindex[d].step \in {"cleared", "stored"}

\* delete_document, of any version: the chunks and the row; the row takes along its
\* DocumentVersion, all versions of a lineage it is the root of (ON DELETE CASCADE),
\* and its id in upload jobs (SET NULL).  No earlier version becomes current.
Delete(d) ==
  /\ "delete" \in Env
  /\ Exists(d) /\ ~Held(d)
  /\ doc' = [e \in Ids |->
       IF e = d THEN [NoDocument EXCEPT !.status = "deleted", !.of = doc[d].of]
       ELSE IF doc[e].root = d THEN [doc[e] EXCEPT !.root = 0, !.number = 0]
       ELSE doc[e]]
  /\ chunks' = [chunks EXCEPT ![d] = "none"]
  /\ job' = [u \in Uploads |-> IF job[u].document = d THEN [job[u] EXCEPT !.document = 0] ELSE job[u]]
  /\ UNCHANGED <<request, file, message, task, reindex, listed>>

-----------------------------------------------------------------------------
RequestStep(u) == Upload(u) \/ UploadCommits(u) \/ UploadAborts(u)
JobStep(u) ==
  \/ LookupFails(u) \/ LookupDuplicate(u) \/ LookupUnique(u)
  \/ LookupPrevious(u) \/ PreviousFails(u)
  \/ Supersede(u) \/ SupersedeFails(u) \/ Index(u) \/ Commit(u) \/ CommitFails(u)
  \/ IndexFails(u) \/ MarkFailed(u) \/ Unlink(u) \/ Ack(u)
ReindexStep(d) == ReindexClears(d) \/ ReindexStores(d) \/ ReindexCommits(d) \/ ReindexFails(d)
SweepStep ==
  \/ ListStaleJobs \/ ListOrphans
  \/ \E u \in Uploads : FailStaleJob(u) \/ SweepFile(u)
  \/ \E d \in Ids : DropOrphan(d)

Next ==
  \/ \E u \in Uploads : RequestStep(u) \/ JobStep(u) \/ Crash(u) \/ Cancelled(u)
  \/ \E d \in Ids : QueueReindex(d) \/ TakeStaleDocument(d) \/ ReindexStep(d) \/ Delete(d)
  \/ SweepStep

Spec == Init /\ [][Next]_vars

\* A request ends, a worker works, the sweeps come round (cron_jobs).
Fairness ==
  /\ \A u \in Uploads :
       /\ WF_vars(UploadCommits(u) \/ UploadAborts(u)) /\ WF_vars(JobStep(u))
       /\ WF_vars(FailStaleJob(u))
  /\ \A d \in Ids : WF_vars(ReindexStep(d)) /\ WF_vars(DropOrphan(d))
  /\ WF_vars(ListStaleJobs) /\ WF_vars(ListOrphans)
FairSpec == Spec /\ Fairness

-----------------------------------------------------------------------------
(* Properties.                                                             *)

\* Every variable has its type.
TypeOK ==
  /\ request \in [Uploads -> Request]
  /\ job \in [Uploads -> Job]
  /\ file \subseteq Uploads
  /\ message \in [Uploads -> Message]
  /\ task \in [Uploads -> Task]
  /\ doc \in [Ids -> Document]
  /\ chunks \in [Ids -> Chunks]
  /\ reindex \in [Ids -> Reindex]
  /\ listed \in [jobs: SUBSET Uploads, orphans: SUBSET Ids]

\* A job that names a document names one with the bytes that were uploaded, whether
\* it was made for it or found to be the same, through re-runs and deletions.
JobNamesItsBytes ==
  \A u \in Uploads : job[u].document # 0 =>
    /\ Exists(job[u].document)
    /\ doc[job[u].document].content = request[u].content

\* A version leaves retrieval only together with the arrival of the one that took its
\* place: no failed or cut off ingestion hides the version before.
HiddenHasSuccessor ==
  \A d \in Ids : Exists(d) /\ ~doc[d].current =>
    \E e \in Ids : doc[e].of = d /\ (Exists(e) => doc[e].name = doc[d].name)

\* Two versions of one lineage that took the place of the same one, uploaded at the same
\* time, have different numbers.  (When the root of a lineage is deleted each
\* version that is left starts a lineage of its own.)
SiblingsNumbered ==
  \A d, e \in Ids :
    (/\ d # e /\ doc[d].of = doc[e].of /\ doc[d].of # 0
     /\ doc[d].root = doc[e].root /\ doc[d].number # 0)
      => doc[d].number # doc[e].number

\* With pgvector a document that is READY has all of its chunks, and nothing but a
\* document that exists has any, whatever fails or is cut off on the way.  (A document
\* whose weekly re-index failed at the download is FAILED and keeps its chunks.)
SearchableIfReady ==
  Backend = "pgvector" =>
    \A d \in Ids : /\ doc[d].status = "READY" => chunks[d] = "all"
                   /\ chunks[d] # "none" => Exists(d)

\* "The one Document row with is_current=True for this tenant/knowledge base/filename"
\* (get_current_by_tenant_kb_and_filename).
OneCurrentVersion ==
  \A d, e \in Ids :
    Exists(d) /\ Exists(e) /\ doc[d].current /\ doc[e].current /\ doc[d].name = doc[e].name
      => d = e

\* An upload that was accepted comes to an end its user can see.
JobsEnd ==
  \A u \in Uploads : (job[u].status = "QUEUED") ~> (job[u].status \in {"SUCCEEDED", "FAILED"})

\* No chunks of a document that is not there stay for ever.
OrphansGo ==
  \A d \in Ids : (chunks[d] # "none" /\ ~Exists(d)) ~> (chunks[d] = "none" \/ Exists(d))
=============================================================================
