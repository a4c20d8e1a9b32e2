-------------------------- MODULE IngestionProofs --------------------------
(***************************************************************************)
(* Proofs about Ingestion, for any uploads, names, contents and bounds.    *)
(* A job's new document is nobody's until its commit, the version it       *)
(* supersedes cannot go while its row is locked, and what an upload was    *)
(* given for is settled before its job starts; the number it gives a       *)
(* version under that lock is new among the version's siblings.            *)
(***************************************************************************)
EXTENDS Ingestion, TLAPS

\* A job starts after its upload.
UploadFirst ==
  \A u \in Uploads : request[u].step = "none" =>
    message[u].state = "none" /\ task[u].step = "none" /\ job[u].document = 0

\* A running job has either a document to insert or the one it duplicates.
TaskShape ==
  \A u \in Uploads :
    /\ ~Running(u) \/ task[u].step = "unique"
         => task[u].new = 0 /\ task[u].hit = 0 /\ task[u].previous = 0
    /\ task[u].step \in {"looked", "indexing"} => task[u].new # 0 /\ task[u].hit = 0
    /\ task[u].step = "stored" => (task[u].new = 0 <=> task[u].hit # 0)
    /\ task[u].hit # 0 => task[u].previous = 0

\* The document to insert is nobody else's.
NewIsFree ==
  \A u \in Uploads : task[u].new # 0 =>
    /\ doc[task[u].new].status = "none"
    /\ \A v \in Uploads \ {u} : task[v].new # task[u].new

\* The duplicate was there and, as long as it is, has the uploaded bytes.
HitHasBytes ==
  \A u \in Uploads : task[u].hit # 0 =>
    /\ doc[task[u].hit].status # "none"
    /\ Exists(task[u].hit) => doc[task[u].hit].content = request[u].content

\* The version to supersede has the uploaded file's name, and stays once it is locked.
PreviousHasName ==
  \A u \in Uploads : task[u].previous # 0 =>
    /\ doc[task[u].previous].status # "none"
    /\ task[u].step \in {"indexing", "stored"} => Exists(task[u].previous)
    /\ Exists(task[u].previous) => doc[task[u].previous].name = request[u].name

\* A row that was never inserted says nothing.
NoneIsBlank == \A d \in Ids : doc[d].status = "none" => doc[d].of = 0

\* The orphan sweep is Chroma's.
OnlyChromaHasOrphans == Backend = "pgvector" => listed.orphans = {}

Shape == UploadFirst /\ TaskShape /\ NewIsFree /\ HitHasBytes /\ PreviousHasName
         /\ NoneIsBlank /\ OnlyChromaHasOrphans

Promises == JobNamesItsBytes /\ HiddenHasSuccessor /\ SearchableIfReady

GInv == TypeOK /\ Shape /\ Promises

-----------------------------------------------------------------------------
\* 0 is no document.
LEMMA Bounds ==
  /\ Ids \subseteq Id /\ 0 \in Id /\ 0 \notin Ids /\ \A d \in Id : d # 0 => d \in Ids
  /\ 0 \in 0..MaxTries /\ 1 \in Ids
BY IngestionAssumption DEF Ids, Id

\* The records the actions start from.
LEMMA Blank ==
  /\ NoTask \in Task /\ NoDocument \in Document /\ NoReindex \in Reindex
  /\ \A n \in Names, c \in Contents : First(n, c) \in Document
<1>1. NoTask \in Task
  BY Bounds DEF NoTask, Task, Id
<1>2. NoDocument \in Document
  BY Bounds DEF NoDocument, Document, Id
<1>3. NoReindex \in Reindex
  BY DEF NoReindex, Reindex
<1>4. \A n \in Names, c \in Contents : First(n, c) \in Document
  BY Bounds DEF First, Document, Id
<1> QED  BY <1>1, <1>2, <1>3, <1>4

\* At the start there are the documents of before, with their chunks.
LEMMA InitTypes == ASSUME Init PROVE TypeOK
<1>1. request \in [Uploads -> Request] /\ job \in [Uploads -> Job] /\ message \in [Uploads -> Message]
  BY Bounds DEF Init, Request, Job, Message
<1>2. task \in [Uploads -> Task] /\ reindex \in [Ids -> Reindex]
  BY Blank DEF Init
<1>3. doc \in [Ids -> Document]
  BY Bounds, Blank DEF Init
<1>4. chunks \in [Ids -> Chunks]
  BY DEF Init, Chunks
<1> QED  BY <1>1, <1>2, <1>3, <1>4 DEF Init, TypeOK

LEMMA InitPromises == ASSUME Init PROVE Shape /\ Promises
<1>1. \A d \in Ids : doc[d] = NoDocument \/ \E n \in Names, c \in Contents : doc[d] = First(n, c)
  BY DEF Init
<1>2. \A d \in Ids : /\ doc[d].status \in {"none", "READY"} /\ doc[d].of = 0
                     /\ Exists(d) => doc[d].current
  <2> SUFFICES ASSUME NEW d \in Ids
               PROVE  /\ doc[d].status \in {"none", "READY"} /\ doc[d].of = 0
                      /\ Exists(d) => doc[d].current
    OBVIOUS
  <2>1. CASE doc[d] = NoDocument
    BY <2>1 DEF NoDocument, Exists
  <2>2. ASSUME NEW n \in Names, NEW c \in Contents, doc[d] = First(n, c)
        PROVE  doc[d].status = "READY" /\ doc[d].of = 0 /\ doc[d].current
    BY <2>2 DEF First
  <2> QED  BY <1>1, <2>1, <2>2
<1>3. \A u \in Uploads : /\ task[u] = NoTask /\ job[u].document = 0 /\ message[u].state = "none"
  BY DEF Init
<1>4. UploadFirst /\ TaskShape /\ NewIsFree /\ HitHasBytes /\ PreviousHasName
  BY <1>3 DEF UploadFirst, TaskShape, NewIsFree, HitHasBytes, PreviousHasName, NoTask, Running
<1>5. NoneIsBlank /\ HiddenHasSuccessor
  BY <1>2 DEF NoneIsBlank, HiddenHasSuccessor
<1>6. OnlyChromaHasOrphans /\ JobNamesItsBytes
  BY <1>3 DEF Init, OnlyChromaHasOrphans, JobNamesItsBytes
<1>7. SearchableIfReady
  BY DEF Init, SearchableIfReady, Exists
<1> QED  BY <1>4, <1>5, <1>6, <1>7 DEF Shape, Promises

-----------------------------------------------------------------------------
\* The types, by groups of actions.
LEMMA RequestTypes == ASSUME TypeOK, NEW u \in Uploads, RequestStep(u) PROVE TypeOK'
<1>1. ASSUME Upload(u) PROVE TypeOK'
  <2>1. PICK n \in Names, c \in Contents, local \in BOOLEAN :
          /\ request' = [request EXCEPT ![u] = [step |-> "open", name |-> n, content |-> c]]
          /\ message' = [message EXCEPT ![u].state = "queued", ![u].local = local]
    BY <1>1 DEF Upload
  <2>2. request' \in [Uploads -> Request]
    BY <2>1 DEF TypeOK, Request
  <2>3. message' \in [Uploads -> Message]
    BY <2>1 DEF TypeOK, Message
  <2> QED  BY <1>1, <2>2, <2>3 DEF Upload, TypeOK
<1>2. ASSUME UploadCommits(u) PROVE TypeOK'
  <2>1. request' \in [Uploads -> Request] /\ job' \in [Uploads -> Job]
    BY <1>2 DEF UploadCommits, TypeOK, Request, Job
  <2> QED  BY <1>2, <2>1 DEF UploadCommits, TypeOK
<1>3. ASSUME UploadAborts(u) PROVE TypeOK'
  <2>1. request' \in [Uploads -> Request]
    BY <1>3 DEF UploadAborts, TypeOK, Request
  <2> QED  BY <1>3, <2>1 DEF UploadAborts, TypeOK
<1> QED  BY <1>1, <1>2, <1>3 DEF RequestStep

LEMMA BeginTypes ==
  ASSUME TypeOK, NEW u \in Uploads, NEW local \in Task, Begin(u, local)
  PROVE  TypeOK'
<1>1. message' \in [Uploads -> Message]
  <2>1. message[u].tries + 1 \in 0..MaxTries
    BY IngestionAssumption DEF Begin, TypeOK, Message
  <2> QED  BY <2>1 DEF Begin, TypeOK, Message
<1>2. task' \in [Uploads -> Task]
  <2>1. (job[u].status # "none") \in BOOLEAN
    OBVIOUS
  <2>2. [local EXCEPT !.row = job[u].status # "none"] \in Task
    BY <2>1, Zenon DEF Task
  <2> QED  BY <2>2 DEF Begin, TypeOK
<1> QED  BY <1>1, <1>2 DEF Begin, TypeOK

\* Every job that starts is one of the three.
LEMMA Begins ==
  ASSUME NEW u \in Uploads, LookupFails(u) \/ LookupDuplicate(u) \/ LookupUnique(u)
  PROVE  \E local \in Task :
           /\ Begin(u, local)
           /\ local.root = 0 /\ local.number = 0
           /\ local.new = 0 /\ local.previous = 0
           /\ \/ local.step \in {"failed", "unique"} /\ local.hit = 0
              \/ local.step = "stored" /\ local.hit \in Duplicates(u)
<1>1. CASE LookupFails(u)
  <2>1. [NoTask EXCEPT !.step = "failed"] \in Task
    BY Bounds DEF NoTask, Task, Id
  <2> QED  BY <1>1, <2>1 DEF LookupFails, NoTask
<1>2. CASE LookupDuplicate(u)
  <2>1. PICK d \in Ids : Duplicates(u) = {d} /\ Begin(u, [NoTask EXCEPT !.step = "stored", !.hit = d])
    BY <1>2 DEF LookupDuplicate
  <2>2. [NoTask EXCEPT !.step = "stored", !.hit = d] \in Task
    BY <2>1, Bounds DEF NoTask, Task, Id
  <2> QED  BY <2>1, <2>2 DEF NoTask
<1>3. CASE LookupUnique(u)
  <2>1. [NoTask EXCEPT !.step = "unique"] \in Task
    BY Bounds DEF NoTask, Task, Id
  <2> QED  BY <1>3, <2>1 DEF LookupUnique, NoTask
<1> QED  BY <1>1, <1>2, <1>3

\* The rest of a job.
LEMMA WorkTypes ==
  ASSUME TypeOK, NEW u \in Uploads,
         \/ LookupPrevious(u) \/ PreviousFails(u)
         \/ Supersede(u) \/ SupersedeFails(u) \/ Index(u) \/ IndexFails(u) \/ CommitFails(u)
  PROVE  TypeOK'
<1>1. task[u] \in Task /\ NoTask \in Task
  BY Blank DEF TypeOK
<1>2. ASSUME Supersede(u) PROVE TypeOK'
  <2> DEFINE p == task[u].previous
  <2>1. CASE p = 0
    <3>1. task' = [task EXCEPT ![u].step = "indexing"]
      BY <1>2, <2>1 DEF Supersede
    <3>2. task' \in [Uploads -> Task]
      BY <3>1 DEF TypeOK, Task
    <3> QED  BY <1>2, <3>2 DEF Supersede, TypeOK
  <2>2. CASE p # 0
    <3>1. PICK n \in Numbers(p) : /\ n < MaxDocuments
            /\ task' = [task EXCEPT ![u].step = "indexing", ![u].root = Root(p), ![u].number = n + 1]
      BY <1>2, <2>2 DEF Supersede
    <3>2. p \in Ids
      BY <1>1, <2>2, Bounds DEF Task
    <3>3. Root(p) \in Id
      BY <3>2, Bounds DEF Root, TypeOK, Document
    <3>4. n + 1 \in 0..MaxDocuments
      BY <3>1, <3>2, IngestionAssumption DEF Numbers, TypeOK, Document, Ids
    <3>5. task' \in [Uploads -> Task]
      <4> DEFINE root == Root(p)
                 number == n + 1
      <4>1. root \in Id /\ number \in 0..MaxDocuments
        BY <3>3, <3>4
      <4>2. task' = [task EXCEPT ![u].step = "indexing", ![u].root = root, ![u].number = number]
        BY <3>1
      <4> HIDE DEF p, root, number
      <4>3. [task[u] EXCEPT !.step = "indexing", !.root = root, !.number = number] \in Task
        BY <1>1, <4>1 DEF Task
      <4> QED  BY <4>2, <4>3 DEF TypeOK
    <3> QED  BY <1>2, <3>5 DEF Supersede, TypeOK
  <2> QED  BY <2>1, <2>2
<1>3. ASSUME SupersedeFails(u) PROVE TypeOK'
  <2>1. task' \in [Uploads -> Task]
    BY <1>3, Bounds DEF SupersedeFails, TypeOK, Task, Id
  <2> QED  BY <1>3, <2>1 DEF SupersedeFails, TypeOK
<1>4. ASSUME Index(u) PROVE TypeOK'
  <2>1. task' \in [Uploads -> Task]
    BY <1>4 DEF Index, TypeOK, Task
  <2>2. chunks' \in [Ids -> Chunks]
    BY <1>4 DEF Index, TypeOK, Chunks
  <2> QED  BY <1>4, <2>1, <2>2 DEF Index, TypeOK
<1>5. ASSUME IndexFails(u) PROVE TypeOK'
  <2>1. [NoTask EXCEPT !.step = "failed"] \in Task
    BY <1>1 DEF Task
  <2>2. task' \in [Uploads -> Task]
    BY <1>5, <2>1 DEF IndexFails, TypeOK
  <2>3. chunks' \in [Ids -> Chunks]
    BY <1>5 DEF IndexFails, TypeOK, Chunks
  <2> QED  BY <1>5, <2>2, <2>3 DEF IndexFails, TypeOK
<1>6. ASSUME CommitFails(u) PROVE TypeOK'
  <2>1. task' \in [Uploads -> Task]
    BY <1>6, Bounds DEF CommitFails, TypeOK, Task, Id
  <2> QED  BY <1>6, <2>1 DEF CommitFails, TypeOK
<1>7. ASSUME LookupPrevious(u) PROVE TypeOK'
  <2>1. PICK p \in Id, new \in Fresh :
          task' = [task EXCEPT ![u].step = "looked", ![u].new = new, ![u].previous = p]
    BY <1>7 DEF LookupPrevious
  <2>2. new \in Id
    BY Bounds DEF Fresh
  <2>3. [task[u] EXCEPT !.step = "looked", !.new = new, !.previous = p] \in Task
    BY <1>1, <2>2 DEF Task
  <2>4. task' \in [Uploads -> Task]
    BY <2>1, <2>3 DEF TypeOK
  <2> QED  BY <1>7, <2>4 DEF LookupPrevious, TypeOK
<1>8. ASSUME PreviousFails(u) PROVE TypeOK'
  <2>1. task' \in [Uploads -> Task]
    BY <1>8 DEF PreviousFails, TypeOK, Task
  <2> QED  BY <1>8, <2>1 DEF PreviousFails, TypeOK
<1> QED  BY <1>2, <1>3, <1>4, <1>5, <1>6, <1>7, <1>8

LEMMA HiddenTypes == ASSUME TypeOK, NEW u \in Uploads PROVE Hidden(u) \in [Ids -> Document]
<1> DEFINE p == task[u].previous
<1>1. SUFFICES ASSUME NEW d \in Ids PROVE Hidden(u)[d] \in Document
  BY DEF Hidden
<1>2. doc[d] \in Document /\ d \in Id /\ 1 \in 0..MaxDocuments
  BY Bounds DEF TypeOK, Ids
<1>3. [doc[d] EXCEPT !.current = FALSE] \in Document
  BY <1>2 DEF Document
<1>4. [doc[d] EXCEPT !.current = FALSE, !.root = d, !.number = 1] \in Document
  BY <1>2 DEF Document
<1> QED  BY <1>2, <1>3, <1>4 DEF Hidden

LEMMA EndTypes ==
  ASSUME TypeOK, NEW u \in Uploads,
         Commit(u) \/ MarkFailed(u) \/ Unlink(u) \/ Ack(u) \/ Crash(u) \/ Cancelled(u)
  PROVE  TypeOK'
<1>1. task[u] \in Task /\ NoTask \in Task /\ [NoTask EXCEPT !.step = "ended"] \in Task
  BY Blank DEF TypeOK, Task
<1>2. ASSUME Commit(u) PROVE TypeOK'
  <2> DEFINE new == [status |-> "READY", name |-> request[u].name, content |-> request[u].content,
                     current |-> TRUE, root |-> task[u].root, number |-> task[u].number,
                     of |-> task[u].previous]
  <2>1. new \in Document
    BY <1>1 DEF TypeOK, Request, Task, Document
  <2>2. doc' \in [Ids -> Document]
    <3>1. CASE task[u].hit # 0
      BY <1>2, <3>1 DEF Commit, TypeOK
    <3>2. CASE task[u].hit = 0
      <4>1. doc' = [Hidden(u) EXCEPT ![task[u].new] = new]
        BY <1>2, <3>2 DEF Commit
      <4> HIDE DEF new
      <4> QED  BY <2>1, <4>1, HiddenTypes
    <3> QED  BY <3>1, <3>2
  <2>3. chunks' \in [Ids -> Chunks]
    BY <1>2 DEF Commit, TypeOK, Chunks
  <2>4. job' \in [Uploads -> Job]
    <3>1. [status |-> "SUCCEEDED", document |-> IF task[u].hit # 0 THEN task[u].hit ELSE task[u].new]
            \in Job
      BY <1>1 DEF Job, Task
    <3> QED  BY <1>2, <3>1 DEF Commit, TypeOK
  <2>5. task' \in [Uploads -> Task]
    BY <1>1, <1>2 DEF Commit, TypeOK
  <2> QED  BY <1>2, <2>2, <2>3, <2>4, <2>5 DEF Commit, TypeOK
<1>3. ASSUME MarkFailed(u) PROVE TypeOK'
  <2>1. job' \in [Uploads -> Job]
    BY <1>3 DEF MarkFailed, TypeOK, Job
  <2>2. task' \in [Uploads -> Task]
    BY <1>1, <1>3 DEF MarkFailed, TypeOK
  <2> QED  BY <1>3, <2>1, <2>2 DEF MarkFailed, TypeOK
<1>4. ASSUME Unlink(u) PROVE TypeOK'
  <2>1. task' \in [Uploads -> Task]
    BY <1>4 DEF Unlink, TypeOK, Task
  <2> QED  BY <1>4, <2>1 DEF Unlink, TypeOK
<1>5. ASSUME Ack(u) PROVE TypeOK'
  <2>1. task' \in [Uploads -> Task] /\ message' \in [Uploads -> Message]
    BY <1>1, <1>5 DEF Ack, TypeOK, Message
  <2> QED  BY <1>5, <2>1 DEF Ack, TypeOK
<1>6. Again(u) \in {"done", "queued"}
  BY DEF Again
<1>7. ASSUME Crash(u) PROVE TypeOK'
  <2>1. task' \in [Uploads -> Task] /\ message' \in [Uploads -> Message]
    BY <1>1, <1>6, <1>7 DEF Crash, TypeOK, Message
  <2> QED  BY <1>7, <2>1 DEF Crash, TypeOK
<1>8. ASSUME Cancelled(u) PROVE TypeOK'
  <2>1. PICK state \in {"done", Again(u)} : message' = [message EXCEPT ![u].state = state]
    BY <1>8 DEF Cancelled
  <2>2. task' \in [Uploads -> Task] /\ message' \in [Uploads -> Message]
    BY <1>1, <1>6, <1>8, <2>1 DEF Cancelled, TypeOK, Message
  <2> QED  BY <1>8, <2>2 DEF Cancelled, TypeOK
<1> QED  BY <1>2, <1>3, <1>4, <1>5, <1>7, <1>8

LEMMA SweepTypes == ASSUME TypeOK, SweepStep PROVE TypeOK'
<1>1. ASSUME ListStaleJobs PROVE TypeOK'
  BY <1>1 DEF ListStaleJobs, StaleJobs, TypeOK
<1>2. ASSUME ListOrphans PROVE TypeOK'
  BY <1>2 DEF ListOrphans, Orphans, TypeOK
<1>3. ASSUME NEW u \in Uploads, FailStaleJob(u) PROVE TypeOK'
  <2>1. job' \in [Uploads -> Job] /\ listed' \in [jobs: SUBSET Uploads, orphans: SUBSET Ids]
    BY <1>3 DEF FailStaleJob, TypeOK, Job
  <2> QED  BY <1>3, <2>1 DEF FailStaleJob, TypeOK
<1>4. ASSUME NEW u \in Uploads, SweepFile(u) PROVE TypeOK'
  BY <1>4 DEF SweepFile, TypeOK
<1>5. ASSUME NEW d \in Ids, DropOrphan(d) PROVE TypeOK'
  BY <1>5 DEF DropOrphan, TypeOK, Chunks
<1> QED  BY <1>1, <1>2, <1>3, <1>4, <1>5 DEF SweepStep

LEMMA DocumentTypes ==
  ASSUME TypeOK, NEW d \in Ids,
         QueueReindex(d) \/ TakeStaleDocument(d) \/ ReindexStep(d) \/ Delete(d)
  PROVE  TypeOK'
<1>1. ASSUME QueueReindex(d) PROVE TypeOK'
  BY <1>1 DEF QueueReindex, TypeOK, Reindex
<1>2. ASSUME TakeStaleDocument(d) PROVE TypeOK'
  BY <1>2 DEF TakeStaleDocument, TypeOK, Reindex
<1>3. ASSUME ReindexClears(d) PROVE TypeOK'
  <2>1. chunks' \in [Ids -> Chunks]
    BY <1>3 DEF ReindexClears, TypeOK, Chunks
  <2>2. reindex' \in [Ids -> Reindex]
    <3>1. CASE Exists(d)
      BY <1>3, <3>1 DEF ReindexClears, TypeOK, Reindex
    <3>2. CASE ~Exists(d)
      BY <1>3, <3>2, Blank DEF ReindexClears, TypeOK
    <3> QED  BY <3>1, <3>2
  <2> QED  BY <1>3, <2>1, <2>2 DEF ReindexClears, TypeOK
<1>4. ASSUME ReindexStores(d) PROVE TypeOK'
  BY <1>4 DEF ReindexStores, TypeOK, Reindex, Chunks
<1>5. ASSUME ReindexCommits(d) PROVE TypeOK'
  <2>1. reindex' \in [Ids -> Reindex] /\ chunks' \in [Ids -> Chunks]
    BY <1>5, Blank DEF ReindexCommits, TypeOK, Chunks
  <2>2. doc' \in [Ids -> Document]
    <3>1. [doc[d] EXCEPT !.status = "READY"] \in Document
      BY DEF TypeOK, Document
    <3> QED  BY <1>5, <3>1 DEF ReindexCommits, TypeOK
  <2> QED  BY <1>5, <2>1, <2>2 DEF ReindexCommits, TypeOK
<1>6. ASSUME ReindexFails(d) PROVE TypeOK'
  <2>1. reindex' \in [Ids -> Reindex] /\ chunks' \in [Ids -> Chunks]
    BY <1>6, Blank DEF ReindexFails, TypeOK, Chunks
  <2>2. doc' \in [Ids -> Document]
    <3>1. FailedDocument(d) \in Document
      BY DEF FailedDocument, TypeOK, Document
    <3> QED  BY <1>6, <3>1 DEF ReindexFails, TypeOK
  <2> QED  BY <1>6, <2>1, <2>2 DEF ReindexFails, TypeOK
<1>7. ASSUME Delete(d) PROVE TypeOK'
  <2>1. ASSUME NEW e \in Ids PROVE doc'[e] \in Document
    <3>1. doc[e] \in Document /\ doc[d].of \in Id
      BY DEF TypeOK, Document
    <3>2. [NoDocument EXCEPT !.status = "deleted", !.of = doc[d].of] \in Document
      BY <3>1, Blank DEF Document
    <3>3. [doc[e] EXCEPT !.root = 0, !.number = 0] \in Document
      BY <3>1, Bounds DEF Document, Id
    <3> QED  BY <1>7, <3>1, <3>2, <3>3 DEF Delete
  <2>2. doc' \in [Ids -> Document]
    BY <1>7, <2>1 DEF Delete
  <2>3. job' \in [Uploads -> Job]
    <3>1. \A u \in Uploads : job[u] \in Job /\ [job[u] EXCEPT !.document = 0] \in Job
      BY Bounds DEF TypeOK, Job
    <3> QED  BY <1>7, <3>1 DEF Delete
  <2> QED  BY <1>7, <2>2, <2>3 DEF Delete, TypeOK, Chunks
<1> QED  BY <1>1, <1>2, <1>3, <1>4, <1>5, <1>6, <1>7 DEF ReindexStep

LEMMA NextTypes == ASSUME TypeOK, [Next]_vars PROVE TypeOK'
<1>1. ASSUME UNCHANGED vars PROVE TypeOK'
  BY <1>1 DEF vars, TypeOK
<1>2. ASSUME NEW u \in Uploads, JobStep(u) PROVE TypeOK'
  <2>1. CASE LookupFails(u) \/ LookupDuplicate(u) \/ LookupUnique(u)
    BY <2>1, Begins, BeginTypes
  <2> QED  BY <1>2, <2>1, WorkTypes, EndTypes DEF JobStep
<1> QED  BY <1>1, <1>2, RequestTypes, EndTypes, SweepTypes, DocumentTypes DEF Next

-----------------------------------------------------------------------------
\* What an upload is for is settled once, before its job starts.
LEMMA RequestKeeps == ASSUME GInv, NEW u \in Uploads, RequestStep(u) PROVE Shape' /\ Promises'
<1>1. UNCHANGED <<task, doc, chunks, listed>>
  BY DEF RequestStep, Upload, UploadCommits, UploadAborts
<1>2. \A v \in Uploads : job'[v].document = job[v].document
  BY DEF RequestStep, Upload, UploadCommits, UploadAborts, GInv, TypeOK, Job
<1>3. \A v \in Uploads : request'[v].step = "none" =>
        request[v].step = "none" /\ message'[v] = message[v]
  <2>1. ASSUME Upload(u), NEW v \in Uploads \ {u}
        PROVE  request'[v] = request[v] /\ message'[v] = message[v]
    BY <2>1 DEF Upload, GInv, TypeOK
  <2>2. Upload(u) => request'[u].step = "open"
    BY DEF Upload, GInv, TypeOK
  <2>3. ASSUME UploadCommits(u) \/ UploadAborts(u)
        PROVE  /\ message' = message /\ request'[u].step # "none"
               /\ \A v \in Uploads \ {u} : request'[v] = request[v]
    BY <2>3 DEF UploadCommits, UploadAborts, GInv, TypeOK, Request
  <2> QED  BY <2>1, <2>2, <2>3 DEF RequestStep
<1>4. \A v \in Uploads : /\ task[v].hit # 0 \/ task[v].previous # 0 \/ job[v].document # 0
                         => request'[v].content = request[v].content /\ request'[v].name = request[v].name
  <2>1. CASE Upload(u)
    <3>1. request[u].step = "none" /\ \A v \in Uploads \ {u} : request'[v] = request[v]
      BY <2>1 DEF Upload, GInv, TypeOK
    <3>2. task[u].step = "none" /\ job[u].document = 0
      BY <3>1 DEF GInv, Shape, UploadFirst
    <3>3. task[u].hit = 0 /\ task[u].previous = 0
      BY <3>2 DEF GInv, Shape, TaskShape, Running
    <3> QED  BY <3>1, <3>2, <3>3
  <2>2. CASE UploadCommits(u) \/ UploadAborts(u)
    <3>1. PICK step \in {"committed", "aborted"} : request' = [request EXCEPT ![u].step = step]
      BY <2>2 DEF UploadCommits, UploadAborts
    <3> QED  BY <3>1 DEF GInv, TypeOK, Request
  <2> QED  BY <2>1, <2>2 DEF RequestStep
<1>5. UploadFirst'
  BY <1>1, <1>2, <1>3 DEF GInv, Shape, UploadFirst
<1>6. TaskShape' /\ NewIsFree' /\ NoneIsBlank' /\ OnlyChromaHasOrphans'
  BY <1>1 DEF GInv, Shape, TaskShape, NewIsFree, NoneIsBlank, OnlyChromaHasOrphans, Running
<1>7. HitHasBytes' /\ PreviousHasName'
  BY <1>1, <1>4 DEF GInv, Shape, HitHasBytes, PreviousHasName, Exists
<1>8. JobNamesItsBytes'
  BY <1>1, <1>2, <1>4 DEF GInv, Promises, JobNamesItsBytes, Exists
<1>9. HiddenHasSuccessor' /\ SearchableIfReady'
  BY <1>1 DEF GInv, Promises, HiddenHasSuccessor, SearchableIfReady, Exists
<1> QED  BY <1>5, <1>6, <1>7, <1>8, <1>9 DEF Shape, Promises

\* A job that starts finds nothing, or a duplicate with its bytes.
LEMMA BeginKeeps ==
  ASSUME GInv, NEW u \in Uploads, LookupFails(u) \/ LookupDuplicate(u) \/ LookupUnique(u)
  PROVE  Shape' /\ Promises'
<1>1. PICK local \in Task :
           /\ Begin(u, local)
           /\ local.root = 0 /\ local.number = 0
           /\ local.new = 0 /\ local.previous = 0
           /\ \/ local.step \in {"failed", "unique"} /\ local.hit = 0
              \/ local.step = "stored" /\ local.hit \in Duplicates(u)
  BY Begins
<1>2. UNCHANGED <<request, job, doc, chunks, listed>>
  BY <1>1 DEF Begin
<1>3. /\ task'[u].step = local.step /\ task'[u].new = local.new /\ task'[u].hit = local.hit
      /\ task'[u].previous = local.previous
      /\ \A v \in Uploads \ {u} : task'[v] = task[v]
  <2>1. task' = [task EXCEPT ![u] = [local EXCEPT !.row = job[u].status # "none"]]
    BY <1>1 DEF Begin
  <2> DEFINE row == job[u].status # "none"
  <2>2. task' = [task EXCEPT ![u] = [local EXCEPT !.row = row]]
    BY <2>1
  <2> HIDE DEF row
  <2> QED  BY <2>2 DEF GInv, TypeOK, Task
<1>4. request[u].step # "none" /\ \A v \in Uploads \ {u} : message'[v] = message[v]
  BY <1>1 DEF Begin, GInv, TypeOK, Shape, UploadFirst
<1>5. UploadFirst'
  BY <1>2, <1>3, <1>4 DEF GInv, Shape, UploadFirst
<1>6. TaskShape'
  <2>1. local.hit \in Duplicates(u) => local.hit # 0
    BY Bounds DEF Duplicates
  <2> QED  BY <1>1, <1>3, <2>1 DEF GInv, Shape, TaskShape, Running
<1>7. NewIsFree'
  BY <1>1, <1>2, <1>3 DEF GInv, Shape, NewIsFree
<1>8. HitHasBytes'
  BY <1>1, <1>2, <1>3 DEF GInv, Shape, HitHasBytes, Exists, Duplicates
<1>9. PreviousHasName'
  BY <1>1, <1>2, <1>3 DEF GInv, Shape, PreviousHasName, Exists
<1>10. NoneIsBlank' /\ OnlyChromaHasOrphans'
  BY <1>2 DEF GInv, Shape, NoneIsBlank, OnlyChromaHasOrphans
<1>11. JobNamesItsBytes' /\ HiddenHasSuccessor' /\ SearchableIfReady'
  BY <1>2 DEF GInv, Promises, JobNamesItsBytes, HiddenHasSuccessor, SearchableIfReady, Exists
<1> QED  BY <1>5, <1>6, <1>7, <1>8, <1>9, <1>10, <1>11 DEF Shape, Promises

\* The second read finds a free id and a version of the file's name, or none.
LEMMA LookKeeps ==
  ASSUME GInv, NEW u \in Uploads, LookupPrevious(u)
  PROVE  Shape' /\ Promises'
<1>1. task[u] \in Task /\ task[u].step = "unique" /\ task[u].hit = 0
  BY DEF LookupPrevious, GInv, TypeOK, Shape, TaskShape
<1>2. PICK p \in Id, new \in Fresh :
        /\ IF p = 0 THEN Previous(u) = {} ELSE Previous(u) = {p}
        /\ task' = [task EXCEPT ![u].step = "looked", ![u].new = new, ![u].previous = p]
  BY DEF LookupPrevious
<1>3. /\ task'[u].step = "looked" /\ task'[u].new = new /\ task'[u].hit = 0
      /\ task'[u].previous = p
      /\ \A v \in Uploads \ {u} : task'[v] = task[v]
  BY <1>1, <1>2 DEF GInv, TypeOK, Task
<1>4. UNCHANGED <<request, job, message, doc, chunks, listed>>
  BY DEF LookupPrevious
<1>5. UploadFirst'
  <2>1. request[u].step # "none"
    BY <1>1 DEF GInv, Shape, UploadFirst
  <2> QED  BY <1>3, <1>4, <2>1 DEF GInv, Shape, UploadFirst
<1>6. TaskShape'
  <2>1. new # 0
    BY Bounds DEF Fresh
  <2> QED  BY <1>3, <2>1 DEF GInv, Shape, TaskShape, Running
<1>7. NewIsFree'
  <2>1. doc[new].status = "none" /\ \A v \in Uploads : task[v].new # new
    BY DEF Fresh
  <2> QED  BY <1>3, <1>4, <2>1 DEF GInv, Shape, NewIsFree
<1>8. HitHasBytes'
  BY <1>3, <1>4 DEF GInv, Shape, HitHasBytes, Exists
<1>9. PreviousHasName'
  <2>1. p # 0 => p \in Previous(u)
    BY <1>2
  <2> QED  BY <1>3, <1>4, <2>1 DEF GInv, Shape, PreviousHasName, Exists, Previous
<1>10. NoneIsBlank' /\ OnlyChromaHasOrphans'
  BY <1>4 DEF GInv, Shape, NoneIsBlank, OnlyChromaHasOrphans
<1>11. JobNamesItsBytes' /\ HiddenHasSuccessor' /\ SearchableIfReady'
  BY <1>4 DEF GInv, Promises, JobNamesItsBytes, HiddenHasSuccessor, SearchableIfReady, Exists
<1> QED  BY <1>5, <1>6, <1>7, <1>8, <1>9, <1>10, <1>11 DEF Shape, Promises

\* A job that goes on, or gives up, before any document changes.
LEMMA TaskMoves ==
  ASSUME GInv, NEW u \in Uploads, task[u].step # "none",
         UNCHANGED <<request, doc, listed>>,
         \A v \in Uploads \ {u} : task'[v] = task[v] /\ message'[v] = message[v],
         \A v \in Uploads : job'[v].document = job[v].document,
         task'[u].new \in {0, task[u].new}, task'[u].hit \in {0, task[u].hit},
         task'[u].previous \in {0, task[u].previous},
         TaskShape',
         task'[u].step \in {"indexing", "stored"} /\ task'[u].previous # 0
           => Exists(task[u].previous)
  PROVE  Shape' /\ JobNamesItsBytes' /\ HiddenHasSuccessor'
<1>1. UploadFirst'
  <2>1. request[u].step # "none"
    BY DEF GInv, Shape, UploadFirst
  <2> QED  BY <2>1 DEF GInv, Shape, UploadFirst
<1>2. NewIsFree'
  BY DEF GInv, Shape, NewIsFree
<1>3. HitHasBytes'
  BY DEF GInv, Shape, HitHasBytes, Exists
<1>4. PreviousHasName'
  BY DEF GInv, Shape, PreviousHasName, Exists
<1>5. NoneIsBlank' /\ OnlyChromaHasOrphans'
  BY DEF GInv, Shape, NoneIsBlank, OnlyChromaHasOrphans
<1>6. JobNamesItsBytes' /\ HiddenHasSuccessor'
  BY DEF GInv, Promises, JobNamesItsBytes, HiddenHasSuccessor, Exists
<1> QED  BY <1>1, <1>2, <1>3, <1>4, <1>5, <1>6 DEF Shape

\* Until its commit a job changes no row; what it stores before is of a free id.
LEMMA WorkKeeps ==
  ASSUME GInv, NEW u \in Uploads,
         \/ PreviousFails(u) \/ Supersede(u) \/ SupersedeFails(u)
         \/ Index(u) \/ IndexFails(u) \/ CommitFails(u)
  PROVE  Shape' /\ Promises'
<1>1. task[u] \in Task /\ task[u].step # "none"
  BY DEF GInv, TypeOK, PreviousFails, Supersede, SupersedeFails, Index, IndexFails, CommitFails
<1>2. /\ UNCHANGED <<request, job, message, doc, listed>>
      /\ \A v \in Uploads \ {u} : task'[v] = task[v]
  BY DEF GInv, TypeOK, PreviousFails, Supersede, SupersedeFails, Index, IndexFails, CommitFails
<1>3. SearchableIfReady'
  <2>1. CASE UNCHANGED chunks
    BY <1>2, <2>1 DEF GInv, Promises, SearchableIfReady, Exists
  <2>2. CASE IndexFails(u)
    <3>1. Backend = "pgvector" => chunks' = [chunks EXCEPT ![task[u].new] = "none"]
      BY <2>2, IngestionAssumption DEF IndexFails
    <3>2. task[u].new # 0 /\ doc[task[u].new].status = "none"
      BY <2>2 DEF IndexFails, GInv, Shape, TaskShape, NewIsFree
    <3> QED  BY <1>2, <3>1, <3>2 DEF GInv, TypeOK, Promises, SearchableIfReady, Exists
  <2>3. Backend = "pgvector" /\ Index(u) => UNCHANGED chunks
    BY DEF Index
  <2> QED  BY <1>2, <2>1, <2>2, <2>3 DEF PreviousFails, Supersede, SupersedeFails, Index, CommitFails, SearchableIfReady
<1>4. ASSUME task'[u].new = task[u].new, task'[u].hit = task[u].hit, task'[u].previous = task[u].previous,
             Supersede(u) \/ Index(u), task'[u].step \in {"indexing", "stored"}
      PROVE  /\ TaskShape'
             /\ task'[u].previous # 0 => Exists(task[u].previous)
  <2>1. TaskShape'
    BY <1>2, <1>4 DEF GInv, Shape, TaskShape, Running, Supersede, Index
  <2>2. task'[u].previous # 0 => Exists(task[u].previous)
    BY <1>4 DEF GInv, Shape, PreviousHasName, Supersede, Index
  <2> QED  BY <2>1, <2>2
<1>5. CASE Supersede(u)
  <2>1. /\ task'[u].new = task[u].new /\ task'[u].hit = task[u].hit
        /\ task'[u].previous = task[u].previous /\ task'[u].step = "indexing"
    BY <1>1, <1>5 DEF Supersede, GInv, TypeOK, Task
  <2> QED  BY <1>1, <1>2, <1>3, <1>4, <1>5, <2>1, TaskMoves DEF Promises
<1>6. CASE Index(u)
  <2>1. /\ task'[u].new = task[u].new /\ task'[u].hit = task[u].hit
        /\ task'[u].previous = task[u].previous /\ task'[u].step = "stored"
    BY <1>1, <1>6 DEF Index, GInv, TypeOK, Task
  <2> QED  BY <1>1, <1>2, <1>3, <1>4, <1>6, <2>1, TaskMoves DEF Promises
<1>7. CASE PreviousFails(u) \/ SupersedeFails(u) \/ IndexFails(u) \/ CommitFails(u)
  <2>1. task'[u].step = "failed" /\ task'[u].new = 0 /\ task'[u].hit = 0 /\ task'[u].previous = 0
    <3>1. CASE SupersedeFails(u)
      <4>1. task[u].hit = 0
        BY <3>1 DEF SupersedeFails, GInv, Shape, TaskShape
      <4> QED  BY <1>1, <3>1, <4>1 DEF SupersedeFails, GInv, TypeOK, Task
    <3>2. CASE IndexFails(u)
      BY <3>2 DEF IndexFails, GInv, TypeOK, NoTask
    <3>3. CASE CommitFails(u)
      <4>1. task[u].new = 0 /\ task[u].previous = 0
        BY <3>3 DEF CommitFails, GInv, Shape, TaskShape
      <4> QED  BY <1>1, <3>3, <4>1 DEF CommitFails, GInv, TypeOK, Task
    <3>4. CASE PreviousFails(u)
      <4>1. task[u].new = 0 /\ task[u].hit = 0 /\ task[u].previous = 0
        BY <3>4 DEF PreviousFails, GInv, Shape, TaskShape
      <4> QED  BY <1>1, <3>4, <4>1 DEF PreviousFails, GInv, TypeOK, Task
    <3> QED  BY <1>7, <3>1, <3>2, <3>3, <3>4
  <2>2. TaskShape'
    BY <1>2, <2>1 DEF GInv, Shape, TaskShape, Running
  <2> QED  BY <1>1, <1>2, <1>3, <2>1, <2>2, TaskMoves DEF Promises
<1> QED  BY <1>5, <1>6, <1>7

\* A job that is over, however it ended, has nothing any more.
LEMMA OverKeeps ==
  ASSUME GInv, NEW u \in Uploads,
         MarkFailed(u) \/ Unlink(u) \/ Ack(u) \/ Crash(u) \/ Cancelled(u)
  PROVE  Shape' /\ Promises'
<1>1. task[u].step # "none"
  BY DEF MarkFailed, Unlink, Ack, Crash, Cancelled, Running
<1>2. /\ UNCHANGED <<request, doc, chunks, listed>>
      /\ \A v \in Uploads \ {u} : task'[v] = task[v] /\ message'[v] = message[v]
  BY DEF GInv, TypeOK, MarkFailed, Unlink, Ack, Crash, Cancelled
<1>3. \A v \in Uploads : job'[v].document = job[v].document
  BY DEF GInv, TypeOK, Job, MarkFailed, Unlink, Ack, Crash, Cancelled
<1>4. task'[u].step \in {"none", "ended", "unlinked"} /\ task'[u].new = 0 /\ task'[u].hit = 0
      /\ task'[u].previous = 0
  <2>1. CASE Unlink(u)
    <3>1. task[u].new = 0 /\ task[u].hit = 0 /\ task[u].previous = 0
      BY <2>1 DEF Unlink, GInv, Shape, TaskShape, Running
    <3> QED  BY <2>1, <3>1 DEF Unlink, GInv, TypeOK, Task
  <2>2. CASE MarkFailed(u)
    BY <2>2 DEF MarkFailed, GInv, TypeOK, NoTask
  <2>3. CASE Ack(u) \/ Crash(u) \/ Cancelled(u)
    BY <2>3 DEF Ack, Crash, Cancelled, GInv, TypeOK, NoTask
  <2> QED  BY <2>1, <2>2, <2>3
<1>5. TaskShape'
  BY <1>2, <1>4 DEF GInv, Shape, TaskShape, Running
<1>6. SearchableIfReady'
  BY <1>2 DEF GInv, Promises, SearchableIfReady, Exists
<1> QED  BY <1>1, <1>2, <1>3, <1>4, <1>5, <1>6, TaskMoves DEF Promises

\* Hiding a version changes neither what it is nor whether it is there.
LEMMA HiddenIsThere ==
  ASSUME TypeOK, NEW u \in Uploads, NEW d \in Ids
  PROVE  /\ Hidden(u)[d].status = doc[d].status /\ Hidden(u)[d].name = doc[d].name
         /\ Hidden(u)[d].content = doc[d].content /\ Hidden(u)[d].of = doc[d].of
         /\ d # task[u].previous => Hidden(u)[d].current = doc[d].current
<1>1. doc[d] \in Document
  BY DEF TypeOK
<1>2. CASE d # task[u].previous
  BY <1>2 DEF Hidden
<1>3. CASE d = task[u].previous /\ doc[d].number # 0
  <2>1. Hidden(u)[d] = [doc[d] EXCEPT !.current = FALSE]
    BY <1>3 DEF Hidden
  <2> QED  BY <1>1, <1>3, <2>1 DEF Document
<1>4. CASE d = task[u].previous /\ doc[d].number = 0
  <2>1. Hidden(u)[d] = [doc[d] EXCEPT !.current = FALSE, !.root = d, !.number = 1]
    BY <1>4 DEF Hidden
  <2> QED  BY <1>1, <1>4, <2>1 DEF Document
<1> QED  BY <1>2, <1>3, <1>4

\* The commit of a duplicate touches the job's row only.
LEMMA CommitDuplicateKeeps ==
  ASSUME GInv, NEW u \in Uploads, Commit(u), task[u].hit # 0
  PROVE  Shape' /\ Promises'
<1>1. /\ UNCHANGED <<request, doc, chunks, message, listed>>
      /\ \A v \in Uploads \ {u} : task'[v] = task[v] /\ job'[v] = job[v]
      /\ Exists(task[u].hit)
  BY DEF GInv, TypeOK, Commit
<1>2. task'[u].step = "ended" /\ task'[u].new = 0 /\ task'[u].hit = 0 /\ task'[u].previous = 0
  BY DEF Commit, GInv, TypeOK, NoTask
<1>3. TaskShape' /\ UploadFirst'
  <2>1. request[u].step # "none"
    BY DEF Commit, GInv, Shape, UploadFirst
  <2> QED  BY <1>1, <1>2, <2>1 DEF GInv, Shape, TaskShape, UploadFirst, Running
<1>4. NewIsFree' /\ HitHasBytes' /\ PreviousHasName' /\ NoneIsBlank' /\ OnlyChromaHasOrphans'
  BY <1>1, <1>2 DEF GInv, Shape, NewIsFree, HitHasBytes, PreviousHasName, NoneIsBlank,
                    OnlyChromaHasOrphans, Exists
<1>5. JobNamesItsBytes'
  <2>1. job'[u].document \in {job[u].document, task[u].hit}
    BY DEF Commit, GInv, TypeOK
  <2>2. doc[task[u].hit].content = request[u].content
    BY <1>1 DEF GInv, Shape, HitHasBytes
  <2> QED  BY <1>1, <2>1, <2>2 DEF GInv, Promises, JobNamesItsBytes, Exists
<1>6. HiddenHasSuccessor' /\ SearchableIfReady'
  BY <1>1 DEF GInv, Promises, HiddenHasSuccessor, SearchableIfReady, Exists
<1> QED  BY <1>3, <1>4, <1>5, <1>6 DEF Shape, Promises

\* The commit of a document: it is there at once with its bytes and its chunks, and is
\* the successor of the version it hides.
LEMMA CommitDocumentKeeps ==
  ASSUME GInv, NEW u \in Uploads, Commit(u), task[u].hit = 0
  PROVE  Shape' /\ Promises'
<1> DEFINE new == task[u].new
           p == task[u].previous
           there(d) == doc'[d].status \in {"READY", "FAILED"}
<1>1. new \in Ids /\ doc[new].status = "none" /\ doc[new].of = 0
      /\ \A v \in Uploads \ {u} : task[v].new # new
  <2>1. new # 0 /\ new \in Id
    BY DEF Commit, GInv, TypeOK, Task, Shape, TaskShape
  <2> QED  BY <2>1, Bounds DEF GInv, Shape, NewIsFree, NoneIsBlank
<1>2. /\ doc'[new].status = "READY" /\ doc'[new].name = request[u].name
      /\ doc'[new].content = request[u].content /\ doc'[new].current /\ doc'[new].of = p
  <2>1. Hidden(u) \in [Ids -> Document]
    BY HiddenTypes DEF GInv
  <2> QED  BY <1>1, <2>1 DEF Commit
<1>3. \A d \in Ids \ {new} :
        /\ doc'[d].status = doc[d].status /\ doc'[d].name = doc[d].name
        /\ doc'[d].content = doc[d].content /\ doc'[d].of = doc[d].of
        /\ d # p => doc'[d].current = doc[d].current
  <2>1. ASSUME NEW d \in Ids \ {new} PROVE doc'[d] = Hidden(u)[d]
    BY <1>1, HiddenTypes DEF Commit, GInv
  <2> QED  BY <2>1, HiddenIsThere DEF GInv
<1>4. /\ UNCHANGED <<request, message, listed>>
      /\ \A v \in Uploads \ {u} : task'[v] = task[v] /\ job'[v] = job[v]
      /\ job'[u].document \in {job[u].document, new}
  BY DEF GInv, TypeOK, Commit
<1>5. task'[u].step = "ended" /\ task'[u].new = 0 /\ task'[u].hit = 0 /\ task'[u].previous = 0
  BY DEF Commit, GInv, TypeOK, NoTask
<1>6. \A d \in Ids \ {new} : there(d) <=> Exists(d)
  BY <1>3 DEF Exists
<1>7. there(new) /\ ~Exists(new)
  BY <1>1, <1>2 DEF Exists
<1>8. TaskShape' /\ UploadFirst'
  <2>1. request[u].step # "none"
    BY DEF Commit, GInv, Shape, UploadFirst
  <2> QED  BY <1>4, <1>5, <2>1 DEF GInv, Shape, TaskShape, UploadFirst, Running
<1>9. \A v \in Uploads : task[v].new \in Id /\ task[v].hit \in Id /\ task[v].previous \in Id
                         /\ job[v].document \in Id
  BY DEF GInv, TypeOK, Task, Job
<1>10. NewIsFree'
  <2> SUFFICES ASSUME NEW v \in Uploads \ {u}, task[v].new # 0
               PROVE  /\ doc'[task[v].new].status = "none"
                      /\ \A w \in Uploads \ {v} : task'[w].new # task[v].new
    BY <1>4, <1>5 DEF NewIsFree
  <2>1. task[v].new \in Ids \ {new}
    BY <1>1, <1>9, Bounds
  <2> QED  BY <1>3, <1>4, <1>5, <2>1 DEF GInv, Shape, NewIsFree
<1>11. HitHasBytes'
  <2> SUFFICES ASSUME NEW v \in Uploads \ {u}, task[v].hit # 0
               PROVE  /\ doc'[task[v].hit].status # "none"
                      /\ there(task[v].hit) => doc'[task[v].hit].content = request[v].content
    BY <1>4, <1>5 DEF HitHasBytes, Exists
  <2>1. task[v].hit \in Ids \ {new}
    BY <1>1, <1>9, Bounds DEF GInv, Shape, HitHasBytes
  <2> QED  BY <1>3, <1>6, <2>1 DEF GInv, Shape, HitHasBytes
<1>12. PreviousHasName'
  <2> SUFFICES ASSUME NEW v \in Uploads \ {u}, task[v].previous # 0
               PROVE  /\ doc'[task[v].previous].status # "none"
                      /\ task[v].step \in {"indexing", "stored"} => there(task[v].previous)
                      /\ there(task[v].previous) => doc'[task[v].previous].name = request[v].name
    BY <1>4, <1>5 DEF PreviousHasName, Exists
  <2>1. task[v].previous \in Ids \ {new}
    BY <1>1, <1>9, Bounds DEF GInv, Shape, PreviousHasName
  <2> QED  BY <1>3, <1>6, <2>1 DEF GInv, Shape, PreviousHasName
<1>13. NoneIsBlank' /\ OnlyChromaHasOrphans'
  BY <1>2, <1>3, <1>4 DEF GInv, Shape, NoneIsBlank, OnlyChromaHasOrphans
<1>14. JobNamesItsBytes'
  <2> SUFFICES ASSUME NEW v \in Uploads, job'[v].document # 0
               PROVE  /\ there(job'[v].document)
                      /\ doc'[job'[v].document].content = request[v].content
    BY <1>4 DEF JobNamesItsBytes, Exists
  <2>1. CASE v = u /\ job'[v].document = new
    BY <1>2, <1>7, <2>1
  <2>2. CASE job'[v].document = job[v].document
    <3>1. Exists(job[v].document) /\ job[v].document \in Ids \ {new}
      BY <1>7, <1>9, <2>2, Bounds DEF GInv, Promises, JobNamesItsBytes
    <3> QED  BY <1>3, <1>6, <2>2, <3>1 DEF GInv, Promises, JobNamesItsBytes
  <2> QED  BY <1>4, <2>1, <2>2
<1>15. HiddenHasSuccessor'
  <2> SUFFICES ASSUME NEW d \in Ids, there(d), ~doc'[d].current
               PROVE  \E e \in Ids : doc'[e].of = d /\ (there(e) => doc'[e].name = doc'[d].name)
    BY DEF HiddenHasSuccessor, Exists
  <2>1. d # new
    BY <1>2
  <2>2. CASE d = p
    <3>1. p # 0 /\ Exists(p)
      BY <1>6, <2>1, <2>2, Bounds
    <3>2. doc[p].name = request[u].name
      BY <3>1 DEF GInv, Shape, PreviousHasName
    <3> QED  BY <1>1, <1>2, <1>3, <2>1, <2>2, <3>2
  <2>3. CASE d # p
    <3>1. Exists(d) /\ ~doc[d].current
      BY <1>3, <1>6, <2>1, <2>3
    <3>2. PICK e \in Ids : doc[e].of = d /\ (Exists(e) => doc[e].name = doc[d].name)
      BY <3>1 DEF GInv, Promises, HiddenHasSuccessor
    <3>3. e # new
      BY <1>1, <3>2, Bounds
    <3> QED  BY <1>3, <1>6, <2>1, <3>2, <3>3
  <2> QED  BY <2>2, <2>3
<1>16. SearchableIfReady'
  <2> SUFFICES ASSUME Backend = "pgvector", NEW d \in Ids
               PROVE  /\ doc'[d].status = "READY" => chunks'[d] = "all"
                      /\ chunks'[d] # "none" => there(d)
    BY DEF SearchableIfReady, Exists
  <2>1. chunks' = [chunks EXCEPT ![new] = "all"]
    BY DEF Commit
  <2>2. CASE d = new
    BY <1>1, <1>7, <2>1, <2>2 DEF GInv, TypeOK
  <2>3. CASE d # new
    <3>1. chunks'[d] = chunks[d]
      BY <2>1, <2>3 DEF GInv, TypeOK
    <3> QED  BY <1>3, <1>6, <2>3, <3>1 DEF GInv, Promises, SearchableIfReady
  <2> QED  BY <2>2, <2>3
<1> QED  BY <1>8, <1>10, <1>11, <1>12, <1>13, <1>14, <1>15, <1>16 DEF Shape, Promises

\* A document that is indexed again stays what and where it is.
LEMMA DocsStay ==
  ASSUME GInv, UNCHANGED <<request, job, message, task, listed>>,
         \A d \in Ids : /\ doc'[d].name = doc[d].name /\ doc'[d].content = doc[d].content
                        /\ doc'[d].of = doc[d].of /\ doc'[d].current = doc[d].current
                        /\ \/ doc'[d].status = doc[d].status
                           \/ Exists(d) /\ doc'[d].status \in {"READY", "FAILED"}
  PROVE  Shape' /\ JobNamesItsBytes' /\ HiddenHasSuccessor'
<1> DEFINE there(d) == doc'[d].status \in {"READY", "FAILED"}
<1>1. \A d \in Ids : /\ there(d) <=> Exists(d)
                     /\ doc'[d].status = "none" <=> doc[d].status = "none"
  BY DEF Exists
<1>2. \A u \in Uploads :
        /\ task[u].new # 0 => task[u].new \in Ids
        /\ task[u].hit # 0 => task[u].hit \in Ids
        /\ task[u].previous # 0 => task[u].previous \in Ids
        /\ job[u].document # 0 => job[u].document \in Ids
  BY Bounds DEF GInv, TypeOK, Task, Job
<1>3. UploadFirst' /\ TaskShape' /\ OnlyChromaHasOrphans'
  BY DEF GInv, Shape, UploadFirst, TaskShape, OnlyChromaHasOrphans, Running
<1>4. NewIsFree' /\ NoneIsBlank'
  BY <1>1, <1>2 DEF GInv, Shape, NewIsFree, NoneIsBlank
<1>5. HitHasBytes'
  <2> SUFFICES ASSUME NEW u \in Uploads, task[u].hit # 0
               PROVE  /\ doc'[task[u].hit].status # "none"
                      /\ there(task[u].hit) => doc'[task[u].hit].content = request[u].content
    BY DEF HitHasBytes, Exists
  <2> QED  BY <1>1, <1>2 DEF GInv, Shape, HitHasBytes
<1>6. PreviousHasName'
  <2> SUFFICES ASSUME NEW u \in Uploads, task[u].previous # 0
               PROVE  /\ doc'[task[u].previous].status # "none"
                      /\ task[u].step \in {"indexing", "stored"} => there(task[u].previous)
                      /\ there(task[u].previous) => doc'[task[u].previous].name = request[u].name
    BY DEF PreviousHasName, Exists
  <2> QED  BY <1>1, <1>2 DEF GInv, Shape, PreviousHasName
<1>7. JobNamesItsBytes'
  <2> SUFFICES ASSUME NEW u \in Uploads, job[u].document # 0
               PROVE  there(job[u].document) /\ doc'[job[u].document].content = request[u].content
    BY DEF JobNamesItsBytes, Exists
  <2> QED  BY <1>1, <1>2 DEF GInv, Promises, JobNamesItsBytes
<1>8. HiddenHasSuccessor'
  <2> SUFFICES ASSUME NEW d \in Ids, there(d), ~doc'[d].current
               PROVE  \E e \in Ids : doc'[e].of = d /\ (there(e) => doc'[e].name = doc'[d].name)
    BY DEF HiddenHasSuccessor, Exists
  <2>1. PICK e \in Ids : doc[e].of = d /\ (Exists(e) => doc[e].name = doc[d].name)
    BY <1>1 DEF GInv, Promises, HiddenHasSuccessor
  <2> QED  BY <1>1, <2>1
<1> QED  BY <1>3, <1>4, <1>5, <1>6, <1>7, <1>8 DEF Shape

\* The sweeps change the status of jobs, delete files, and drop chunks of Chroma's.
LEMMA SweepKeeps == ASSUME GInv, SweepStep PROVE Shape' /\ Promises'
<1>1. UNCHANGED <<request, message, task, doc>>
  BY DEF SweepStep, ListStaleJobs, ListOrphans, FailStaleJob, SweepFile, DropOrphan
<1>2. \A u \in Uploads : job'[u].document = job[u].document
  BY DEF SweepStep, ListStaleJobs, ListOrphans, FailStaleJob, SweepFile, DropOrphan, GInv, TypeOK, Job
<1>3. Backend = "pgvector" => listed'.orphans = {} /\ UNCHANGED chunks
  <2> SUFFICES ASSUME Backend = "pgvector" PROVE listed'.orphans = {} /\ UNCHANGED chunks
    OBVIOUS
  <2>1. listed.orphans = {}
    BY DEF GInv, Shape, OnlyChromaHasOrphans
  <2> QED
    BY <2>1 DEF SweepStep, ListStaleJobs, ListOrphans, FailStaleJob, SweepFile, DropOrphan, GInv, TypeOK
<1>4. UploadFirst' /\ TaskShape' /\ NewIsFree' /\ HitHasBytes' /\ PreviousHasName' /\ NoneIsBlank'
  BY <1>1, <1>2 DEF GInv, Shape, UploadFirst, TaskShape, NewIsFree, HitHasBytes, PreviousHasName,
                    NoneIsBlank, Exists, Running
<1>5. OnlyChromaHasOrphans' /\ SearchableIfReady'
  BY <1>1, <1>3 DEF GInv, Promises, OnlyChromaHasOrphans, SearchableIfReady, Exists
<1>6. JobNamesItsBytes' /\ HiddenHasSuccessor'
  BY <1>1, <1>2 DEF GInv, Promises, JobNamesItsBytes, HiddenHasSuccessor, Exists
<1> QED  BY <1>4, <1>5, <1>6 DEF Shape, Promises

\* Re-indexing: with pgvector a document that ends READY has its chunks again.
LEMMA ReindexKeeps ==
  ASSUME GInv, NEW d \in Ids, QueueReindex(d) \/ TakeStaleDocument(d) \/ ReindexStep(d)
  PROVE  Shape' /\ Promises'
<1>1. UNCHANGED <<request, job, message, task, listed>>
  BY DEF QueueReindex, TakeStaleDocument, ReindexStep, ReindexClears, ReindexStores,
         ReindexCommits, ReindexFails
<1>2. \/ UNCHANGED doc
      \/ Exists(d) /\ \E status \in {"READY", "FAILED"} : doc' = [doc EXCEPT ![d].status = status]
  <2>1. CASE QueueReindex(d) \/ TakeStaleDocument(d) \/ ReindexClears(d) \/ ReindexStores(d)
    BY <2>1 DEF QueueReindex, TakeStaleDocument, ReindexClears, ReindexStores
  <2>2. CASE ReindexCommits(d)
    BY <2>2 DEF ReindexCommits
  <2>3. CASE ReindexFails(d)
    <3>1. CASE FailureKept(d) /\ Exists(d)
      <4>1. doc' = [doc EXCEPT ![d] = [doc[d] EXCEPT !.status = "FAILED"]]
        BY <2>3, <3>1 DEF ReindexFails, FailedDocument
      <4> QED  BY <3>1, <4>1
    <3>2. CASE ~(FailureKept(d) /\ Exists(d))
      BY <2>3, <3>2 DEF ReindexFails, FailedDocument, GInv, TypeOK
    <3> QED  BY <3>1, <3>2
  <2> QED  BY <2>1, <2>2, <2>3 DEF ReindexStep
<1>3. \A e \in Ids : /\ doc'[e].name = doc[e].name /\ doc'[e].content = doc[e].content
                     /\ doc'[e].of = doc[e].of /\ doc'[e].current = doc[e].current
                     /\ \/ doc'[e].status = doc[e].status
                        \/ Exists(e) /\ doc'[e].status \in {"READY", "FAILED"}
  <2>1. CASE UNCHANGED doc
    BY <2>1
  <2>2. ASSUME Exists(d), NEW status \in {"READY", "FAILED"}, doc' = [doc EXCEPT ![d].status = status],
               NEW e \in Ids
        PROVE  /\ doc'[e].name = doc[e].name /\ doc'[e].content = doc[e].content
               /\ doc'[e].of = doc[e].of /\ doc'[e].current = doc[e].current
               /\ \/ doc'[e].status = doc[e].status
                  \/ e = d /\ doc'[e].status = status
    <3>1. doc[e] \in Document
      BY DEF GInv, TypeOK
    <3>2. CASE e # d
      <4>1. doc'[e] = doc[e]
        BY <2>2, <3>2 DEF GInv, TypeOK
      <4> QED  BY <4>1
    <3>3. CASE e = d
      <4>1. doc'[e] = [doc[e] EXCEPT !.status = status]
        BY <2>2, <3>3 DEF GInv, TypeOK
      <4> QED  BY <3>1, <3>3, <4>1 DEF Document
    <3> QED  BY <3>2, <3>3
  <2> QED  BY <1>2, <2>1, <2>2
<1>4. SearchableIfReady'
  <2> SUFFICES ASSUME Backend = "pgvector" PROVE SearchableIfReady'
    BY DEF SearchableIfReady
  <2>1. CASE UNCHANGED <<doc, chunks>>
    BY <2>1 DEF GInv, Promises, SearchableIfReady, Exists
  <2>2. CASE ReindexCommits(d)
    BY <2>2 DEF ReindexCommits, GInv, TypeOK, Document, Promises, SearchableIfReady, Exists
  <2>3. CASE ReindexFails(d)
    <3>1. CASE ~FailureKept(d)
      BY <2>1, <2>3, <3>1 DEF ReindexFails
    <3>2. CASE FailureKept(d)
      <4>1. doc' = [doc EXCEPT ![d] = FailedDocument(d)]
        BY <2>3, <3>2 DEF ReindexFails
      <4>2. chunks'[d] \in {"none", chunks[d]} /\ \A e \in Ids \ {d} : chunks'[e] = chunks[e]
        BY <2>3, <3>2 DEF ReindexFails, GInv, TypeOK
      <4>3. /\ doc'[d].status \in {"READY", "FAILED"} <=> Exists(d)
            /\ doc'[d].status # "READY"
            /\ \A e \in Ids \ {d} : doc'[e] = doc[e]
        BY <4>1 DEF FailedDocument, Exists, GInv, TypeOK, Document
      <4> QED  BY <4>2, <4>3 DEF GInv, Promises, SearchableIfReady, Exists
    <3> QED  BY <3>1, <3>2
  <2> QED
    BY <2>1, <2>2, <2>3 DEF QueueReindex, TakeStaleDocument, ReindexStep, ReindexClears, ReindexStores
<1> QED  BY <1>1, <1>3, <1>4, DocsStay DEF Promises

\* A deleted document takes its name out of the jobs and its chunks out of the store,
\* and nobody who superseded it is waiting to commit.
LEMMA DeleteKeeps == ASSUME GInv, NEW d \in Ids, Delete(d) PROVE Shape' /\ Promises'
<1> DEFINE there(e) == doc'[e].status \in {"READY", "FAILED"}
<1>1. UNCHANGED <<request, message, task, listed>>
  BY DEF Delete
<1>2. doc'[d].status = "deleted" /\ doc'[d].of = doc[d].of /\ Exists(d) /\ ~there(d)
  BY DEF Delete, Exists, NoDocument
<1>3. ASSUME NEW e \in Ids \ {d}
      PROVE  /\ doc'[e].status = doc[e].status /\ doc'[e].name = doc[e].name
             /\ doc'[e].content = doc[e].content /\ doc'[e].of = doc[e].of
             /\ doc'[e].current = doc[e].current
  <2>1. doc[e] \in Document
    BY DEF GInv, TypeOK
  <2>2. doc'[e] = doc[e] \/ doc'[e] = [doc[e] EXCEPT !.root = 0, !.number = 0]
    BY DEF Delete
  <2> QED  BY <2>1, <2>2 DEF Document
<1>4. \A e \in Ids \ {d} : there(e) <=> Exists(e)
  BY <1>3 DEF Exists
<1>5. \A u \in Uploads :
        /\ task[u].new # 0 => task[u].new \in Ids \ {d}
        /\ task[u].hit # 0 => task[u].hit \in Ids
        /\ task[u].previous # 0 => task[u].previous \in Ids
        /\ task[u].step \in {"indexing", "stored"} => task[u].previous # d
  <2>1. \A u \in Uploads : task[u].new # 0 => task[u].new # d
    BY <1>2 DEF GInv, Shape, NewIsFree, Exists
  <2>2. \A u \in Uploads : task[u].step \in {"indexing", "stored"} => task[u].previous # d
    BY DEF Delete, Held, Locked
  <2> QED  BY <2>1, <2>2, Bounds DEF GInv, TypeOK, Task
<1>6. \A u \in Uploads : /\ job'[u].document # d
                         /\ job'[u].document \in {0, job[u].document}
  BY Bounds DEF Delete, GInv, TypeOK, Job
<1>7. UploadFirst' /\ TaskShape' /\ OnlyChromaHasOrphans'
  BY <1>1, <1>6 DEF GInv, Shape, UploadFirst, TaskShape, OnlyChromaHasOrphans, Running
<1>8. NewIsFree' /\ NoneIsBlank'
  BY <1>1, <1>2, <1>3, <1>5 DEF GInv, Shape, NewIsFree, NoneIsBlank
<1>9. HitHasBytes'
  <2> SUFFICES ASSUME NEW u \in Uploads, task[u].hit # 0
               PROVE  /\ doc'[task[u].hit].status # "none"
                      /\ there(task[u].hit) => doc'[task[u].hit].content = request[u].content
    BY <1>1 DEF HitHasBytes, Exists
  <2> QED  BY <1>2, <1>3, <1>4, <1>5 DEF GInv, Shape, HitHasBytes
<1>10. PreviousHasName'
  <2> SUFFICES ASSUME NEW u \in Uploads, task[u].previous # 0
               PROVE  /\ doc'[task[u].previous].status # "none"
                      /\ task[u].step \in {"indexing", "stored"} => there(task[u].previous)
                      /\ there(task[u].previous) => doc'[task[u].previous].name = request[u].name
    BY <1>1 DEF PreviousHasName, Exists
  <2> QED  BY <1>2, <1>3, <1>4, <1>5 DEF GInv, Shape, PreviousHasName
<1>11. JobNamesItsBytes'
  <2> SUFFICES ASSUME NEW u \in Uploads, job'[u].document # 0
               PROVE  /\ there(job'[u].document)
                      /\ doc'[job'[u].document].content = request[u].content
    BY <1>1 DEF JobNamesItsBytes, Exists
  <2>1. job'[u].document = job[u].document /\ job[u].document \in Ids \ {d}
    BY <1>6, Bounds DEF GInv, TypeOK, Job
  <2> QED  BY <1>3, <1>4, <2>1 DEF GInv, Promises, JobNamesItsBytes
<1>12. HiddenHasSuccessor'
  <2> SUFFICES ASSUME NEW e \in Ids, there(e), ~doc'[e].current
               PROVE  \E f \in Ids : doc'[f].of = e /\ (there(f) => doc'[f].name = doc'[e].name)
    BY DEF HiddenHasSuccessor, Exists
  <2>1. e # d /\ Exists(e) /\ ~doc[e].current
    BY <1>2, <1>3, <1>4
  <2>2. PICK f \in Ids : doc[f].of = e /\ (Exists(f) => doc[f].name = doc[e].name)
    BY <2>1 DEF GInv, Promises, HiddenHasSuccessor
  <2> QED  BY <1>2, <1>3, <1>4, <2>1, <2>2
<1>13. SearchableIfReady'
  <2>1. chunks'[d] = "none" /\ \A e \in Ids \ {d} : chunks'[e] = chunks[e]
    BY DEF Delete, GInv, TypeOK
  <2> QED  BY <1>2, <1>3, <2>1 DEF GInv, Promises, SearchableIfReady, Exists
<1> QED  BY <1>7, <1>8, <1>9, <1>10, <1>11, <1>12, <1>13 DEF Shape, Promises

LEMMA NextGInv == ASSUME GInv, [Next]_vars PROVE GInv'
<1>1. TypeOK'
  BY NextTypes DEF GInv
<1>2. Shape' /\ Promises'
  <2>1. ASSUME UNCHANGED vars PROVE Shape' /\ Promises'
    BY <2>1 DEF GInv, vars, Shape, Promises, UploadFirst, TaskShape, NewIsFree, HitHasBytes,
        PreviousHasName, NoneIsBlank, OnlyChromaHasOrphans, JobNamesItsBytes,
        HiddenHasSuccessor, SearchableIfReady, Exists, Running
  <2>2. ASSUME NEW u \in Uploads, JobStep(u) PROVE Shape' /\ Promises'
    BY <2>2, BeginKeeps, LookKeeps, WorkKeeps, OverKeeps, CommitDuplicateKeeps, CommitDocumentKeeps DEF JobStep
  <2>3. ASSUME NEW d \in Ids, QueueReindex(d) \/ TakeStaleDocument(d) \/ ReindexStep(d) \/ Delete(d)
        PROVE  Shape' /\ Promises'
    BY <2>3, ReindexKeeps, DeleteKeeps
  <2> QED  BY <2>1, <2>2, <2>3, RequestKeeps, OverKeeps, SweepKeeps DEF Next
<1> QED  BY <1>1, <1>2 DEF GInv

\* The invariant holds in every state.
LEMMA SpecGInv == Spec => []GInv
<1>1. Init => GInv
  BY InitTypes, InitPromises DEF GInv
<1> QED  BY <1>1, NextGInv, PTL DEF Spec

-----------------------------------------------------------------------------
\* TypeOK holds in every state.
THEOREM TypeCorrect == Spec => []TypeOK
BY SpecGInv, PTL DEF GInv

\* JobNamesItsBytes: a job that names a document names one that exists, with the
\* uploaded bytes.
THEOREM JobsNameTheirBytes == Spec => []JobNamesItsBytes
BY SpecGInv, PTL DEF GInv, Promises

\* HiddenHasSuccessor: a version that exists and is hidden has one that took its place,
\* of its name (or deleted since), whatever fails, is cut off or deleted on the way.
THEOREM NothingIsHiddenAlone == Spec => []HiddenHasSuccessor
BY SpecGInv, PTL DEF GInv, Promises

\* SearchableIfReady: with pgvector a READY document has all its chunks, and only a
\* document that exists has any.  (A FAILED one may have: those it had before.)
THEOREM ReadyIsSearchable == Spec => []SearchableIfReady
BY SpecGInv, PTL DEF GInv, Promises

-----------------------------------------------------------------------------
(* Version numbers.  A job numbers its document when it locks the version   *)
(* before, and keeps the lock until its commit: nobody else numbers a       *)
(* successor of the same version in between.                                *)

\* The job has updated the version its document takes the place of.
Holds(u) == task[u].step \in {"indexing", "stored"} /\ task[u].previous # 0

\* One job at a time.
OneHolder ==
  \A u, v \in Uploads : Holds(u) /\ Holds(v) /\ task[u].previous = task[v].previous => u = v

\* A version number is that of a document that is there.
NumberedIsThere == \A d \in Ids : doc[d].number # 0 => Exists(d)

\* The first version of a lineage is its root.
FirstIsRoot == \A d \in Ids : doc[d].number = 1 => doc[d].root = d

\* The number a job has chosen is nobody's among the successors of that version.
NumberIsNew ==
  \A u \in Uploads :
    /\ task[u].number # 1
    /\ Holds(u) =>
         /\ task[u].number # 0
         /\ \A d \in Ids : doc[d].of = task[u].previous /\ doc[d].root = task[u].root
                             => doc[d].number # task[u].number

Numbering == OneHolder /\ NumberedIsThere /\ FirstIsRoot /\ NumberIsNew /\ SiblingsNumbered

\* Documents that keep their place, or lose their number, disturb no numbering as long as
\* the jobs hold what they held, or less.
LEMMA NumberingStays ==
  ASSUME GInv, Numbering,
         \A u \in Uploads :
           /\ task'[u].number \in {0, task[u].number}
           /\ Holds(u)' => /\ Holds(u) /\ task'[u].number = task[u].number
                           /\ task'[u].root = task[u].root /\ task'[u].previous = task[u].previous,
         \A d \in Ids :
           \/ doc'[d].number = 0
           \/ /\ doc'[d].number = doc[d].number /\ doc'[d].root = doc[d].root
              /\ doc'[d].of = doc[d].of /\ (Exists(d) => Exists(d)')
  PROVE  Numbering'
<1>1. OneHolder'
  BY DEF Numbering, OneHolder, Holds
<1>2. NumberedIsThere' /\ FirstIsRoot'
  BY DEF Numbering, NumberedIsThere, FirstIsRoot
<1>3. NumberIsNew'
  <2> SUFFICES ASSUME NEW u \in Uploads
               PROVE  /\ task'[u].number # 1
                      /\ Holds(u)' => /\ task'[u].number # 0
                                      /\ \A d \in Ids : doc'[d].of = task'[u].previous
                                                        /\ doc'[d].root = task'[u].root
                                                          => doc'[d].number # task'[u].number
    BY DEF NumberIsNew
  <2> QED  BY DEF Numbering, NumberIsNew
<1>4. SiblingsNumbered'
  BY DEF Numbering, SiblingsNumbered
<1> QED  BY <1>1, <1>2, <1>3, <1>4 DEF Numbering

\* A job that locks a version takes the number after the highest of its lineage.
LEMMA SupersedeNumbers ==
  ASSUME GInv, Numbering, NEW u \in Uploads, Supersede(u), task[u].previous # 0
  PROVE  Numbering'
<1> DEFINE p == task[u].previous
<1>1. UNCHANGED doc /\ task[u] \in Task /\ p \in Ids /\ doc \in [Ids -> Document]
  BY Bounds DEF Supersede, GInv, TypeOK, Task
<1>2. PICK n \in Numbers(p) :
        /\ \A k \in Numbers(p) : k <= n
        /\ task' = [task EXCEPT ![u].step = "indexing", ![u].root = Root(p), ![u].number = n + 1]
  BY DEF Supersede
<1>3. Numbers(p) \subseteq Nat /\ n \in Nat /\ n >= 1
  <2>1. \A d \in Ids : doc[d].number \in Nat
    BY <1>1 DEF Document
  <2>2. Numbers(p) \subseteq Nat /\ 1 \in Numbers(p)
    BY <2>1 DEF Numbers
  <2> QED  BY <1>2, <2>2
<1>4. /\ task'[u].step = "indexing" /\ task'[u].root = Root(p) /\ task'[u].number = n + 1
      /\ task'[u].previous = p
      /\ \A v \in Uploads \ {u} : task'[v] = task[v]
  <2> DEFINE root == Root(p)
             number == n + 1
  <2>1. task' = [task EXCEPT ![u].step = "indexing", ![u].root = root, ![u].number = number]
    BY <1>2
  <2> HIDE DEF root, number
  <2>2. /\ task'[u].step = "indexing" /\ task'[u].root = root /\ task'[u].number = number
        /\ task'[u].previous = p
        /\ \A v \in Uploads \ {u} : task'[v] = task[v]
    BY <1>1, <2>1 DEF GInv, TypeOK, Task
  <2> QED  BY <2>2 DEF root, number
<1>5. \A v \in Uploads \ {u} : (Holds(v)' <=> Holds(v)) /\ (Holds(v) => task[v].previous # p)
  BY <1>4 DEF Holds, Supersede, Locked
<1>6. OneHolder'
  BY <1>4, <1>5 DEF Numbering, OneHolder, Holds
<1>7. NumberedIsThere' /\ FirstIsRoot' /\ SiblingsNumbered'
  BY <1>1 DEF Numbering, NumberedIsThere, FirstIsRoot, SiblingsNumbered, Exists
<1>8. ASSUME NEW d \in Ids, doc[d].root = Root(p) PROVE doc[d].number # n + 1
  <2>1. CASE doc[d].number = 0
    BY <1>3, <2>1
  <2>2. CASE doc[d].number # 0
    <3>1. doc[d].number \in Numbers(p)
      BY <1>8, <2>2 DEF Numbers, Numbering, NumberedIsThere
    <3> QED  BY <1>2, <1>3, <3>1
  <2> QED  BY <2>1, <2>2
<1>9. NumberIsNew'
  <2> SUFFICES ASSUME NEW v \in Uploads
               PROVE  /\ task'[v].number # 1
                      /\ Holds(v)' => /\ task'[v].number # 0
                                      /\ \A d \in Ids : doc[d].of = task'[v].previous
                                                        /\ doc[d].root = task'[v].root
                                                          => doc[d].number # task'[v].number
    BY <1>1 DEF NumberIsNew
  <2>1. CASE v = u
    BY <1>3, <1>4, <1>8, <2>1
  <2>2. CASE v # u
    BY <1>4, <1>5, <2>2 DEF Numbering, NumberIsNew
  <2> QED  BY <2>1, <2>2
<1> QED  BY <1>6, <1>7, <1>9 DEF Numbering

\* So it is for every other step of a job but the commit of a document.
LEMMA JobNumbers ==
  ASSUME GInv, Numbering, NEW u \in Uploads, JobStep(u) \/ Crash(u) \/ Cancelled(u),
         ~(Commit(u) /\ task[u].hit = 0)
  PROVE  Numbering'
<1>1. task[u] \in Task /\ task \in [Uploads -> Task]
  BY DEF GInv, TypeOK
<1>2. CASE Supersede(u) /\ task[u].previous # 0
  BY <1>2, SupersedeNumbers
<1>3. ASSUME UNCHANGED doc,
             \A v \in Uploads \ {u} : task'[v] = task[v],
             task'[u].number \in {0, task[u].number},
             Holds(u)' => /\ Holds(u) /\ task'[u].number = task[u].number
                          /\ task'[u].root = task[u].root /\ task'[u].previous = task[u].previous
      PROVE  Numbering'
  <2>1. \A v \in Uploads :
           /\ task'[v].number \in {0, task[v].number}
           /\ Holds(v)' => /\ Holds(v) /\ task'[v].number = task[v].number
                           /\ task'[v].root = task[v].root /\ task'[v].previous = task[v].previous
    BY <1>3 DEF Holds
  <2>2. \A d \in Ids : doc'[d].number = doc[d].number /\ doc'[d].root = doc[d].root
                       /\ doc'[d].of = doc[d].of /\ (Exists(d) => Exists(d)')
    BY <1>3 DEF Exists
  <2> QED  BY <2>1, <2>2, NumberingStays
<1>4. CASE LookupFails(u) \/ LookupDuplicate(u) \/ LookupUnique(u)
  <2>1. PICK local \in Task :
           Begin(u, local) /\ local.number = 0 /\ local.previous = 0
    BY <1>4, Begins
  <2>2. /\ task'[u].step = local.step /\ task'[u].number = 0 /\ task'[u].previous = local.previous
        /\ UNCHANGED doc /\ \A v \in Uploads \ {u} : task'[v] = task[v]
    <3> DEFINE row == job[u].status # "none"
    <3>1. task' = [task EXCEPT ![u] = [local EXCEPT !.row = row]] /\ UNCHANGED doc
      BY <2>1 DEF Begin
    <3> HIDE DEF row
    <3> QED  BY <1>1, <2>1, <3>1 DEF Task
  <2>3. ~Holds(u)'
    BY <2>1, <2>2 DEF Holds
  <2> QED  BY <1>3, <2>2, <2>3
<1>5. CASE Supersede(u) /\ task[u].previous = 0
  <2>1. task' = [task EXCEPT ![u].step = "indexing"] /\ UNCHANGED doc
    BY <1>5 DEF Supersede
  <2>2. task'[u].number = task[u].number /\ task'[u].previous = 0
        /\ \A v \in Uploads \ {u} : task'[v] = task[v]
    BY <1>1, <1>5, <2>1 DEF Task
  <2>3. ~Holds(u)'
    BY <2>2 DEF Holds
  <2> QED  BY <1>3, <2>1, <2>2, <2>3
<1>6. CASE PreviousFails(u) \/ SupersedeFails(u) \/ CommitFails(u) \/ Unlink(u)
  <2>1. /\ task'[u].number = task[u].number /\ task'[u].step \in {"failed", "unlinked"}
        /\ UNCHANGED doc /\ \A v \in Uploads \ {u} : task'[v] = task[v]
    BY <1>1, <1>6 DEF PreviousFails, SupersedeFails, CommitFails, Unlink, Task
  <2>2. ~Holds(u)'
    BY <2>1 DEF Holds
  <2> QED  BY <1>3, <2>1, <2>2
<1>7. CASE Index(u)
  <2>1. /\ task'[u].number = task[u].number /\ task'[u].root = task[u].root
        /\ task'[u].previous = task[u].previous /\ task[u].step = "indexing"
        /\ UNCHANGED doc /\ \A v \in Uploads \ {u} : task'[v] = task[v]
    BY <1>1, <1>7 DEF Index, Task
  <2>2. Holds(u)' => Holds(u)
    BY <2>1 DEF Holds
  <2> QED  BY <1>3, <2>1, <2>2
<1>8. CASE \/ IndexFails(u) \/ MarkFailed(u) \/ Ack(u) \/ Crash(u) \/ Cancelled(u)
           \/ Commit(u) /\ task[u].hit # 0
  <2>1. /\ task'[u].number = 0 /\ task'[u].previous = 0
        /\ UNCHANGED doc /\ \A v \in Uploads \ {u} : task'[v] = task[v]
    BY <1>1, <1>8 DEF IndexFails, MarkFailed, Ack, Crash, Cancelled, Commit, NoTask
  <2>2. ~Holds(u)'
    BY <2>1 DEF Holds
  <2> QED  BY <1>3, <2>1, <2>2
<1>9. CASE LookupPrevious(u)
  <2>1. PICK p \in Id, new \in Fresh :
          task' = [task EXCEPT ![u].step = "looked", ![u].new = new, ![u].previous = p]
    BY <1>9 DEF LookupPrevious
  <2>2. /\ task'[u].number = task[u].number /\ task'[u].step = "looked"
        /\ UNCHANGED doc /\ \A v \in Uploads \ {u} : task'[v] = task[v]
    BY <1>1, <1>9, <2>1 DEF LookupPrevious, Task
  <2>3. ~Holds(u)'
    BY <2>2 DEF Holds
  <2> QED  BY <1>3, <2>2, <2>3
<1> QED  BY <1>2, <1>4, <1>5, <1>6, <1>7, <1>8, <1>9 DEF JobStep

\* The commit of a document gives it the number its job has chosen; the version it hides
\* becomes the first of a lineage if it had no number.
LEMMA CommitNumbers ==
  ASSUME GInv, Numbering, NEW u \in Uploads, Commit(u), task[u].hit = 0
  PROVE  Numbering'
<1> DEFINE new == task[u].new
           p == task[u].previous
<1>1. task[u] \in Task /\ task \in [Uploads -> Task] /\ doc \in [Ids -> Document]
      /\ Hidden(u) \in [Ids -> Document]
  BY HiddenTypes DEF GInv, TypeOK
<1>2. new \in Ids /\ doc[new].status = "none" /\ p # new
  <2>1. new # 0 /\ new \in Id
    BY <1>1 DEF Commit, Task, GInv, Shape, TaskShape
  <2>2. doc[new].status = "none"
    BY <2>1 DEF GInv, Shape, NewIsFree
  <2>3. p # 0 => Exists(p)
    BY DEF Commit, GInv, Shape, PreviousHasName
  <2> QED  BY <2>1, <2>2, <2>3, Bounds DEF Exists
<1>3. /\ doc'[new].status = "READY" /\ doc'[new].root = task[u].root
      /\ doc'[new].number = task[u].number /\ doc'[new].of = p
  BY <1>1, <1>2 DEF Commit
<1>4. \A d \in Ids \ {new} : doc'[d] = Hidden(u)[d]
  BY <1>1, <1>2 DEF Commit
<1>5. \A d \in Ids \ {new} : doc'[d].of = doc[d].of /\ (Exists(d) <=> Exists(d)')
  BY <1>4, HiddenIsThere DEF GInv, Exists
<1>6. \A d \in Ids \ {new} :
        \/ doc'[d].number = doc[d].number /\ doc'[d].root = doc[d].root
        \/ d = p /\ doc'[d].number = 1 /\ doc'[d].root = d
  <2> SUFFICES ASSUME NEW d \in Ids \ {new}
               PROVE  \/ Hidden(u)[d].number = doc[d].number /\ Hidden(u)[d].root = doc[d].root
                      \/ d = p /\ Hidden(u)[d].number = 1 /\ Hidden(u)[d].root = d
    BY <1>4
  <2>1. doc[d] \in Document
    BY <1>1
  <2>2. CASE d # p
    BY <2>2 DEF Hidden
  <2>3. CASE d = p /\ doc[d].number # 0
    <3>1. Hidden(u)[d] = [doc[d] EXCEPT !.current = FALSE]
      BY <2>3 DEF Hidden
    <3> QED  BY <2>1, <3>1 DEF Document
  <2>4. CASE d = p /\ doc[d].number = 0
    <3>1. Hidden(u)[d] = [doc[d] EXCEPT !.current = FALSE, !.root = d, !.number = 1]
      BY <2>4 DEF Hidden
    <3> QED  BY <2>1, <2>4, <3>1 DEF Document
  <2> QED  BY <2>2, <2>3, <2>4
<1>7. /\ task'[u].number = 0 /\ task'[u].step = "ended"
      /\ \A v \in Uploads \ {u} : task'[v] = task[v]
  BY <1>1 DEF Commit, NoTask
<1>8. p # 0 => Holds(u) /\ Exists(p) /\ p \in Ids \ {new}
  BY <1>1, <1>2, Bounds DEF Commit, Holds, Task, GInv, Shape, PreviousHasName
<1>9. \A v \in Uploads : Holds(v)' => v # u /\ Holds(v) /\ task[v].previous # p
  <2> SUFFICES ASSUME NEW v \in Uploads, Holds(v)' PROVE v # u /\ Holds(v) /\ task[v].previous # p
    OBVIOUS
  <2>1. v # u /\ Holds(v)
    BY <1>7 DEF Holds
  <2> QED  BY <1>8, <2>1 DEF Numbering, OneHolder, Holds
<1>10. OneHolder'
  BY <1>7, <1>9 DEF Numbering, OneHolder
<1>11. NumberedIsThere'
  <2> SUFFICES ASSUME NEW d \in Ids, doc'[d].number # 0 PROVE Exists(d)'
    BY DEF NumberedIsThere
  <2>1. CASE d = new
    BY <1>3, <2>1 DEF Exists
  <2>2. CASE d # new
    <3>1. Exists(d)
      BY <1>6, <1>8, <2>2, Bounds DEF Numbering, NumberedIsThere
    <3> QED  BY <1>5, <2>2, <3>1
  <2> QED  BY <2>1, <2>2
<1>12. FirstIsRoot'
  <2> SUFFICES ASSUME NEW d \in Ids, doc'[d].number = 1 PROVE doc'[d].root = d
    BY DEF FirstIsRoot
  <2>1. d # new
    BY <1>3 DEF Numbering, NumberIsNew
  <2> QED  BY <1>6, <2>1 DEF Numbering, FirstIsRoot
<1>13. NumberIsNew'
  <2>1. \A v \in Uploads : task'[v].number # 1
    BY <1>7 DEF Numbering, NumberIsNew
  <2>2. ASSUME NEW v \in Uploads, Holds(v)', NEW d \in Ids,
               doc'[d].of = task'[v].previous, doc'[d].root = task'[v].root
        PROVE  task'[v].number # 0 /\ doc'[d].number # task'[v].number
    <3>1. task'[v] = task[v] /\ Holds(v) /\ task[v].previous # p
      BY <1>7, <1>9, <2>2
    <3>2. d # new /\ doc[d].of = task[v].previous
      BY <1>3, <1>5, <2>2, <3>1
    <3>3. task[v].number # 0 /\ task[v].number # 1
      BY <3>1 DEF Numbering, NumberIsNew
    <3> QED  BY <1>6, <2>2, <3>1, <3>2, <3>3 DEF Numbering, NumberIsNew
  <2>3. \A v \in Uploads : Holds(v)' => task'[v].number # 0
    BY <1>7, <1>9 DEF Numbering, NumberIsNew
  <2> QED  BY <2>1, <2>2, <2>3 DEF NumberIsNew
<1>14. SiblingsNumbered'
  <2> SUFFICES ASSUME NEW d \in Ids, NEW e \in Ids,
                      /\ d # e /\ doc'[d].of = doc'[e].of /\ doc'[d].of # 0
                      /\ doc'[d].root = doc'[e].root /\ doc'[d].number # 0
               PROVE  doc'[d].number # doc'[e].number
    BY Zenon DEF SiblingsNumbered
  <2>1. ASSUME NEW a \in Ids \ {new}, doc'[a].of = p, doc'[a].root = task[u].root, p # 0
        PROVE  doc'[a].number # task[u].number
    <3>1. Holds(u) /\ task[u].number # 1
      BY <1>8, <2>1 DEF Numbering, NumberIsNew
    <3>2. doc[a].of = p
      BY <1>5, <2>1
    <3> QED  BY <1>6, <2>1, <3>1, <3>2 DEF Numbering, NumberIsNew
  <2>2. CASE d = new \/ e = new
    BY <1>3, <2>1, <2>2
  <2>3. CASE d # new /\ e # new
    <3> SUFFICES ASSUME doc'[d].number = doc'[e].number PROVE FALSE
      OBVIOUS
    <3>1. CASE doc'[d].number = 1
      BY <1>12, <3>1 DEF FirstIsRoot
    <3>2. CASE doc'[d].number # 1
      <4>1. /\ doc[d].of = doc[e].of /\ doc[d].of # 0 /\ doc[d].root = doc[e].root
            /\ doc[d].number # 0 /\ doc[d].number = doc[e].number
        BY <1>5, <1>6, <2>3, <3>2
      <4> QED  BY <4>1 DEF Numbering, SiblingsNumbered
    <3> QED  BY <3>1, <3>2
  <2> QED  BY <2>2, <2>3
<1> QED  BY <1>10, <1>11, <1>12, <1>13, <1>14 DEF Numbering

\* Requests and sweeps touch no document, re-indexing its status only, and a deletion
\* takes numbers away.
LEMMA OtherNumbers ==
  ASSUME GInv, Numbering,
         \/ \E u \in Uploads : RequestStep(u)
         \/ \E d \in Ids : QueueReindex(d) \/ TakeStaleDocument(d) \/ ReindexStep(d) \/ Delete(d)
         \/ SweepStep
         \/ UNCHANGED vars
  PROVE  Numbering'
<1>1. UNCHANGED task
  BY DEF RequestStep, Upload, UploadCommits, UploadAborts, QueueReindex, TakeStaleDocument,
         ReindexStep, ReindexClears, ReindexStores, ReindexCommits, ReindexFails, Delete,
         SweepStep, ListStaleJobs, ListOrphans, FailStaleJob, SweepFile, DropOrphan, vars
<1>2. \A d \in Ids :
        \/ doc'[d].number = 0
        \/ /\ doc'[d].number = doc[d].number /\ doc'[d].root = doc[d].root
           /\ doc'[d].of = doc[d].of /\ (Exists(d) => Exists(d)')
  <2>1. CASE UNCHANGED doc
    BY <2>1 DEF Exists
  <2>2. ASSUME NEW d \in Ids, Delete(d), NEW e \in Ids
        PROVE  \/ doc'[e].number = 0
               \/ /\ doc'[e].number = doc[e].number /\ doc'[e].root = doc[e].root
                  /\ doc'[e].of = doc[e].of /\ (Exists(e) => Exists(e)')
    <3>1. doc[e] \in Document
      BY DEF GInv, TypeOK
    <3>2. doc'[e] \in {[NoDocument EXCEPT !.status = "deleted", !.of = doc[d].of],
                       [doc[e] EXCEPT !.root = 0, !.number = 0], doc[e]}
      BY <2>2 DEF Delete
    <3> QED  BY <3>1, <3>2 DEF NoDocument, Document, Exists
  <2>3. ASSUME NEW d \in Ids, ReindexCommits(d) \/ ReindexFails(d), NEW e \in Ids
        PROVE  /\ doc'[e].number = doc[e].number /\ doc'[e].root = doc[e].root
               /\ doc'[e].of = doc[e].of /\ (Exists(e) => Exists(e)')
    <3>1. doc[e] \in Document /\ doc \in [Ids -> Document]
      BY DEF GInv, TypeOK
    <3>2. doc'[e] \in {[doc[e] EXCEPT !.status = "READY"], [doc[e] EXCEPT !.status = "FAILED"], doc[e]}
      BY <2>3, <3>1 DEF ReindexCommits, ReindexFails, FailedDocument
    <3> QED  BY <3>1, <3>2 DEF Document, Exists
  <2> QED
    BY <2>1, <2>2, <2>3
       DEF RequestStep, Upload, UploadCommits, UploadAborts, QueueReindex, TakeStaleDocument,
           ReindexStep, ReindexClears, ReindexStores, SweepStep, ListStaleJobs, ListOrphans,
           FailStaleJob, SweepFile, DropOrphan, vars
<1>3. \A u \in Uploads :
        /\ task'[u].number \in {0, task[u].number}
        /\ Holds(u)' => /\ Holds(u) /\ task'[u].number = task[u].number
                        /\ task'[u].root = task[u].root /\ task'[u].previous = task[u].previous
  BY <1>1 DEF Holds
<1> QED  BY <1>2, <1>3, NumberingStays

LEMMA InitNumbers == ASSUME Init PROVE Numbering
<1>1. \A u \in Uploads : task[u].step = "none" /\ task[u].number = 0
  BY DEF Init, NoTask
<1>2. \A d \in Ids : doc[d].number = 0
  BY DEF Init, NoDocument, First
<1>3. \A u \in Uploads : ~Holds(u)
  BY <1>1 DEF Holds
<1>4. OneHolder /\ NumberIsNew
  BY <1>1, <1>3 DEF OneHolder, NumberIsNew
<1>5. NumberedIsThere /\ FirstIsRoot /\ SiblingsNumbered
  BY <1>2 DEF NumberedIsThere, FirstIsRoot, SiblingsNumbered
<1> QED  BY <1>4, <1>5 DEF Numbering

LEMMA NextNumbers == ASSUME GInv, Numbering, [Next]_vars PROVE Numbering'
BY JobNumbers, CommitNumbers, OtherNumbers DEF Next, JobStep

\* SiblingsNumbered: two documents that took the place of the same version never have
\* the same number in one lineage, whichever of the two jobs read, locked or committed
\* first.  (Of two versions that took the place of different ones it says nothing.)
THEOREM SiblingsAreNumbered == Spec => []SiblingsNumbered
<1>1. Init => Numbering
  BY InitNumbers
<1> QED  BY <1>1, NextNumbers, SpecGInv, PTL DEF Spec, Numbering
=============================================================================
