# Verification of the knowledge platform

This directory specifies the stateful core of the repository's backend in TLA+:
the modules, the TLC configurations that check them on small instances, and
TLAPS proofs of the main results for every instance.  `PROJECT.json` maps each
definition to the source lines it stands for and lists the runs, the hazards and
the theorems.

Run `tlc -config <cfg> <module>` for a run of `PROJECT.json`, and `tlapm
<module>` for a module of proofs.

## 1. The system

A multi-tenant retrieval-augmented chat platform: a FastAPI process serves chat,
documents and administration; an arq worker executes jobs from Redis and cron
jobs; both use Postgres through SQLAlchemy and a vector store; LangGraph runs the
agent; connectors mirror external sources; a Next.js frontend calls the API.

| Component | State it keeps | Operations | Hard because |
|---|---|---|---|
| Sync runs (`connectors/scheduling.py`, `sync.py`, source router) | one `SourceSyncRun` row per run, the `KnowledgeSource` row (status, next_sync_at, sync_state) | create, dispatch, begin, flush, finish, cancel, pause, resume, notify, drain, schedule, reap | several processes write the same two rows without locks; jobs and messages get lost |
| Source documents (`connectors/sync.py`) | `ExternalDocumentRecord` and `Document` per item | process, touch, fail, archive, sweep, retry, delete source | items are processed concurrently, the source changes meanwhile, two engines can overlap |
| Access from sources (`connectors/access.py`) | allowed roles and users of a document, rules, identity mappings | derive, apply, remap, permission sync | permission reads fail; what was applied is remembered apart from the access itself |
| Connectors (`connectors/http.py`, `sources/*`) | requests under way, breaker and last request per host; a crawl's queue | request, retry, redirect, throttle; discover | one lock and a few slots for all hosts; links loop, pages repeat |
| Ingestion and versions (`knowledge/pipelines/ingestion.py`, `services/reindex.py`) | documents, versions, chunks | ingest, supersede, re-index, delete, sweep orphans | a database and a vector store that may have no common transaction |
| Upload jobs (`api/routers/documents.py`, `worker/jobs.py`) | `UploadJob` row, scratch file, queue message | upload, run, re-run, sweep | the file, the row and the message are written separately |
| Chat turns (`application/services/chat_service.py`, `graph/manager.py`) | conversation status, messages, graph checkpoint | chat, stream, resume, recover, expire | a crashed turn is replayed; a slow turn looks crashed |
| Agent graph (`graph/*`, `planner/*`, `conversation/*`) | the channels of a conversation's thread | plan, load, retrieve, research, call the model, approve or reject tools | every turn starts from the channels the last one left |
| Circuit breaker (`infrastructure/resilience/circuit_breaker.py`) | state, failure count, opened_at | check, record success or failure | concurrent calls report long after the state has changed |
| Embedding rate limiter (`knowledge/embeddings/rate_limiter.py`) | calls and tokens of the last minute | acquire | callers sleep for a computed time and compete when they wake |
| Settings, flags, profiles (`application/services/*_service.py`) | four tables, a cache per process | get, set, invalidate | lookups and writes cross; processes share no cache |
| Prompts, default profile (`repositories/prompt_version.py`, `model_profile.py`) | which row of several is in use | publish, make default | two requests read the siblings before either commits |
| Memory, audit, retention, middleware, credentials, frontend | rows, counters | read, append, delete by date | little or no interleaving |

What makes each of them correct:

* Sync runs: at most one run of a source is active; every run ends and every due
  source is served; a notified change is not lost; a pause holds.
* Source documents: retrieval holds what the source holds; nothing present is
  archived, nothing gone stays; a failed item is tried again.
* Access: a document of an item with explicit readers is open to them as they are
  mapped now, and to nobody else; a change of the readers arrives.
* Connectors: requests to a host keep their distance and end; a crawl asks for
  every page within its depth.
* Ingestion: a READY document has its chunks; a version is hidden only once its
  successor is there; versions made at once get numbers of their own.
* Upload jobs: a job ends and names a document with the bytes that were uploaded.
* Chat turns: a saved question gets one answer, through crashes, approvals and
  recovery; a conversation does not stay PROCESSING.
* Agent graph: the thread holds every message once and in an order a model
  accepts; what is saved with an answer is of its own turn.
* Circuit breaker: fails fast while the provider is to be left alone, and closes
  once it answers.  Rate limiter: no window sees more than the budget.
* Settings: who changed a value sees it; everyone comes to see it.
* Prompts and profiles: one row is in use, whatever overlaps.

They interact through Postgres rows (the run row is both the lock of a source
and the record of its run), Redis messages (`source_sync_job`,
`ingest_document_job`, cron) and direct calls: the sync engine calls the
ingestion pipeline, which writes documents, versions and vectors; chat reads what
ingestion wrote, filtered by the access the connectors derived.

Every transaction is READ COMMITTED.  In a worker each `request_scoped_session`
block is a transaction of its own; in an API request nested blocks share the
request's session, and a block's end commits it.  An UPDATE carries the columns
whose value changed since the row was read.  Hence the rule all modules follow: a
block that reads and later writes is two actions, one that locks the row with
FOR UPDATE is one, and a crash may come between any two.

## 2. Modules

Each component is a module of its own.  The larger ones have an `MC` module
(symmetry for TLC); components that share no state are put together in `Services`.
`...Proofs` modules hold the proofs.  `Env`, where a module has it, names the events of the
environment that a run lets happen, so that each question is asked with what
matters to it.  Definitions marked as mutants are plausible bugs of the definition
they stand before; substituting one must violate a property.

### SyncRuns: the runs of one source

Rows are `status`, `cancelReq`, `fresh` (`updated_at` within STALE_RUN_MINUTES) and
`targets`; `source` is the source row; `queue` the job messages.  Every request, the
scheduler and each engine has a `pc`.  `CreateCheck`/`CreateInsert`,
`BeginRead`/`BeginCommit` and `FinishRead`/`FinishCommit` are the read and the write of
one unlocked transaction; `FinishedSource` writes only changed columns, as the ORM
does.  A notification goes through three transactions: `SourceWebhook` (the route's look
at the status), `NotifiedCheck` (create_run's, which drops the ids of a paused source)
and `CreateInsert`.  A run with targets that the connector cannot look up falls back to
a listing, and may then move the cursor.  `Crash` and `LoseMessage` end an actor or a
message between two transactions.  `OneActiveRun` is the abstract specification: one
slot that runs take in turn, to which the rows are mapped by `Slot`.

### SourceDocuments: what a run does to the items

`world` is the source (external: it edits, removes and returns items), `record`
the `ExternalDocumentRecord` and `doc` the current document of each item, `engine`
the locals of `_sync`, `task` the concurrent `_process_one` calls.  A run is a
full listing with the removal sweep, a change feed from `cursor`, or the targets
of a notification.  `Fetch` reads the record, `Commit` ends the item's
transaction, `Fail` is the second transaction that records a failure, also of an
unchanged item whose permissions cannot be read.  Listings, feeds and lookups may
raise; when the set of libraries differs from the cursor's, a run with a cursor lists
everything and starts a new cursor.
`MaxFailures` and `BulkFloor` stand for MAX_DOC_FAILURES and the sweep's floor of
20.  `handled` is a history variable.  Which engine may start is `SyncRuns`'
business: here one, or two when the reaper has failed a live run ("overlap").

### ChatTurn: the turns of one conversation

`marker` is `Conversation.status`, `old` whether `processing_started_at` is past
the recovery job's cutoff, `thread` the last checkpoint of the LangGraph thread,
`messages` what is saved of each question.  `Ask` is the commit before the graph
runs (chat and stream), `GraphInvoke`, `GraphResume` and `GraphNode` are
checkpoints of the external graph, `FinalizeOrPause` the commit after it;
`RecoverRead`/`RecoverCheck`/`RecoverContinue` (the job looks at the thread, and the
graph reads it again when it goes on) and `ExpireRead`/`ExpireThread`/`ExpireCommit` are the
worker's jobs.  `Fail` is a crash, a disconnect or an exception at any point: each
leaves the committed marker, since the handlers only roll back.  LangGraph writes
a checkpoint per node before it goes on; a tool's approval is stored with the
thread, so a run that dies after it continues with the tool.  `irregular` is a
history variable: two actors were at work at once, or an approval came unasked.

### Ingestion: uploads, their jobs, and versions of documents

`request` is the upload request, `job` its `UploadJob` row, `file` the scratch
file, `message` the queue's entry, `task` the transaction of the job that runs,
`doc` the `Document` rows with their `DocumentVersion`, `chunks` what a search
finds of each, `reindex` a re-index under way, `listed` what the two sweeps have
read.  The request hands the job to the queue before it commits, so the job may
find no row.  A job is `LookupDuplicate`, `LookupUnique`, `LookupPrevious` (reads), `Supersede`
(the lock on the previous version's row, and the number), `Index` (load, embed,
store), `Commit`, `Unlink`, `Ack`; each has its failure, `Crash` ends a worker
anywhere and the queue runs the job again, `Cancelled` is a restart or a timeout.
With pgvector `chunks` change at the commit, with Chroma at once and for good.
A requested re-index has a transaction of its own, the weekly one shares the
transaction of the whole sweep and catches failures inside it; one runs at a time
(section 5).  `SweepFile`,
`ListStaleJobs`/`FailStaleJob` and `ListOrphans`/`DropOrphan` are cron jobs.

### SourceAccess: who may read a synced document

`acl` is what the source says (external), `item` the record's fingerprint, the
rule rows and the document's access, `task` a `_process_one` (`ReadSucceeds` or
`ReadFails`, `Derive`, `Commit` or `Fails`), `remap` a mapping request, which
writes its mapping and re-derives the documents that have rules.  A permission
that could not be read is unknown, not empty.  After `MaxFailures` failures at one
version an item is quarantined: it is skipped, permissions included, until its content
changes or an administrator retries it (`RetryDocument`).  `kept` is a history variable:
the ingestion of a failed item with the content it had is skipped, and its document
keeps the access it has.

### AgentGraph: the nodes and the channels

`thread` is the last checkpoint: `messages`, the channels that outlive a turn
(`rewritten`, `multi`, `retrieval`, `usage`), the nodes to run `next` and the
`decision` on pending tool calls; `rows` the saved messages, `run` who is at work.
A channel holds the number of the turn it is about, which is all the properties
ask.  `Node` is one node's return and the checkpoint; a node that returns the whole
state hands every channel to its reducer (`Whole`).  `AddMessages` is LangGraph's
reducer: it knows a message by its id, and a loaded message has its row's id while
one the graph made has the model's.  Input starts the graph over, whatever the thread
had still to run: `chat()` does not ask, so a question may discard a pending approval, or
a tool step that raised or died (`dropped`, a history field, has the calls it leaves
without results).  An approval may be sent again (`Resume`), when nothing waits for it.
Of the model's calls those of `LLMNode` and `WriterNode` report usage; the query analysis
and the research subgraph (one call for each sub-question) do not, and are counted in
`unmetered` (history).  `ChatTurn` says who runs the graph when; here one actor is at
work at a time.

### The services

* `CircuitBreaker`: one breaker and its calls, of one attempt (`LLMChatService`) or
  several (`RetryTransport`).  `quiet` is a history variable.
* `RateLimiter`: `acquire` as `Grant`, or `Sleep` for the time it computes and
  `Wake`.  `granted` and `alone` are history.  A call may be larger than the budget.
* `ConnectorHttp`: `request` with its slot, the throttle's lock, attempts, hops and
  the per-host breaker.  `sent` is history.  The end of the throttle and the hand-over to
  the HTTP client are one step, since there is no await between them; what connecting
  takes after that is the client's.
* `WebCrawl`: `discover` as a queue; `page` is chosen when a URL is requested.
  `Within` is the reference definition of a page's distance: what so many links reach,
  by recursion over their number, over the links of the pages found.
* `SettingsCache`: the four services, which differ in when they commit and when they
  drop the entry.  `excused` is history: rows a lookup had read before.
* `SelectedRow`: the read, the unselecting and the commit of a request on prompts
  (no index) or profiles (a unique index).  `alone` is history.

In `Services` a behaviour is one of one component, named by `component`; `s1` to `s7`
are that component's variables, and fairness is required of its steps only.

## 3. Runs

| Run | Question | Instance | Result |
|---|---|---|---|
| `runs_safety` | do the rows act as a lock, and where may a notified id be lost? | 2 rows, 1 request at a time, 1 id, drains 1 deep, the reaper, cancels, a first run that writes `sync_state`; 1.4 M states | `AtMostOneActive`, `TakesTurns` (refinement of `OneActiveRun`) and `NotificationKept` hold |
| `runs_live` | does every run end, and every due source get served? | no requests; scheduler, failures, pauses, 1 crash or lost message; 0.14 M states | `ActiveRunsEnd`, `DueIsServed`, `PauseHolds` hold |
| `documents_safety` | what may the sweep archive, what does the cursor pass? | 2 items, 2 contents, 3 versions, a change feed whose libraries change, removals, returns, failures (also of permissions), failing listings, cancel; 2.9 M states | `SweepArchivesOnlyGone`, `ReportedIsHandled` hold |
| `documents_records` | does a record describe its document, and does every item get indexed? | 1 item, 4 versions, removals, returns, failures, notifications, retries, deletion, skipped pages, lost failures; 0.17 M states | `RecordDescribesDocument` and, once disturbances end, `ItemsAreMirrored` hold |
| `access` | does access follow the rules, and do readers arrive? | 1 item, 1 principal, 2 members, 2 failures to the quarantine; failing reads and tasks, content, settings and mappings change, retries; 0.26 M states | `AccessFollowsRules`, `AclArrives` hold |
| `ingestion_versions` | what do overlapping uploads of one file, deletions and failures leave? | 2 uploads, 1 name, 2 contents, 3 documents, pgvector, re-indexing, perhaps two current documents from an earlier race; 0.89 M states | `JobNamesItsBytes`, `HiddenHasSuccessor`, `SiblingsNumbered`, `SearchableIfReady` hold |
| `ingestion_live` | does a job end, and do orphans go? | 1 upload, 2 documents, 2 tries, Chroma, crashes, restarts, lost requests, all sweeps; 76 k states | `JobsEnd`, `OrphansGo` hold |
| `ingestion_current` | "the one Document row with is_current=True" | 2 uploads, no faults | violated: two first uploads of a name overlap |
| `chat_safety` | is a turn answered once, found, and cleared? | 1 request at a time, recovery and expiry jobs, 2 questions, 3 faults; 0.13 M states | `AnsweredOnce`, `PendingWorkIsMarked`, `StuckIsCleared` hold |
| `chat_lost` | "instead of quietly vanishing" | 1 crash | violated: a finished graph's answer is never saved |
| `agent_once` | "the conversation history ... silently doubles" | 2 turns, no faults | violated: a saved answer comes back under another id |
| `services` | the services above, and the agent's graph | see Bounds; 0.22 M states | `FailsFast`, `WithinBudget`, `WaitIsExact`, `EveryPageInReach`, `ReadsOwnWrite`, `UsageIsOfTheTurn`, `CallsAreAnswered`, `Spaced`, `DefaultStays`, `LonePublishDecides`, `Closes`, `RequestsEnd`, `EventuallyFresh` hold |

**Bounds.**  Names are used again: a finished run row, an idle engine and a
finished request give their name to later ones, so two rows stand for any number
of runs in time, and one request for any sequence of them.  Two active rows are
what the index must prevent, so two rows suffice for it.  One run of each kind
(a survivor and one to be archived) needs two items; with fewer than 20
known the limit on a sweep (half of them) does not apply, so it may archive as much
as the code ever lets it.  One item is enough for a record and its document: a
notification archives it, and a sweep where its failure was lost (a sweep after an
empty listing is held back).  Three versions let an item change while a run lists
it and again while it is processed; the fourth lets one go, return and fail.
Two questions let a turn die before its first checkpoint with another turn's
finished thread in place.  Three faults let a recovery fail twice.
Two requests on one conversation at the same time are in the theorems about
`ChatTurn` but not in its run, where the recovery and the expiry job overlap with
turns; an instance with two requests and one fault (0.84 M states)
holds too.

Two uploads of one name are what a version race takes; the third document lets one of
them be deleted, or be there before.  Two that are there before, left by the race of
`ingestion_current` ("twins"), let the second lookup of a job find two rows and fail.
More than one try matters to the end of a job only, and is in `ingestion_live`.  With
one principal and two members a mapping is made, changed and removed; a second principal
adds nothing the rules tell apart, since they are a set.  In `services`: breakers have 2
calls, a threshold of 2 and a timeout of 2 ticks, so one call may report while the other
probes; the limiter 3 callers, 2 calls or 3 tokens per 3 ticks, so that several events
must leave for one call, and calls of up to 4 tokens, one more than ever fit; the HTTP
client 2 requests, 2 hosts, 2 slots, 1 retry and 1 redirect, so that both wait for one
lock; the crawl 6 URLs, depth 2 and one link a page, enough for a loop, an alias and two
ways to a page; the caches 2 processes, 2 writers and entries of 2 ticks; 3 rows and 2
requests; the graph 2 turns of up to 3 model calls and 2 sub-questions and a history of
3 messages, so that the oldest one is cut off.  With 2 slots and 2 requests a slot is
always free: what they compete for is the throttle's lock.  In `access` two failures at
one version quarantine an item, so a task may fail once and be repeated.  `MaxRows`
bounds the answers an approval sent again may save.

Two runs leave out what would make them too large, and the theorems cover it: pauses, a
moving cursor and crashes for `NotificationKept` (`NotificationsKept` has no assumption
about them), and deletion of the source in `documents_safety` (it is in
`documents_records`, where no listing raises and only the deletion cancels a run).

**Fairness.**  The worker takes jobs and continues them, an API request
continues, cron jobs fire, time passes; models, tools and connectors answer or
time out.  A crashed job is started again by the queue.  Strong fairness is assumed
where the environment must relent now and then: a source that is synced again and
again answers sometimes (`AclArrives`), a breaker's calls keep coming and not every
one is abandoned (`Closes`).  `ItemsAreMirrored` names what must come to an end
(`Disturbance`) in its hypothesis.  Nothing else is assumed of people, of what a connector
answers, or of crashes, whose number is bounded.  `StuckIsCleared` needs that
bound: a user who repeats a failing approval for ever keeps the marker young for
ever.

**Deadlock** checking is off, except in `access`: the system may be idle, and
bounded.

**Observed without a run of their own.**  Each was met as a counterexample, by
adding the event named or checking the property named, which its module defines.

* Runs: `_finish` overwrites ids added to `sync_state` since its read, when its cursor
  moved or it writes the first `sync_state` (`Lost`).  A row closed between `_begin`'s read and
  commit runs (`ClosedRunLeftAlone`).  The reaper fails a run that is alive but has
  not written for STALE_RUN_MINUTES.  A run that fails writes error or disconnected over
  a pause (sync.py:673-674), and the next success makes the source active; so does the
  success of a run that had read the source as failed.  `PauseHolds` names both, and that
  no other step ends a pause.  An id noticed while `_finish` commits waits for the next
  run.
* Items: `SweepArchivesOnlyGone` is false with "overlap", "unrecorded" or "skips":
  two live engines overwrite each other's marks, an unrecorded failure and an
  erroneous page both look like a removal.  An item that returns and fails once
  stays archived (`IndexedIsRetrievable`); tasks in flight restore a document of a
  deleted source (`DeletedSourceStaysArchived`); the failed run stores the cursor
  (`FailedItemReplayed`).  A full pass whose sweep was held back stores the feed's
  cursor, and later runs never sweep; a cancel after the listing is followed by the
  sweep.
* Access: an item in quarantine gets no permission sync (sync.py:386-390), so a reader
  taken from it keeps its access until the item changes or is retried; a document that is
  kept has the new rules and the old access (`AclArrives` excepts both).
  `ExplicitIsRestricted` is false when the permissions become unreadable:
  the source's default applies, also where it is open.  With "race" a task commits
  access of mappings that have changed.  New defaults of a source reach documents
  only when their items change.
* Uploads: a job that outruns its request's commit finds no row, ingests, and its row is
  failed by the sweep an hour later; a cancelled job deletes its file, and its re-run
  fails; the sweep may fail a job that has succeeded, and delete the file of one that is
  queued.  A superseded version's `superseded_at` is set only on the row made for a
  first version; one that has its row already keeps it empty.  A document whose weekly
  re-index fails at the download is FAILED and keeps its chunks.  Deleting the first
  version of a document removes the version rows of its successors, deleting the current
  one leaves none current. On Chroma a re-index leaves a document without chunks when it
  fails half-way, and the orphan sweep may drop chunks of a document about to be
  committed.
* Chat: `AnsweredOnce` is false in irregular histories: a turn slower than five
  minutes is re-driven while it works, a repeated approval saves the finished answer
  again.
* Agent: after a failed query analysis the previous turn's rewritten query is
  searched for (`SearchesTheQuestion`); a multi-part turn that is not streamed saves
  the retrieval id of an earlier turn (`RetrievalIsOwn`); a question asked over a
  pending approval, or a retry after an approved tool step raised or died and before the
  recovery job came, leaves tool calls without results for good (`dropped`).
  chat_service.py:305-309 has the usage be "the graph-level accumulated total across
  however many LLM calls this turn made": it lacks the calls of the query analysis and of
  the research subgraph (`UsageIsComplete`).
* Services: a half-open breaker admits any number of probes, and a success that
  comes late closes an open circuit.  An embedding call larger than the whole budget
  sleeps for ever (the comment at rate_limiter.py:93 has the provider reject it), and
  large ones can starve behind small ones.  Requests go out while their circuit is
  open.  A flag's entry is dropped before its change is
  committed, a new flag's and a profile's never; a settings update that equals a
  stale entry is skipped.  Overlapping publishes leave two published versions, or
  later none (`OnePublished`).
* Versions: the numbers of siblings may be equal when the first version of their
  lineage is deleted (`delete_document`): each then starts a lineage of its own, which
  is why `SiblingsNumbered` speaks of one lineage.

## 4. Proofs

All theorems are for every value of the constants under the modules' `ASSUME`s,
which only separate names and bound types; what a theorem assumes beyond them is
in its statement and below.

* `SyncRunsProofs`: `TypesAlways`, `OneActiveAlways`, `RunsTakeTurns` (refinement
  of `OneActiveRun`), `PauseIsKept`, `NotificationsKept`.  The invariant is `TypeOK /\
  RowHeld /\ DepthLeft /\ AtMostOneActive`.  `AtMostOneActive` alone is not inductive:
  `CancelWrite` and `FinishCommit` write a row by the name an actor holds (`RowHeld`:
  that name is a row), and a drain begins a run one level deeper (`DepthLeft`: a level
  is left).  `PauseIsKept` needs the
  types only.  For `NotificationsKept`, `NInv` adds that nobody works for a row that is
  not there (a name that is used again starts clean) and that ids are in hand only on
  their way to a row.  It assumes nothing of the constants: the four ways in which an id
  is lost are in the property (`Lost`).  That the run which names an id imports it is not
  said: a run reads its targets once and may fail.
* `SourceDocumentsProofs`: `TypesHold`, `SweepSound`, `RecordsAreTrue`,
  `CursorIsHonest`.  `SweepSound` assumes `Sound`: the runs do not overlap, recording a
  failure succeeds, listings skip nothing; each of the three is a counterexample
  otherwise.  The invariant `DInv` follows the argument of the code: one engine runs
  (`OneEngine`) and its tasks are of its listing (`TasksOfTheRun`); a listed item whose
  task is done carries the run's mark (`ListedIsSeen`, which needs `ReadAgrees`: a
  commit writes back the mark it read); a complete listing contains all that was there
  throughout (`ListedAll`); and only a complete full listing is swept
  (`SweepsComplete`).  So what the sweep finds unmarked was not there throughout.
  `RecordsAreTrue` assumes only that runs do not overlap (`Alone`): two engines lose
  each other's updates.  `RInv` says that what a task read of its record is what the
  record still says, or the source was deleted under it, and that document and record
  come together.  `CursorIsHonest` assumes `Complete`: overlapping runs store a stale
  cursor, a skipped page is dropped before the cursor is stored, and a failure that
  could not be recorded leaves nothing behind.  `FInv` keeps the feed's versions in
  order: cursor and handled versions are behind the source's, and what was changed
  between cursor, start of the run and listing is in the listing, or in a run that will
  not store its position.
* `ChatTurnProofs`: `TurnTypes`, `NoSecondAnswer`, `InterruptedIsMarked`.  As long
  as the history is regular, one actor is at work (`OneAtWork`), what its place
  says of the thread is true (`PlacesAgree`), an interrupted thread is about an
  unanswered question (`PendingUnanswered`), an approval is shown only for a paused
  thread (`ShownIsPaused`), and the marker covers a turn from its first commit
  until the thread stops (`Marked`).  `RecoverCheck` is the interesting step: it
  continues a thread only when it is pending, hence unanswered.
* `IngestionProofs`: `TypeCorrect`, `JobsNameTheirBytes`, `NothingIsHiddenAlone`,
  `ReadyIsSearchable`, `SiblingsAreNumbered`, without assumptions.  The invariant is
  `TypeOK /\ Shape /\ Promises`: `Shape` says what a transaction's step tells of its
  rows (an id that is being made is no document yet and nobody else's, the duplicate a
  task found has the uploaded bytes while it exists, the version it supersedes has the
  uploaded name and stays once locked, a row never inserted is blank, only Chroma's
  sweep lists orphans), `Promises` are the three properties.  `Numbering` is the
  argument for the lock: one job at a time holds the version it supersedes
  (`OneHolder`), and the number it chose then is no sibling's, since siblings are
  numbered in the lineage the number was counted in (`NumberIsNew`). `ReadyIsSearchable`
  is about pgvector, says nothing of a FAILED document, and `SiblingsAreNumbered`
  compares only versions that took the place of the same one.
* `SourceAccessProofs`: `TypeCorrect`, and `AccessIsDerived` without "race".  `AInv`
  adds what tasks and requests in between know: a derived access is of the present
  mappings while no request runs, and a request's reading is still true when it
  commits.  The property is about documents whose fingerprint is of known permissions that
  name readers, and excepts the access of the kept ones.
* `CircuitBreakerProofs`: `TypeCorrect`, `CallsFailFast`, under `BreakerAssumption`.
  `BInv` relates the circuit's age to the last failure's, in each state.
* `SelectedRowProofs`: `TypeCorrect`, `DefaultIsReplaced`, `LonePublishIsLive`, for
  any non-empty set of rows.  `OneDefault` is what the index gives; `AloneKnows`
  that a transaction nobody overlaps has found exactly the siblings that are
  selected.  Both are action properties: the invariant is used in each step.
* `ServicesProofs`: the properties of the components of `Services`, as properties of
  `ServicesSpec`.  `ServicesInv` is the invariant of whichever component runs; those
  of the circuit breaker and the selected rows come from the modules above.
  * HTTP client: `RequestsAreSpaced`, from `HInv`, of the moments requests are handed to
    the HTTP client: only one request sleeps, with the lock, and what is left of its
    sleep makes up for the time since the host's last request.
  * Settings cache: `WritersSeeTheirWrites`, from `CInv`: no cached or looked-up row is
    older than what a finished writer of the process wrote, but the excused ones.
  * Rate limiter: `CallsStayWithinBudget` and `SleepsAreExact`, from `LInv`.  The
    events are in order of age and, but for the expired ones, just what was let through
    in the last window; the sums of the oldest events grow (by induction over the
    list), so there is a first event to wait for, and it alone decides how long.
  * Crawl: `PagesAreReached`, from `WInv`: the queue is in order of distance and spans
    at most two, a URL is queued once, what was found is at its distance, and what was
    queued is all that is in reach of the pages found so far (`ReachIsQueued`).  That
    later links never shorten the way to a page found before is an induction over the
    distance (`ReachLocal` and its lemmas).
  * Agent's graph: `AnswersCostTheirTurn`, from `GInv`: the channel has the number of
    the present turn's calls of `LLMNode` and `WriterNode` in the thread from its first
    checkpoint on (`UsageIsCounted`), which needs that the saved history brings back no
    call and that no message is of a later turn.  `ModelSeesResults` adds `AllSettled`: a
    call has its results behind it, or is the last message and its tool step pending, or
    was discarded in just that place.  Neither assumes anything of the events.
  * `EveryTypeIsKept`: the types of all seven.

Each step lemma has one case per action.  What is recursive in the modules proved
about is a recursive function, not an operator, and where an argument goes by
induction (the sums of a list, the distance in a site, the merging of messages) it is
over numbers: `SmallestMember` (a set of numbers has a smallest one, from the library's
`WFMin`) and `Induct` need no operator as parameter.

Every invariant and action property of the passing runs is thus proved as well.
Model-checked only are the liveness properties (`ActiveRunsEnd`, `DueIsServed`,
`ItemsAreMirrored`, `AclArrives`, `StuckIsCleared`, `JobsEnd`, `OrphansGo`, `Closes`,
`RequestsEnd`, `EventuallyFresh`), out of the prover's reach.

## 5. Not modelled, and why

* Parsing, ranking, prompting and cryptography: loaders and splitters, retrieval and
  reranking, the tools, credentials, webhook signatures.  They keep no state that
  steps of several actors could disturb.
* The other connectors: each pages through one API.  `SyncRuns` and
  `SourceDocuments` see what they list, return or raise.
* Long-term memory: the summary of a conversation is one atomic upsert, facts are
  inserted one by one; summaries of two turns may arrive in either order.
* Sessions and the unit of work are not a module, but their transaction boundaries
  are what splits every handler into actions.
* CRUD of conversations, agents, knowledge bases and prompts; audit (append only);
  retention (delete by date); the API middleware (per request; its rate limit is one
  atomic counter); the frontend.
* Within the modelled components: a user's own deletion of a synced document, a
  PATCH of a document's access, progress counters, citations, the creation of a
  conversation, a second re-index of a document while one runs (the code admits it; both
  use one scratch file, and with pgvector the second waits for the first's row locks and
  fails), several conversations in one recovery job (where one's rollback can
  undo another's cleared pause), deleting or un-setting a default profile.

## 6. Plan

1. A composition of `SyncRuns` and `SourceDocuments` that replaces "overlap" by the
   runs the rows admit, and of `ChatTurn` and `AgentGraph`.
2. Abstract specifications beside `OneActiveRun`: a job that ends once (`Ingestion`), a
   turn that is answered at most once (`ChatTurn`), and that they are implemented.
3. Memory: facts and the summary under crashes and turns that finish out of order.
