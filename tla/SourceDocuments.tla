-------------------------- MODULE SourceDocuments --------------------------
(***************************************************************************)
(* The items of one knowledge source and the documents made of them: what  *)
(* SyncEngine._sync lists, ingests, marks as seen, records as failed, and  *)
(* archives, while the source itself changes.  (connectors/sync.py, the    *)
(* delete and retry handlers of the knowledge source router.)              *)
(*                                                                         *)
(* An engine lists items in one of three ways: a full listing, followed by *)
(* the removal sweep; a change feed read from a cursor; or the targets a   *)
(* notification named.  Each item is processed in a transaction of its own *)
(* that reads the record, talks to the source for a while, and commits, so *)
(* it is two actions (Fetch, Commit); a failure is recorded in a second    *)
(* transaction.  Which engines run is module SyncRuns: here one at a time, *)
(* or two when the reaper has failed a live one ("overlap").               *)
(***************************************************************************)
EXTENDS Naturals, FiniteSets

CONSTANTS
  Items,        \* external ids
  Contents,     \* what an item may contain (its hash)
  Engines,      \* runs of SyncEngine; a name is used again once it is idle
  MaxVersion,   \* bound on the changes of an item
  MaxFailures,  \* MAX_DOC_FAILURES (5 in the code)
  BulkFloor,    \* 20 in _sweep_removed
  Nothing,      \* no content, no engine
  Env           \* which events may happen: a subset of Events

\* remove, return: the source drops an item, or lists it again as it was
\* fail: fetching or ingesting an item raises; unrecorded: so does recording that
\* listfail: the listing raises; skips: a listed page answers an error (web.py)
\* feed: the connector has a change feed; libraries: the set of feeds differs from
\* the one the cursor is of; targets: notifications name items
\* overlap: a second engine starts while one runs
Events == {"remove", "return", "fail", "unrecorded", "listfail", "skips", "cancel",
           "feed", "libraries", "targets", "overlap", "retry", "delete"}

ASSUME DocumentsAssumption ==
  /\ Nothing \notin Engines \union Contents
  /\ MaxVersion \in Nat \ {0} /\ MaxFailures \in Nat \ {0} /\ BulkFloor \in Nat
  /\ Env \subseteq Events

VARIABLES
  world,      \* the items as the source has them
  record,     \* ExternalDocumentRecord of each item
  doc,        \* the current Document of each item
  engine,     \* locals of _sync
  task,       \* each engine's _process_one of each item
  cursor,     \* the change feed's position in sync_state: what it has reported
  deletion,   \* delete_source: "no", "cancelled" (its first commit), "done"
  handled     \* history: the version of each item an engine last put on record, skipped
              \* or archived

vars == <<world, record, doc, engine, task, cursor, deletion, handled>>

Version == 0..MaxVersion      \* 0 is None: forgotten by retry_document, or no row
Content == Contents \union {Nothing}
Item == [here: BOOLEAN, content: Contents, version: Version]
Seen == [here: BOOLEAN, version: Version]     \* what a listing says of an item
Record == [status: {"none", "indexed", "updated", "failed", "deleted"},
           version: Version, hash: Content, document: BOOLEAN,
           failures: 0..MaxFailures, seen: Engines \union {Nothing}]
Document == [status: {"none", "READY", "ARCHIVED"}, content: Content]
Task == [step: {"none", "listed", "fetched"}, version: Version, content: Content,
         read: Record]
Engine == [phase: {"idle", "listing", "gather", "sweep", "finish"},
           kind: {"full", "feed", "targets"}, todo: SUBSET Items, listed: SUBSET Items,
           start: [Items -> Seen], base: SUBSET Items, complete: BOOLEAN,
           cancel: BOOLEAN, failed: BOOLEAN, raised: BOOLEAN]

NoRecord == [status |-> "none", version |-> 0, hash |-> Nothing, document |-> FALSE,
             failures |-> 0, seen |-> Nothing]
NoTask == [step |-> "none", version |-> 0, content |-> Nothing, read |-> NoRecord]
IdleEngine == [phase |-> "idle", kind |-> "full", todo |-> {}, listed |-> {},
               start |-> [i \in Items |-> [here |-> FALSE, version |-> 0]], base |-> {},
               complete |-> FALSE, cancel |-> FALSE, failed |-> FALSE, raised |-> FALSE]
\* A cursor that was never stored.
NoCursor == [i \in Items |-> 0]

Init ==
  /\ \E c \in Contents : world = [i \in Items |-> [here |-> TRUE, content |-> c, version |-> 1]]
  /\ record = [i \in Items |-> NoRecord]
  /\ doc = [i \in Items |-> [status |-> "none", content |-> Nothing]]
  /\ engine = [e \in Engines |-> IdleEngine]
  /\ task = [e \in Engines |-> [i \in Items |-> NoTask]]
  /\ cursor = NoCursor
  /\ deletion = "no"
  /\ handled = NoCursor

-----------------------------------------------------------------------------
(* The source.                                                             *)

Here == {i \in Items : world[i].here}

\* A change of item i; a listing under way need not show what changed under it.
Change(i, here, content) ==
  /\ world[i].version < MaxVersion
  /\ world' = [world EXCEPT ![i] =
                 [here |-> here, content |-> content, version |-> @.version + 1]]
  /\ engine' = [e \in Engines |-> [engine[e] EXCEPT !.base = IF here THEN @ ELSE @ \ {i}]]
  /\ UNCHANGED <<record, doc, task, cursor, deletion, handled>>

Edit(i) ==
  /\ world[i].here
  /\ \E c \in Contents \ {world[i].content} : Change(i, TRUE, c)
Remove(i) == "remove" \in Env /\ world[i].here /\ Change(i, FALSE, world[i].content)
Return(i) == "return" \in Env /\ ~world[i].here /\ Change(i, TRUE, world[i].content)

-----------------------------------------------------------------------------
(* _sync: the listing.                                                     *)

HasCursor == cursor # NoCursor

\* What get_changes reports: the items changed since the cursor, as they are now.
Changed == {i \in Items : world[i].version > cursor[i]}

\* A feed's listing is the source as it was at the start; no other listing needs it.
Shown(i) == [here |-> world[i].here, version |-> world[i].version]

Start(e, kind, todo) ==
  /\ engine[e].phase = "idle"
  /\ deletion = "no"
  /\ "overlap" \in Env \/ \A f \in Engines : engine[f].phase = "idle"
  /\ engine' = [engine EXCEPT ![e] =
       [IdleEngine EXCEPT !.phase = "listing", !.kind = kind, !.todo = todo, !.base = Here,
          !.start = IF "feed" \in Env THEN [i \in Items |-> Shown(i)] ELSE @]]
  \* the new run has an id of its own: nothing was seen by it
  /\ record' = [i \in Items |-> IF record[i].seen = e THEN [record[i] EXCEPT !.seen = Nothing]
                                                       ELSE record[i]]
  /\ UNCHANGED <<world, doc, task, cursor, deletion, handled>>

\* get_changes has nothing to go by without a cursor, or when it is of other libraries.
StartSync(e) ==
  \/ "feed" \in Env /\ HasCursor /\ Start(e, "feed", Changed)
  \/ ("feed" \in Env /\ HasCursor => "libraries" \in Env) /\ Start(e, "full", Items)
StartTargets(e) ==
  "targets" \in Env /\ \E ids \in SUBSET Items \ {{}} : Start(e, "targets", ids)

\* submit: a task of its own processes the item.
Submit(e, i, version) ==
  /\ task' = [task EXCEPT ![e][i] = [NoTask EXCEPT !.step = "listed", !.version = version]]
  /\ engine' = [engine EXCEPT ![e].listed = @ \union {i}]

\* The history is only kept for a source with a feed.
Noted(items, version) ==
  [i \in Items |-> IF "feed" \in Env /\ i \in items THEN version[i] ELSE handled[i]]

\* Mutant of Archived: the record is given the document's status.
ArchivedAsDocument(i) == [record[i] EXCEPT !.status = "ARCHIVED"]

\* _archive: the document leaves retrieval, the record is "deleted".
Archived(i) == [record[i] EXCEPT !.status = "deleted"]

\* Mutant of ArchivedDocument: only the record is marked.
DocumentKept(i) == doc[i]

ArchivedDocument(i) ==
  [doc[i] EXCEPT !.status = IF record[i].document /\ @ # "none" THEN "ARCHIVED" ELSE @]

\* _archive_by_external_id
ArchiveByExternalId(e, i, version) ==
  /\ IF record[i].status \in {"none", "deleted"}
     THEN UNCHANGED <<record, doc>>
     ELSE /\ record' = [record EXCEPT ![i] = Archived(i)]
          /\ doc' = [doc EXCEPT ![i] = ArchivedDocument(i)]
  /\ engine' = [engine EXCEPT ![e].listed = @ \union {i}]
  /\ handled' = Noted({i}, [j \in Items |-> version])
  /\ UNCHANGED task

Listing(e, i) ==
  engine[e].phase = "listing" /\ i \in engine[e].todo \ engine[e].listed

\* The listing yields an item (full, targets), or the feed's next change.
ListItem(e, i) ==
  /\ Listing(e, i)
  /\ LET shown == IF engine[e].kind = "feed" THEN engine[e].start[i] ELSE Shown(i)
     IN \/ /\ shown.here
           /\ Submit(e, i, shown.version)
           /\ UNCHANGED <<record, doc, handled>>
        \/ /\ ~shown.here
           /\ engine[e].kind # "full"
           /\ ArchiveByExternalId(e, i, shown.version)
  /\ UNCHANGED <<world, cursor, deletion>>

\* A page that answers an error is dropped from the listing.
SkipItem(e, i) ==
  /\ "skips" \in Env
  /\ Listing(e, i) /\ engine[e].kind = "full"
  /\ engine' = [engine EXCEPT ![e].todo = @ \ {i}]
  /\ UNCHANGED <<world, record, doc, task, cursor, deletion, handled>>

\* get_external_document raises: counted, no record is touched.
LookupFails(e, i) ==
  /\ "fail" \in Env
  /\ Listing(e, i) /\ engine[e].kind = "targets"
  /\ engine' = [engine EXCEPT ![e].todo = @ \ {i}, ![e].failed = TRUE]
  /\ UNCHANGED <<world, record, doc, task, cursor, deletion, handled>>

\* The listing is over: every item that was there all along (or the feed named)
\* has been listed; one that came or went meanwhile, perhaps.  The cancel flag is
\* read afresh.
Exhausted(e) ==
  engine[e].todo \intersect (IF engine[e].kind = "full" THEN engine[e].base ELSE Items)
    \subseteq engine[e].listed

ListEnds(e) ==
  /\ engine[e].phase = "listing"
  /\ Exhausted(e)
  /\ engine' = [engine EXCEPT ![e].phase = "gather", ![e].complete = ~engine[e].cancel]
  /\ UNCHANGED <<world, record, doc, task, cursor, deletion, handled>>

\* The loop sees the cancel flag (at most two seconds late) and stops.
ListBreak(e) ==
  /\ engine[e].phase = "listing"
  /\ engine[e].cancel /\ engine[e].kind # "targets"
  /\ engine' = [engine EXCEPT ![e].phase = "gather"]
  /\ UNCHANGED <<world, record, doc, task, cursor, deletion, handled>>

\* A listing raises anywhere, get_changes before its first change is looked at.
ListRaises(e) ==
  /\ "listfail" \in Env
  /\ engine[e].phase = "listing"
  /\ \/ engine[e].kind = "full"
     \/ engine[e].kind = "feed" /\ engine[e].listed = {}
  /\ engine' = [engine EXCEPT ![e].phase = "gather", ![e].raised = TRUE]
  /\ UNCHANGED <<world, record, doc, task, cursor, deletion, handled>>

-----------------------------------------------------------------------------
(* _process_one                                                            *)

\* Skipped without a fetch: the version is the one on record.
Unchanged(r, version) ==
  /\ r.document /\ r.status \in {"indexed", "updated"}
  /\ version # 0 /\ r.version = version

\* Mutant of Quarantined: the item's version is not compared.
QuarantinedForEver(r, version) == r.status = "failed" /\ r.failures >= MaxFailures

\* Left alone after MAX_DOC_FAILURES failures, until the item changes.
Quarantined(r, version) ==
  r.status = "failed" /\ r.failures >= MaxFailures /\ r.version = version

\* A record column keeps what another transaction wrote if this one assigns the
\* value it read.
Written(new, read, now) == [c \in DOMAIN now |-> IF new[c] # read[c] THEN new[c] ELSE now[c]]

Processed(e, i) ==
  /\ task' = [task EXCEPT ![e][i] = NoTask]
  /\ handled' = Noted({i}, [j \in Items |-> task[e][i].version])

\* The record is read, and an unchanged or quarantined item is marked as seen.
MarkSeen(e, i) ==
  /\ task[e][i].step = "listed"
  /\ \/ Unchanged(record[i], task[e][i].version)
     \/ Quarantined(record[i], task[e][i].version)
  /\ record' = [record EXCEPT ![i].seen = e]
  /\ Processed(e, i)
  /\ UNCHANGED <<world, doc, engine, cursor, deletion>>

\* The record is read and the item fetched, as it is by now.
Fetch(e, i) ==
  /\ task[e][i].step = "listed"
  /\ ~Unchanged(record[i], task[e][i].version)
  /\ ~Quarantined(record[i], task[e][i].version)
  /\ world[i].here
  /\ task' = [task EXCEPT ![e][i].step = "fetched", ![e][i].content = world[i].content,
                          ![e][i].read = record[i]]
  /\ UNCHANGED <<world, record, doc, engine, cursor, deletion, handled>>

\* The columns a processed item's record gets.
Filled(r, t, e) == [r EXCEPT !.version = t.version, !.seen = e]

\* Same content: _touch, which restores an archived item.
SameContent(t) ==
  t.read.document /\ t.read.hash = t.content /\ t.read.status # "failed"
Touched(e, i) ==
  LET t == task[e][i]
      restored == t.read.status = "deleted"
  IN /\ record' = [record EXCEPT ![i] =
           Written([Filled(t.read, t, e) EXCEPT !.status = IF restored THEN "updated" ELSE @],
                   t.read, @)]
     /\ doc' = [doc EXCEPT ![i].status = IF restored /\ @ # "none" THEN "READY" ELSE @]

\* Mutant of Ingested: the current document is kept whatever its content.
IngestedOnce(d, content) ==
  IF d.status # "none" THEN d ELSE [status |-> "READY", content |-> content]

\* ingest: the current, not failed document with this content is returned as it
\* is; otherwise a new version takes its place.  (A document whose ingestion
\* raised is rolled back with its transaction.)
Ingested(d, content) ==
  IF d.status # "none" /\ d.content = content THEN d
  ELSE [status |-> "READY", content |-> content]

Reindexed(e, i) ==
  LET t == task[e][i]
  IN /\ doc' = [doc EXCEPT ![i] = Ingested(@, t.content)]
     /\ record' = [record EXCEPT ![i] =
           Written([Filled(t.read, t, e) EXCEPT
                      !.status = IF t.read.document THEN "updated" ELSE "indexed",
                      !.hash = t.content, !.document = TRUE, !.failures = 0],
                   t.read, @)]

\* A record row inserted meanwhile makes the insert fail (uq_external_document).
Conflict(e, i) == task[e][i].read.status = "none" /\ record[i].status # "none"

Commit(e, i) ==
  /\ task[e][i].step = "fetched"
  /\ ~Conflict(e, i)
  /\ IF SameContent(task[e][i]) THEN Touched(e, i) ELSE Reindexed(e, i)
  /\ Processed(e, i)
  /\ UNCHANGED <<world, engine, cursor, deletion>>

\* What can go wrong in a task: the permission sync of an unchanged item, the fetch
\* (of an item that is gone, or by an error), the ingestion, or the commit.
Raises(e, i) ==
  LET t == task[e][i]
  IN \/ /\ t.step = "listed" /\ ~Quarantined(record[i], t.version)
        /\ "fail" \in Env \/ ~(Unchanged(record[i], t.version) \/ world[i].here)
     \/ t.step = "fetched" /\ ("fail" \in Env \/ Conflict(e, i))

\* _record_failure, in a transaction of its own; failures are counted up to the
\* bound only, which is all that is ever compared.
Fail(e, i) ==
  /\ Raises(e, i)
  /\ record' = [record EXCEPT
        ![i].version = task[e][i].version, ![i].status = "failed", ![i].seen = e,
        ![i].failures = IF @ < MaxFailures THEN @ + 1 ELSE @]
  /\ engine' = [engine EXCEPT ![e].failed = TRUE]
  /\ Processed(e, i)
  /\ UNCHANGED <<world, doc, cursor, deletion>>

\* The failure cannot be recorded either: logged, nothing more.
FailUnrecorded(e, i) ==
  /\ "unrecorded" \in Env
  /\ Raises(e, i)
  /\ engine' = [engine EXCEPT ![e].failed = TRUE]
  /\ task' = [task EXCEPT ![e][i] = NoTask]
  /\ UNCHANGED <<world, record, doc, cursor, deletion, handled>>

-----------------------------------------------------------------------------
(* The end of a run.                                                       *)

\* gather: every task is waited for; only a complete full listing is swept.
Gathered(e) ==
  /\ engine[e].phase = "gather"
  /\ \A i \in Items : task[e][i].step = "none"
  /\ engine' = [engine EXCEPT ![e].phase =
        IF engine[e].complete /\ engine[e].kind = "full" THEN "sweep" ELSE "finish"]
  /\ UNCHANGED <<world, record, doc, task, cursor, deletion, handled>>

Known == {i \in Items : record[i].status \notin {"none", "deleted"}}

\* Mutant of Unseen: failed records are swept too.
UnseenOrFailed(e) == {i \in Known : record[i].seen # e \/ record[i].status = "failed"}

Unseen(e) == {i \in Known : record[i].seen # e}

\* _sweep_removed's safety nets: an empty listing, and too many removals at once.
HeldBack(e) ==
  \/ engine[e].listed = {}
  \/ Cardinality(Known) >= BulkFloor /\ 2 * Cardinality(Unseen(e)) > Cardinality(Known)

Sweep(e) ==
  /\ engine[e].phase = "sweep"
  /\ LET removed == IF HeldBack(e) THEN {} ELSE Unseen(e)
     IN /\ record' = [i \in Items |-> IF i \in removed THEN Archived(i) ELSE record[i]]
        /\ doc' = [i \in Items |-> IF i \in removed THEN ArchivedDocument(i) ELSE doc[i]]
        /\ handled' = Noted(removed, [i \in Items |-> engine[e].start[i].version])
  /\ engine' = [engine EXCEPT ![e].phase = "finish"]
  /\ UNCHANGED <<world, task, cursor, deletion>>

\* The state _sync returns.  The connector stores each new position in the dict
\* under state["delta"], which a run that had a cursor shares with its snapshot,
\* be its pass a full one: what it falls back on after a failure has moved as well.
\* (Else it stores what it read at its start, the cursor still: not so for runs that
\* overlap, whose stale writes are left out.)
NewCursor(e) ==
  LET reported == [i \in Items |-> engine[e].start[i].version]
      keepNewState == engine[e].complete /\ ~engine[e].failed
  IN IF "feed" \notin Env \/ engine[e].kind = "targets" THEN cursor
     ELSE IF keepNewState \/ HasCursor THEN reported ELSE cursor

\* Mutant of StoresState: a cancelled run stores its state too.
StoresAlways(e) == ~engine[e].raised

\* _finish writes sync_state for a succeeded or partial run only.
StoresState(e) == ~engine[e].raised /\ ~engine[e].cancel

Finish(e) ==
  /\ engine[e].phase = "finish"
  /\ cursor' = IF StoresState(e) THEN NewCursor(e) ELSE cursor
  /\ engine' = [engine EXCEPT ![e] = IdleEngine]
  /\ UNCHANGED <<world, record, doc, task, deletion, handled>>

-----------------------------------------------------------------------------
(* Requests.                                                               *)

RequestCancel(e) ==
  /\ "cancel" \in Env
  /\ engine[e].phase # "idle" /\ ~engine[e].cancel
  /\ engine' = [engine EXCEPT ![e].cancel = TRUE]
  /\ UNCHANGED <<world, record, doc, task, cursor, deletion, handled>>

\* retry_document
RetryDocument(i) ==
  /\ "retry" \in Env
  /\ record[i].status # "none"
  /\ record' = [record EXCEPT ![i].failures = 0, ![i].version = 0]
  /\ UNCHANGED <<world, doc, engine, task, cursor, deletion, handled>>

\* delete_source: first request_cancel's commit, then everything else.
DeleteCancels ==
  /\ "delete" \in Env /\ deletion = "no"
  /\ deletion' = "cancelled"
  /\ engine' = [e \in Engines |-> [engine[e] EXCEPT !.cancel = engine[e].phase # "idle"]]
  /\ UNCHANGED <<world, record, doc, task, cursor, handled>>

DeleteArchives ==
  /\ deletion = "cancelled"
  /\ deletion' = "done"
  /\ doc' = [i \in Items |-> [doc[i] EXCEPT !.status = IF @ = "READY" THEN "ARCHIVED" ELSE @]]
  /\ record' = [i \in Items |-> IF record[i].status = "none" THEN record[i]
                                ELSE [record[i] EXCEPT !.status = "deleted"]]
  /\ UNCHANGED <<world, engine, task, cursor, handled>>

-----------------------------------------------------------------------------
SourceStep(i) == Edit(i) \/ Remove(i) \/ Return(i)
ListingStep(e) ==
  \/ \E i \in Items : ListItem(e, i) \/ SkipItem(e, i) \/ LookupFails(e, i)
  \/ ListEnds(e) \/ ListBreak(e) \/ ListRaises(e)
TaskStep(e, i) == MarkSeen(e, i) \/ Fetch(e, i) \/ Commit(e, i) \/ Fail(e, i)
                  \/ FailUnrecorded(e, i)
RunStep(e) == Gathered(e) \/ Sweep(e) \/ Finish(e)

Next ==
  \/ \E i \in Items : SourceStep(i) \/ RetryDocument(i)
  \/ \E e \in Engines : \/ StartSync(e) \/ StartTargets(e)
                        \/ ListingStep(e) \/ RunStep(e) \/ RequestCancel(e)
                        \/ \E i \in Items : TaskStep(e, i)
  \/ DeleteCancels \/ DeleteArchives

Spec == Init /\ [][Next]_vars

\* A source is synced again and again (a schedule), and a run goes on to its end.
Fairness ==
  \A e \in Engines :
    /\ WF_vars(StartSync(e)) /\ WF_vars(ListingStep(e)) /\ WF_vars(RunStep(e))
    /\ \A i \in Items : WF_vars(TaskStep(e, i))
FairSpec == Spec /\ Fairness

-----------------------------------------------------------------------------
(* Properties.                                                             *)

\* Every variable has its type.
TypeOK ==
  /\ world \in [Items -> Item]
  /\ record \in [Items -> Record]
  /\ doc \in [Items -> Document]
  /\ engine \in [Engines -> Engine]
  /\ task \in [Engines -> [Items -> Task]]
  /\ cursor \in [Items -> Version] /\ handled \in [Items -> Version]
  /\ deletion \in {"no", "cancelled", "done"}

\* "Archives items the source no longer lists" (_sweep_removed): the sweep never
\* archives an item the source held all through the run, though tasks finish in
\* any order, fail, or are quarantined.
SweepArchivesOnlyGone ==
  [][\A e \in Engines, i \in Items :
       Sweep(e) /\ record'[i].status = "deleted" /\ record[i].status # "deleted"
         => i \notin engine[e].base]_vars

\* The record's hash is of the content of the current document, through retries,
\* failures and restores, and a removed item's document is not in retrieval while
\* the source is there (DeletedSourceStaysArchived says what happens later).
RecordDescribesDocument ==
  \A i \in Items :
    /\ record[i].document => doc[i].status # "none" /\ doc[i].content = record[i].hash
    /\ record[i].status = "deleted" /\ deletion # "done" => doc[i].status # "READY"

\* A record that says its item is indexed has a document in retrieval; also for an
\* item that came back, which "is restored (or versioned if it changed)".  False: not
\* where its first processing failed.
IndexedIsRetrievable ==
  \A i \in Items : record[i].status \in {"indexed", "updated"} => doc[i].status = "READY"

\* The cursor never moves past a change of an item no run dealt with: between runs,
\* the present version of an item, once reported, was indexed or recorded as failed.
Reported(i) == HasCursor /\ cursor[i] = world[i].version
Idle == \A e \in Engines : engine[e].phase = "idle"
ReportedIsHandled ==
  Idle => \A i \in Items : world[i].here /\ Reported(i) => handled[i] = world[i].version

\* The cursor advances "only when everything succeeded, so a failed item is
\* replayed next time" (_sync): between runs, an item whose last attempt failed
\* and that is not quarantined is still ahead of the cursor.  False: the cursor is in
\* the dictionary that the failed run stores too.
FailedItemReplayed ==
  Idle /\ HasCursor =>
    \A i \in Items : record[i].status = "failed" /\ record[i].failures < MaxFailures
                      => cursor[i] < record[i].version

\* Deleting a source leaves "its documents archived" (delete_source): none of them
\* is in retrieval afterwards.  False where tasks of a run are in flight.
DeletedSourceStaysArchived ==
  deletion = "done" => \A i \in Items : doc[i].status # "READY"

\* An item the source holds is eventually on record as indexed, with a document of its
\* present content, or quarantined in its present version, or it changes again, or the
\* source is deleted: if listings that raise or skip, lookups that fail, failures that
\* get lost, cancels and requests of an administrator or a webhook come to an end.  (That
\* the document is in retrieval is IndexedIsRetrievable.)
Disturbance ==
  \/ \E i \in Items : RetryDocument(i)
  \/ \E e \in Engines :
       \/ StartTargets(e) \/ ListRaises(e) \/ RequestCancel(e)
       \/ \E i \in Items : SkipItem(e, i) \/ LookupFails(e, i) \/ FailUnrecorded(e, i)
Present(i, v) == world[i].here /\ world[i].version = v
Settled(i, v) ==
  \/ world[i].version # v \/ deletion # "no"
  \/ record[i].status \in {"indexed", "updated"} /\ doc[i].content = world[i].content
  \/ record[i].status = "failed" /\ record[i].version = v /\ record[i].failures >= MaxFailures
ItemsAreMirrored ==
  <>[][~Disturbance]_vars => \A i \in Items : \A v \in Version : Present(i, v) ~> Settled(i, v)
=============================================================================
