----------------------- MODULE SourceDocumentsProofs -----------------------
(***************************************************************************)
(* Theorems about SourceDocuments, for every set of items and engines and  *)
(* every bound: the sweep of a lone engine archives only what is gone, a   *)
(* record describes its document, and the cursor of a feed passes over no  *)
(* change that was not dealt with.                                         *)
(*                                                                         *)
(* The invariant follows a listed item from Submit to the sweep: until its *)
(* task is done the run cannot sweep, and once it is done the record names *)
(* the run.                                                                *)
(***************************************************************************)
EXTENDS SourceDocuments, TLAPS

\* Runs do not overlap, failures are recorded, and listings skip nothing.
Sound == Env \intersect {"overlap", "unrecorded", "skips"} = {}

\* One engine runs at a time, and an engine that has gathered has no task left.
OneEngine == \A e, f \in Engines :
  engine[e].phase # "idle" /\ engine[f].phase # "idle" => e = f
TasksOfTheRun == \A e \in Engines, i \in Items :
  task[e][i].step # "none" => /\ engine[e].phase \in {"listing", "gather"}
                              /\ i \in engine[e].listed
\* A record a task read as seen by its run still is.
ReadAgrees == \A e \in Engines, i \in Items :
  task[e][i].step = "fetched" /\ task[e][i].read.seen = e => record[i].seen = e
\* A listed item whose task is done is seen.
FullRun(e) == engine[e].phase # "idle" /\ engine[e].kind = "full"
ListedIsSeen == \A e \in Engines, i \in Items :
  FullRun(e) /\ i \in engine[e].listed /\ task[e][i].step = "none" => record[i].seen = e
\* A full listing goes through all items, and one that is complete listed every
\* item that was there throughout.
ListedAll == \A e \in Engines :
  /\ engine[e].phase = "listing" => ~engine[e].complete
  /\ FullRun(e) /\ engine[e].phase = "listing" => engine[e].todo = Items
  /\ FullRun(e) /\ engine[e].complete => engine[e].base \subseteq engine[e].listed
SweepsComplete == \A e \in Engines :
  engine[e].phase = "sweep" => engine[e].complete /\ engine[e].kind = "full"
DInv == /\ TypeOK /\ OneEngine /\ TasksOfTheRun /\ ReadAgrees
        /\ ListedIsSeen /\ ListedAll /\ SweepsComplete

-----------------------------------------------------------------------------
(* Types.                                                                  *)

LEMMA NoTypes ==
  /\ NoRecord \in Record /\ NoTask \in Task /\ NoCursor \in [Items -> Version]
  /\ IdleEngine \in Engine
<1>1. 0 \in Version /\ NoRecord \in Record
  BY DocumentsAssumption DEF Version, NoRecord, Record, Content
<1>2. NoTask \in Task
  BY <1>1 DEF NoTask, Task, Content
<1>3. [i \in Items |-> [here |-> FALSE, version |-> 0]] \in [Items -> Seen]
  BY <1>1 DEF Seen
<1>4. IdleEngine \in Engine
  BY <1>3 DEF IdleEngine, Engine
<1>5. QED
  BY <1>1, <1>2, <1>4 DEF NoCursor

LEMMA InitTypes == Init => TypeOK
<1> SUFFICES ASSUME Init PROVE TypeOK
  OBVIOUS
<1>1. 1 \in Version
  BY DocumentsAssumption DEF Version
<1>2. QED
  BY <1>1, NoTypes DEF Init, TypeOK, Item, Document, Content

LEMMA NotedType ==
  ASSUME TypeOK, NEW items \in SUBSET Items, NEW version \in [Items -> Version]
  PROVE  Noted(items, version) \in [Items -> Version]
BY DEF TypeOK, Noted

LEMMA ShownType == ASSUME TypeOK, NEW i \in Items PROVE Shown(i) \in Seen
BY DEF TypeOK, Shown, Seen, Item

LEMMA ArchivedType ==
  ASSUME TypeOK, NEW i \in Items
  PROVE  Archived(i) \in Record /\ ArchivedDocument(i) \in Document
<1>1. record[i] \in Record /\ doc[i] \in Document
  BY DEF TypeOK
<1>2. QED
  BY <1>1 DEF Archived, ArchivedDocument, Record, Document

LEMMA WrittenType ==
  ASSUME NEW new \in Record, NEW read \in Record, NEW now \in Record
  PROVE  Written(new, read, now) \in Record
BY DEF Record, Written

LEMMA SourceTypes ==
  ASSUME TypeOK, NEW i \in Items, SourceStep(i)
  PROVE  TypeOK'
<1>1. PICK h \in BOOLEAN, c \in Contents : Change(i, h, c)
  BY DEF SourceStep, Edit, Remove, Return, TypeOK, Item
<1>2. world[i].version + 1 \in Version
  BY <1>1, DocumentsAssumption DEF Change, TypeOK, Item, Version
<1>3. world' \in [Items -> Item]
  BY <1>1, <1>2 DEF Change, TypeOK, Item
<1>4. ASSUME NEW e \in Engines
      PROVE  [engine[e] EXCEPT !.base = IF h THEN @ ELSE @ \ {i}] \in Engine
  <2>1. engine[e] \in Engine
    BY DEF TypeOK
  <2>2. QED
    BY <2>1 DEF Engine
<1>5. engine' \in [Engines -> Engine]
  BY <1>1, <1>4 DEF Change
<1>6. QED
  BY <1>1, <1>3, <1>5 DEF Change, TypeOK

LEMMA StartTypes ==
  ASSUME TypeOK, NEW e \in Engines, StartSync(e) \/ StartTargets(e)
  PROVE  TypeOK'
<1>1. PICK kind \in {"full", "feed", "targets"}, todo \in SUBSET Items : Start(e, kind, todo)
  BY DEF StartSync, StartTargets, Changed
<1>2. [i \in Items |-> Shown(i)] \in [Items -> Seen]
  BY ShownType
<1> DEFINE new == [IdleEngine EXCEPT !.phase = "listing", !.kind = kind, !.todo = todo,
             !.base = Here, !.start = IF "feed" \in Env THEN [i \in Items |-> Shown(i)] ELSE @]
<1>3. new \in Engine
  BY <1>2, NoTypes DEF Engine, Here
<1> HIDE DEF new
<1>4. engine' \in [Engines -> Engine]
  BY <1>1, <1>3 DEF Start, TypeOK, new
<1>5. ASSUME NEW i \in Items
      PROVE  record[i] \in Record /\ [record[i] EXCEPT !.seen = Nothing] \in Record
  <2>1. record[i] \in Record
    BY DEF TypeOK
  <2>2. QED
    BY <2>1 DEF Record
<1>6. record' \in [Items -> Record]
  BY <1>1, <1>5 DEF Start
<1>7. QED
  BY <1>1, <1>4, <1>6 DEF Start, TypeOK

LEMMA ListItemTypes ==
  ASSUME TypeOK, NEW e \in Engines, NEW i \in Items, ListItem(e, i)
  PROVE  TypeOK'
<1> DEFINE shown == IF engine[e].kind = "feed" THEN engine[e].start[i] ELSE Shown(i)
<1>1. engine[e] \in Engine
  BY DEF TypeOK
<1>2. shown \in Seen
  BY <1>1, ShownType DEF Engine
<1>3. shown.version \in Version
  BY <1>2 DEF Seen
<1>4. engine' = [engine EXCEPT ![e].listed = @ \union {i}]
  BY DEF ListItem, Submit, ArchiveByExternalId
<1>5. engine' \in [Engines -> Engine]
  BY <1>1, <1>4 DEF TypeOK, Engine
<1>6. CASE Submit(e, i, shown.version) /\ UNCHANGED <<record, doc, handled>>
  <2>1. [NoTask EXCEPT !.step = "listed", !.version = shown.version] \in Task
    BY <1>3, NoTypes DEF Task
  <2>2. task' \in [Engines -> [Items -> Task]]
    BY <1>6, <2>1 DEF Submit, TypeOK
  <2>3. QED
    BY <1>5, <1>6, <2>2 DEF ListItem, TypeOK
<1>7. CASE ArchiveByExternalId(e, i, shown.version)
  <2>1. handled' \in [Items -> Version]
    BY <1>3, <1>7, NotedType DEF ArchiveByExternalId
  <2>2. record' \in [Items -> Record] /\ doc' \in [Items -> Document]
    BY <1>7, ArchivedType DEF ArchiveByExternalId, TypeOK
  <2>3. QED
    BY <1>5, <1>7, <2>1, <2>2 DEF ListItem, ArchiveByExternalId, TypeOK
<1>8. QED
  BY <1>6, <1>7 DEF ListItem

LEMMA ListingTypes ==
  ASSUME TypeOK, NEW e \in Engines, ListingStep(e)
  PROVE  TypeOK'
<1>1. engine[e] \in Engine
  BY DEF TypeOK
<1>2. ASSUME NEW i \in Items, SkipItem(e, i) PROVE TypeOK'
  BY <1>1, <1>2 DEF SkipItem, TypeOK, Engine
<1>3. ASSUME NEW i \in Items, LookupFails(e, i) PROVE TypeOK'
  BY <1>1, <1>3 DEF LookupFails, TypeOK, Engine
<1>4. CASE ListEnds(e)
  BY <1>1, <1>4 DEF ListEnds, TypeOK, Engine
<1>5. CASE ListBreak(e)
  BY <1>1, <1>5 DEF ListBreak, TypeOK, Engine
<1>6. CASE ListRaises(e)
  BY <1>1, <1>6 DEF ListRaises, TypeOK, Engine
<1>7. QED
  BY <1>2, <1>3, <1>4, <1>5, <1>6, ListItemTypes DEF ListingStep

LEMMA ProcessedTypes ==
  ASSUME TypeOK, NEW e \in Engines, NEW i \in Items, Processed(e, i)
  PROVE  task' \in [Engines -> [Items -> Task]] /\ handled' \in [Items -> Version]
<1>1. task[e][i].version \in Version
  BY DEF TypeOK, Task
<1>2. QED
  BY <1>1, NoTypes, NotedType DEF Processed, TypeOK

\* What a task writes when it commits.
LEMMA CommitTypes ==
  ASSUME TypeOK, NEW e \in Engines, NEW i \in Items, Commit(e, i)
  PROVE  record' \in [Items -> Record] /\ doc' \in [Items -> Document]
<1> DEFINE t == task[e][i]
<1>1. t \in Task /\ t.read \in Record /\ record[i] \in Record /\ doc[i] \in Document
  BY DEF TypeOK, Task
<1>2. Filled(t.read, t, e) \in Record
  BY <1>1 DEF Filled, Record, Task
<1> HIDE DEF t
<1>3. CASE Touched(e, i)
  <2>1. [Filled(t.read, t, e) EXCEPT
           !.status = IF t.read.status = "deleted" THEN "updated" ELSE @] \in Record
    BY <1>2 DEF Record
  <2>2. record' \in [Items -> Record]
    BY <1>1, <1>3, <2>1, WrittenType DEF Touched, t, TypeOK
  <2>3. [doc[i] EXCEPT !.status = "READY"] \in Document /\ [doc[i] EXCEPT !.status = @] \in Document
    BY <1>1 DEF Document
  <2>4. doc' \in [Items -> Document]
    BY <1>3, <2>3 DEF Touched, TypeOK
  <2>5. QED
    BY <2>2, <2>4
<1>4. CASE Reindexed(e, i)
  <2>1. [Filled(t.read, t, e) EXCEPT
           !.status = IF t.read.document THEN "updated" ELSE "indexed",
           !.hash = t.content, !.document = TRUE, !.failures = 0] \in Record
    <3>1. ASSUME NEW status \in {"updated", "indexed"}
          PROVE  [Filled(t.read, t, e) EXCEPT !.status = status, !.hash = t.content,
                    !.document = TRUE, !.failures = 0] \in Record
      <4>1. t.content \in Content /\ 0 \in 0..MaxFailures
        BY <1>1, DocumentsAssumption DEF Task
      <4>2. QED
        BY <1>2, <4>1 DEF Record
    <3>2. QED
      BY <3>1
  <2>2. record' \in [Items -> Record]
    BY <1>1, <1>4, <2>1, WrittenType DEF Reindexed, t, TypeOK
  <2>3. Ingested(doc[i], t.content) \in Document
    BY <1>1 DEF Ingested, Document, Task
  <2>4. doc' \in [Items -> Document]
    BY <1>4, <2>3 DEF Reindexed, t, TypeOK
  <2>5. QED
    BY <2>2, <2>4
<1>5. QED
  BY <1>3, <1>4 DEF Commit, SameContent

LEMMA TaskTypes ==
  ASSUME TypeOK, NEW e \in Engines, NEW i \in Items, TaskStep(e, i)
  PROVE  TypeOK'
<1>1. engine[e] \in Engine /\ task[e][i] \in Task /\ record[i] \in Record /\ world[i] \in Item
  BY DEF TypeOK
<1>2. CASE MarkSeen(e, i)
  <2>1. [record[i] EXCEPT !.seen = e] \in Record
    BY <1>1 DEF Record
  <2>2. QED
    BY <1>2, <2>1, ProcessedTypes DEF MarkSeen, TypeOK
<1>3. CASE Fetch(e, i)
  <2>1. [task[e][i] EXCEPT !.step = "fetched", !.content = world[i].content,
           !.read = record[i]] \in Task
    BY <1>1 DEF Task, Item, Content
  <2>2. task' = [task EXCEPT ![e][i] = [task[e][i] EXCEPT
           !.step = "fetched", !.content = world[i].content, !.read = record[i]]]
    BY <1>3 DEF Fetch, TypeOK
  <2>3. task' \in [Engines -> [Items -> Task]]
    BY <2>1, <2>2 DEF TypeOK
  <2>4. QED
    BY <1>3, <2>3 DEF Fetch, TypeOK
<1>4. CASE Commit(e, i)
  BY <1>4, CommitTypes, ProcessedTypes DEF Commit, TypeOK
<1>5. CASE Fail(e, i)
  <2>1. task[e][i].version \in Version /\ record[i].failures \in 0..MaxFailures
    BY <1>1 DEF Task, Record
  <2>2. (IF record[i].failures < MaxFailures THEN record[i].failures + 1
         ELSE record[i].failures) \in 0..MaxFailures
    BY <2>1, DocumentsAssumption
  <2>3. record' \in [Items -> Record]
    BY <1>1, <1>5, <2>1, <2>2 DEF Fail, TypeOK, Record
  <2>4. engine' \in [Engines -> Engine]
    BY <1>1, <1>5 DEF Fail, TypeOK, Engine
  <2>5. QED
    BY <1>5, <2>3, <2>4, ProcessedTypes DEF Fail, TypeOK
<1>6. CASE FailUnrecorded(e, i)
  <2>1. engine' \in [Engines -> Engine]
    BY <1>1, <1>6 DEF FailUnrecorded, TypeOK, Engine
  <2>2. task' \in [Engines -> [Items -> Task]]
    BY <1>6, NoTypes DEF FailUnrecorded, TypeOK
  <2>3. QED
    BY <1>6, <2>1, <2>2 DEF FailUnrecorded, TypeOK
<1>7. QED
  BY <1>2, <1>3, <1>4, <1>5, <1>6 DEF TaskStep

LEMMA RunTypes ==
  ASSUME TypeOK, NEW e \in Engines, RunStep(e)
  PROVE  TypeOK'
<1>1. engine[e] \in Engine
  BY DEF TypeOK
<1>2. [i \in Items |-> engine[e].start[i].version] \in [Items -> Version]
  BY <1>1 DEF Engine, Seen
<1>3. CASE Gathered(e)
  BY <1>1, <1>3 DEF Gathered, TypeOK, Engine
<1>4. CASE Sweep(e)
  <2>1. PICK removed \in SUBSET Items :
          /\ record' = [i \in Items |-> IF i \in removed THEN Archived(i) ELSE record[i]]
          /\ doc' = [i \in Items |-> IF i \in removed THEN ArchivedDocument(i) ELSE doc[i]]
          /\ handled' = Noted(removed, [i \in Items |-> engine[e].start[i].version])
    BY <1>4 DEF Sweep, Unseen, Known
  <2>2. record' \in [Items -> Record] /\ doc' \in [Items -> Document]
    BY <2>1, ArchivedType DEF TypeOK
  <2>3. handled' \in [Items -> Version]
    BY <1>2, <2>1, NotedType
  <2>4. engine' \in [Engines -> Engine]
    BY <1>1, <1>4 DEF Sweep, TypeOK, Engine
  <2>5. QED
    BY <1>4, <2>2, <2>3, <2>4 DEF Sweep, TypeOK
<1>5. CASE Finish(e)
  <2>1. cursor' \in [Items -> Version]
    BY <1>2, <1>5 DEF Finish, NewCursor, TypeOK
  <2>2. QED
    BY <1>5, <2>1, NoTypes DEF Finish, TypeOK
<1>6. QED
  BY <1>3, <1>4, <1>5 DEF RunStep

LEMMA RequestTypes ==
  ASSUME TypeOK,
         \/ \E i \in Items : RetryDocument(i)
         \/ \E e \in Engines : RequestCancel(e)
         \/ DeleteCancels \/ DeleteArchives
  PROVE  TypeOK'
<1>1. ASSUME NEW i \in Items, RetryDocument(i) PROVE TypeOK'
  <2>1. record[i] \in Record /\ 0 \in Version /\ 0 \in 0..MaxFailures
    BY DocumentsAssumption DEF TypeOK, Version
  <2>2. QED
    BY <1>1, <2>1 DEF RetryDocument, TypeOK, Record
<1>2. ASSUME NEW e \in Engines, RequestCancel(e) PROVE TypeOK'
  <2>1. engine[e] \in Engine
    BY DEF TypeOK
  <2>2. QED
    BY <1>2, <2>1 DEF RequestCancel, TypeOK, Engine
<1>3. CASE DeleteCancels
  <2>1. ASSUME NEW e \in Engines
        PROVE  [engine[e] EXCEPT !.cancel = engine[e].phase # "idle"] \in Engine
    <3>1. engine[e] \in Engine
      BY DEF TypeOK
    <3>2. QED
      BY <3>1 DEF Engine
  <2>2. QED
    BY <1>3, <2>1 DEF DeleteCancels, TypeOK
<1>4. CASE DeleteArchives
  <2>1. ASSUME NEW i \in Items
        PROVE  /\ record[i] \in Record /\ [record[i] EXCEPT !.status = "deleted"] \in Record
               /\ [doc[i] EXCEPT !.status = IF @ = "READY" THEN "ARCHIVED" ELSE @] \in Document
    <3>1. record[i] \in Record /\ doc[i] \in Document
      BY DEF TypeOK
    <3>2. QED
      BY <3>1 DEF Record, Document
  <2>2. QED
    BY <1>4, <2>1 DEF DeleteArchives, TypeOK
<1>5. QED
  BY <1>1, <1>2, <1>3, <1>4

LEMMA TypesStep == TypeOK /\ [Next]_vars => TypeOK'
<1> SUFFICES ASSUME TypeOK, [Next]_vars PROVE TypeOK'
  OBVIOUS
<1>1. CASE UNCHANGED vars
  BY <1>1 DEF vars, TypeOK
<1>2. QED
  BY <1>1, SourceTypes, StartTypes, ListingTypes, TaskTypes, RunTypes, RequestTypes DEF Next

\* Every variable keeps its type, whatever the source, the engines and the requests do.
THEOREM TypesHold == Spec => []TypeOK
<1>1. QED
  BY InitTypes, TypesStep, PTL DEF Spec

-----------------------------------------------------------------------------
(* The sweep of a lone engine.                                             *)

LEMMA InitDInv == Init => DInv
<1>1. Init => OneEngine /\ TasksOfTheRun /\ ReadAgrees /\ ListedIsSeen /\ ListedAll /\ SweepsComplete
  BY DEF Init, OneEngine, TasksOfTheRun, ReadAgrees, ListedIsSeen, ListedAll, SweepsComplete,
         FullRun, IdleEngine, NoTask
<1>2. QED
  BY <1>1, InitTypes DEF DInv

LEMMA SourceDInv ==
  ASSUME DInv, NEW i \in Items, SourceStep(i)
  PROVE  DInv'
<1>1. PICK h \in BOOLEAN, c \in Contents : Change(i, h, c)
  BY DEF SourceStep, Edit, Remove, Return, DInv, TypeOK, Item
<1>2. TypeOK'
  BY SourceTypes DEF DInv
<1>3. \A e \in Engines :
        /\ engine'[e].phase = engine[e].phase /\ engine'[e].kind = engine[e].kind
        /\ engine'[e].todo = engine[e].todo /\ engine'[e].listed = engine[e].listed
        /\ engine'[e].complete = engine[e].complete
        /\ engine'[e].base \subseteq engine[e].base
  <2> TAKE e \in Engines
  <2>1. engine[e] \in Engine
    BY DEF DInv, TypeOK
  <2>2. engine'[e] = [engine[e] EXCEPT !.base = IF h THEN @ ELSE @ \ {i}]
    BY <1>1 DEF Change
  <2>3. QED
    BY <2>1, <2>2 DEF Engine
<1>4. record' = record /\ task' = task
  BY <1>1 DEF Change
<1>5. OneEngine' /\ TasksOfTheRun' /\ ReadAgrees' /\ ListedIsSeen' /\ SweepsComplete'
  BY <1>3, <1>4 DEF DInv, OneEngine, TasksOfTheRun, ReadAgrees, ListedIsSeen, SweepsComplete,
                    FullRun
<1>6. ListedAll'
  BY <1>3 DEF DInv, ListedAll, FullRun
<1>7. QED
  BY <1>2, <1>5, <1>6 DEF DInv

LEMMA StartDInv ==
  ASSUME Sound, DInv, NEW e \in Engines, StartSync(e) \/ StartTargets(e)
  PROVE  DInv'
<1>1. PICK kind \in {"full", "feed", "targets"}, todo \in SUBSET Items :
        /\ Start(e, kind, todo)
        /\ kind = "full" => todo = Items
  BY DEF StartSync, StartTargets, Changed
<1>2. TypeOK'
  BY StartTypes DEF DInv
<1>3. \A f \in Engines : engine[f].phase = "idle"
  BY <1>1 DEF Start, Sound
<1>4. \A f \in Engines, i \in Items : task[f][i].step = "none"
  BY <1>3 DEF DInv, TasksOfTheRun
<1>5. /\ engine'[e].phase = "listing" /\ engine'[e].kind = kind /\ engine'[e].todo = todo
      /\ engine'[e].listed = {} /\ ~engine'[e].complete
      /\ \A f \in Engines \ {e} : engine'[f] = engine[f]
  BY <1>1 DEF Start, DInv, TypeOK, IdleEngine
<1>6. task' = task
  BY <1>1 DEF Start
<1>7. OneEngine' /\ TasksOfTheRun' /\ ReadAgrees'
  BY <1>3, <1>4, <1>5, <1>6 DEF OneEngine, TasksOfTheRun, ReadAgrees
<1>8. ListedIsSeen' /\ ListedAll' /\ SweepsComplete'
  BY <1>1, <1>3, <1>5 DEF ListedIsSeen, ListedAll, SweepsComplete, FullRun, DInv
<1>9. QED
  BY <1>2, <1>7, <1>8 DEF DInv

LEMMA ListItemDInv ==
  ASSUME DInv, NEW e \in Engines, NEW i \in Items, ListItem(e, i)
  PROVE  DInv'
<1> DEFINE shown == IF engine[e].kind = "feed" THEN engine[e].start[i] ELSE Shown(i)
<1>1. TypeOK'
  BY ListItemTypes DEF DInv
<1>2. engine' = [engine EXCEPT ![e].listed = @ \union {i}] /\ engine[e] \in Engine
  BY DEF ListItem, Submit, ArchiveByExternalId, DInv, TypeOK
<1>3. /\ engine'[e].phase = "listing" /\ engine[e].phase = "listing"
      /\ engine'[e].kind = engine[e].kind /\ engine'[e].todo = engine[e].todo
      /\ engine'[e].complete = engine[e].complete /\ engine'[e].base = engine[e].base
      /\ engine'[e].listed = engine[e].listed \union {i}
      /\ \A f \in Engines \ {e} : engine'[f] = engine[f]
  BY <1>2 DEF ListItem, Listing, DInv, TypeOK, Engine
<1>4. \A j \in Items : record'[j].seen = record[j].seen
  <2> TAKE j \in Items
  <2>1. record'[j] = record[j] \/ record'[j] = Archived(j)
    BY DEF ListItem, Submit, ArchiveByExternalId, DInv, TypeOK
  <2>2. record[j] \in Record
    BY DEF DInv, TypeOK
  <2>3. QED
    BY <2>1, <2>2 DEF Archived, Record
<1>5. \/ task' = task /\ engine[e].kind # "full"
      \/ \E v \in Version : task' = [task EXCEPT ![e][i] = [NoTask EXCEPT !.step = "listed", !.version = v]]
  <2>1. shown.version \in Version
    BY <1>2, ShownType DEF Engine, Seen, DInv
  <2>2. QED
    BY <2>1 DEF ListItem, Submit, ArchiveByExternalId
<1>6. \A f \in Engines, j \in Items :
        \/ task'[f][j] = task[f][j] /\ (f # e \/ j # i \/ engine[e].kind # "full")
        \/ f = e /\ j = i /\ task'[f][j].step = "listed"
  <2>1. CASE task' = task /\ engine[e].kind # "full"
    BY <2>1
  <2>2. ASSUME NEW new, new.step = "listed", task' = [task EXCEPT ![e][i] = new]
        PROVE  \A f \in Engines, j \in Items :
                 IF f = e /\ j = i THEN task'[f][j] = new ELSE task'[f][j] = task[f][j]
    BY <2>2 DEF DInv, TypeOK
  <2>3. \A v : [NoTask EXCEPT !.step = "listed", !.version = v].step = "listed"
    BY DEF NoTask
  <2>4. CASE ~(task' = task /\ engine[e].kind # "full")
    <3>1. PICK v \in Version :
            task' = [task EXCEPT ![e][i] = [NoTask EXCEPT !.step = "listed", !.version = v]]
      BY <1>5, <2>4
    <3> DEFINE new == [NoTask EXCEPT !.step = "listed", !.version = v]
    <3>2. new.step = "listed" /\ task' = [task EXCEPT ![e][i] = new]
      BY <2>3, <3>1
    <3> HIDE DEF new
    <3>3. \A f \in Engines, j \in Items :
            IF f = e /\ j = i THEN task'[f][j] = new ELSE task'[f][j] = task[f][j]
      BY <2>2, <3>2
    <3>4. QED
      BY <3>2, <3>3
  <2>5. QED
    BY <2>1, <2>4
<1>7. OneEngine' /\ TasksOfTheRun' /\ ListedAll' /\ SweepsComplete'
  BY <1>3, <1>6 DEF DInv, OneEngine, TasksOfTheRun, ListedAll, SweepsComplete, FullRun
<1>8. ReadAgrees' /\ ListedIsSeen'
  BY <1>3, <1>4, <1>6 DEF DInv, ReadAgrees, ListedIsSeen, FullRun
<1>9. QED
  BY <1>1, <1>7, <1>8 DEF DInv

\* A step that changes neither records nor tasks.
LEMMA EngineStepDInv ==
  ASSUME DInv, TypeOK', UNCHANGED <<record, task>>, NEW e \in Engines,
         \A f \in Engines \ {e} : engine'[f] = engine[f],
         /\ engine[e].phase # "idle" /\ engine'[e].phase # "idle"
         /\ engine'[e].kind = engine[e].kind /\ engine'[e].listed = engine[e].listed
         /\ engine'[e].base = engine[e].base,
         engine[e].phase \in {"listing", "gather"} => engine'[e].phase \in {"listing", "gather"},
         engine'[e].phase = "listing" => engine[e].phase = "listing",
         engine[e].kind = "full" => engine'[e].todo = engine[e].todo,
         \/ engine'[e].complete = engine[e].complete
         \/ engine'[e].phase = "gather" /\ (engine[e].kind = "full" /\ engine'[e].complete
                                             => engine[e].base \subseteq engine[e].listed),
         engine'[e].phase = "sweep" => engine[e].phase = "sweep"
  PROVE  DInv'
<1>1. OneEngine' /\ TasksOfTheRun' /\ ReadAgrees'
  BY DEF DInv, OneEngine, TasksOfTheRun, ReadAgrees
<1>2. ListedIsSeen' /\ ListedAll'
  BY DEF DInv, ListedIsSeen, ListedAll, FullRun
<1>3. SweepsComplete'
  BY DEF DInv, SweepsComplete
<1>4. QED
  BY <1>1, <1>2, <1>3 DEF DInv

LEMMA ListingDInv ==
  ASSUME Sound, DInv, NEW e \in Engines, ListingStep(e)
  PROVE  DInv'
<1>1. TypeOK' /\ engine[e] \in Engine
  BY ListingTypes DEF DInv, TypeOK
<1>2. ASSUME NEW i \in Items, SkipItem(e, i) PROVE FALSE
  BY <1>2 DEF SkipItem, Sound
<1>3. ASSUME NEW i \in Items, LookupFails(e, i) PROVE DInv'
  <2>1. /\ engine[e].phase = "listing" /\ engine[e].kind = "targets"
        /\ \A f \in Engines \ {e} : engine'[f] = engine[f]
        /\ engine'[e] = [engine[e] EXCEPT !.todo = @ \ {i}, !.failed = TRUE]
        /\ UNCHANGED <<record, task>>
    BY <1>3 DEF LookupFails, Listing, DInv, TypeOK
  <2>2. QED
    BY <1>1, <2>1, EngineStepDInv DEF Engine
<1>4. CASE ListEnds(e)
  <2>1. /\ engine[e].phase = "listing"
        /\ \A f \in Engines \ {e} : engine'[f] = engine[f]
        /\ engine'[e] = [engine[e] EXCEPT !.phase = "gather", !.complete = ~engine[e].cancel]
        /\ UNCHANGED <<record, task>>
    BY <1>4 DEF ListEnds, DInv, TypeOK
  <2>2. engine[e].kind = "full" => engine[e].base \subseteq engine[e].listed
    BY <1>1, <1>4, <2>1 DEF ListEnds, Exhausted, DInv, ListedAll, FullRun, Engine
  <2>3. QED
    BY <1>1, <2>1, <2>2, EngineStepDInv DEF Engine
<1>5. CASE ListBreak(e)
  <2>1. /\ engine[e].phase = "listing"
        /\ \A f \in Engines \ {e} : engine'[f] = engine[f]
        /\ engine'[e] = [engine[e] EXCEPT !.phase = "gather"]
        /\ UNCHANGED <<record, task>>
    BY <1>5 DEF ListBreak, DInv, TypeOK
  <2>2. QED
    BY <1>1, <2>1, EngineStepDInv DEF Engine
<1>6. CASE ListRaises(e)
  <2>1. /\ engine[e].phase = "listing"
        /\ \A f \in Engines \ {e} : engine'[f] = engine[f]
        /\ engine'[e] = [engine[e] EXCEPT !.phase = "gather", !.raised = TRUE]
        /\ UNCHANGED <<record, task>>
    BY <1>6 DEF ListRaises, DInv, TypeOK
  <2>2. QED
    BY <1>1, <2>1, EngineStepDInv DEF Engine
<1>7. QED
  BY <1>2, <1>3, <1>4, <1>5, <1>6, ListItemDInv DEF ListingStep

\* A task that ends without its item being seen by the run would break ListedIsSeen.
LEMMA TaskEndDInv ==
  ASSUME DInv, TypeOK', NEW e \in Engines, NEW i \in Items, task[e][i].step # "none",
         task' = [task EXCEPT ![e][i] = NoTask],
         \A j \in Items \ {i} : record'[j] = record[j],
         record'[i].seen = e,
         \A f \in Engines : \A g \in {"phase", "kind", "todo", "listed", "base", "complete"} :
           engine'[f][g] = engine[f][g]
  PROVE  DInv'
<1>1. \A f \in Engines :
        /\ engine'[f].phase = engine[f].phase /\ engine'[f].kind = engine[f].kind
        /\ engine'[f].todo = engine[f].todo /\ engine'[f].listed = engine[f].listed
        /\ engine'[f].base = engine[f].base /\ engine'[f].complete = engine[f].complete
  OBVIOUS
<1>2. \A f \in Engines : f # e => engine[f].phase = "idle"
  BY DEF DInv, OneEngine, TasksOfTheRun
<1>3. \A f \in Engines, j \in Items : f # e \/ j # i => task'[f][j] = task[f][j]
  BY DEF DInv, TypeOK
<1>4. task'[e][i].step = "none"
  BY DEF DInv, TypeOK, NoTask
<1>5. OneEngine' /\ TasksOfTheRun' /\ SweepsComplete'
  BY <1>1, <1>3, <1>4 DEF DInv, OneEngine, TasksOfTheRun, SweepsComplete
<1>6. ListedAll'
  BY <1>1 DEF DInv, ListedAll, FullRun
<1>7. \A f \in Engines, j \in Items : f # e => task[f][j].step = "none"
  BY <1>2 DEF DInv, TasksOfTheRun
<1>8. ReadAgrees'
  BY <1>3, <1>4, <1>7 DEF DInv, ReadAgrees
<1>9. ListedIsSeen'
  BY <1>1, <1>2, <1>3 DEF DInv, ListedIsSeen, FullRun
<1>10. QED
  BY <1>5, <1>6, <1>8, <1>9 DEF DInv

LEMMA TaskDInv ==
  ASSUME Sound, DInv, NEW e \in Engines, NEW i \in Items, TaskStep(e, i)
  PROVE  DInv'
<1>1. /\ engine[e] \in Engine /\ task[e][i] \in Task /\ task[e][i].read \in Record
      /\ record[i] \in Record
  BY DEF DInv, TypeOK, Task
<1>2. TypeOK'
  BY TaskTypes DEF DInv
<1>3. CASE MarkSeen(e, i)
  <2>1. record'[i].seen = e /\ \A j \in Items \ {i} : record'[j] = record[j]
    BY <1>1, <1>3 DEF MarkSeen, DInv, TypeOK, Record
  <2>2. QED
    BY <1>2, <1>3, <2>1, TaskEndDInv DEF MarkSeen, Processed
<1>4. CASE Fetch(e, i)
  <2>1. /\ task'[e][i].step = "fetched" /\ task'[e][i].read = record[i]
        /\ task[e][i].step = "listed"
    BY <1>1, <1>4 DEF Fetch, DInv, TypeOK, Task
  <2>2. \A f \in Engines, j \in Items : f # e \/ j # i => task'[f][j] = task[f][j]
    BY <1>4 DEF Fetch, DInv, TypeOK
  <2>3. UNCHANGED <<record, engine>>
    BY <1>4 DEF Fetch
  <2>4. TasksOfTheRun' /\ ListedIsSeen'
    BY <2>1, <2>2, <2>3 DEF DInv, TasksOfTheRun, ListedIsSeen, FullRun
  <2>5. ReadAgrees'
    BY <2>1, <2>2, <2>3 DEF DInv, ReadAgrees
  <2>6. OneEngine' /\ ListedAll' /\ SweepsComplete'
    BY <2>3 DEF DInv, OneEngine, ListedAll, SweepsComplete, FullRun
  <2>7. QED
    BY <1>2, <2>4, <2>5, <2>6 DEF DInv
<1>5. CASE Commit(e, i)
  <2> DEFINE t == task[e][i]
  <2>1. Filled(t.read, t, e) \in Record /\ Filled(t.read, t, e).seen = e
    <3>1. t.version \in Version
      BY <1>1 DEF Task
    <3>2. QED
      BY <1>1, <3>1 DEF Filled, Record
  <2>2. t.read.seen = e => record[i].seen = e
    BY <1>5 DEF Commit, DInv, ReadAgrees
  <2>3. \A new \in Record : new.seen = e => Written(new, t.read, record[i]).seen = e
    BY <1>1, <2>2 DEF Written, Record
  <2>4. \A j \in Items \ {i} : record'[j] = record[j]
    BY <1>5 DEF Commit, Touched, Reindexed, DInv, TypeOK
  <2>5. record'[i].seen = e
    <3>1. CASE Touched(e, i)
      <4> DEFINE new == [Filled(t.read, t, e) EXCEPT
                           !.status = IF t.read.status = "deleted" THEN "updated" ELSE @]
      <4>1. new \in Record /\ new.seen = e
        BY <2>1 DEF Record
      <4>2. record'[i] = Written(new, t.read, record[i])
        BY <3>1 DEF Touched, DInv, TypeOK
      <4>3. QED
        BY <2>3, <4>1, <4>2
    <3>2. CASE Reindexed(e, i)
      <4> DEFINE new == [Filled(t.read, t, e) EXCEPT
                           !.status = IF t.read.document THEN "updated" ELSE "indexed",
                           !.hash = t.content, !.document = TRUE, !.failures = 0]
      <4>1. t.content \in Content /\ 0 \in 0..MaxFailures
        BY <1>1, DocumentsAssumption DEF Task
      <4>2. \A status \in {"updated", "indexed"} :
              LET r == [Filled(t.read, t, e) EXCEPT !.status = status, !.hash = t.content,
                          !.document = TRUE, !.failures = 0]
              IN r \in Record /\ r.seen = e
        BY <2>1, <4>1 DEF Record
      <4>3. new \in Record /\ new.seen = e
        BY <4>2
      <4>4. record'[i] = Written(new, t.read, record[i])
        BY <3>2 DEF Reindexed, DInv, TypeOK
      <4>5. QED
        BY <2>3, <4>3, <4>4
    <3>3. QED
      BY <1>5, <3>1, <3>2 DEF Commit
  <2>6. QED
    BY <1>2, <1>5, <2>4, <2>5, TaskEndDInv DEF Commit, Processed
<1>6. CASE Fail(e, i)
  <2>1. record'[i].seen = e /\ \A j \in Items \ {i} : record'[j] = record[j]
    BY <1>1, <1>6 DEF Fail, DInv, TypeOK, Record
  <2>2. task[e][i].step # "none" /\ task' = [task EXCEPT ![e][i] = NoTask]
    BY <1>6 DEF Fail, Raises, Processed
  <2>3. engine' = [engine EXCEPT ![e].failed = TRUE]
    BY <1>6 DEF Fail
  <2>4. \A f \in Engines : \A g \in {"phase", "kind", "todo", "listed", "base", "complete"} :
          engine'[f][g] = engine[f][g]
    BY <1>1, <2>3 DEF DInv, TypeOK, Engine
  <2>5. QED
    BY <1>2, <2>1, <2>2, <2>4, TaskEndDInv
<1>7. CASE FailUnrecorded(e, i)
  BY <1>7 DEF FailUnrecorded, Sound
<1>8. QED
  BY <1>3, <1>4, <1>5, <1>6, <1>7 DEF TaskStep

LEMMA RunDInv ==
  ASSUME DInv, NEW e \in Engines, RunStep(e)
  PROVE  DInv'
<1>1. TypeOK' /\ engine[e] \in Engine
  BY RunTypes DEF DInv, TypeOK
<1>2. \A f \in Engines \ {e} : engine'[f] = engine[f]
  BY DEF RunStep, Gathered, Sweep, Finish, DInv, TypeOK
<1>3. engine[e].phase \in {"gather", "sweep", "finish"} /\ task' = task
  BY DEF RunStep, Gathered, Sweep, Finish
<1>4. \A i \in Items : task[e][i].step = "none"
  BY <1>3 DEF RunStep, Gathered, Sweep, Finish, DInv, TasksOfTheRun
<1>5. \A f \in Engines, i \in Items : task[f][i].step = "none"
  BY <1>3, <1>4 DEF DInv, TasksOfTheRun, OneEngine
<1>6. \A i \in Items : record'[i].seen = record[i].seen
  <2> TAKE i \in Items
  <2>1. record'[i] = record[i] \/ record'[i] = Archived(i)
    BY DEF RunStep, Gathered, Sweep, Finish
  <2>2. record[i] \in Record
    BY DEF DInv, TypeOK
  <2>3. QED
    BY <2>1, <2>2 DEF Archived, Record
<1>7. TasksOfTheRun' /\ ReadAgrees'
  BY <1>3, <1>5 DEF TasksOfTheRun, ReadAgrees
<1>8. \/ engine'[e] = IdleEngine
      \/ /\ engine'[e].phase \in {"sweep", "finish"}
         /\ engine'[e].kind = engine[e].kind /\ engine'[e].listed = engine[e].listed
         /\ engine'[e].base = engine[e].base /\ engine'[e].complete = engine[e].complete
         /\ engine'[e].phase = "sweep" => engine[e].complete /\ engine[e].kind = "full"
  <2>1. CASE Gathered(e)
    BY <1>1, <2>1 DEF Gathered, DInv, TypeOK, Engine
  <2>2. CASE Sweep(e)
    BY <1>1, <2>2 DEF Sweep, DInv, TypeOK, Engine
  <2>3. CASE Finish(e)
    BY <2>3 DEF Finish, DInv, TypeOK
  <2>4. QED
    BY <2>1, <2>2, <2>3 DEF RunStep
<1>9. IdleEngine.phase = "idle" /\ ~IdleEngine.complete
  BY DEF IdleEngine
<1>10. OneEngine' /\ SweepsComplete'
  BY <1>2, <1>3, <1>8, <1>9 DEF DInv, OneEngine, SweepsComplete
<1>11. ListedIsSeen' /\ ListedAll'
  BY <1>2, <1>3, <1>6, <1>8, <1>9 DEF DInv, ListedIsSeen, ListedAll, FullRun
<1>12. QED
  BY <1>1, <1>7, <1>10, <1>11 DEF DInv

LEMMA RequestDInv ==
  ASSUME DInv,
         \/ \E i \in Items : RetryDocument(i)
         \/ \E e \in Engines : RequestCancel(e)
         \/ DeleteCancels \/ DeleteArchives
  PROVE  DInv'
<1>1. TypeOK'
  BY RequestTypes DEF DInv
<1>2. task' = task
  BY DEF RetryDocument, RequestCancel, DeleteCancels, DeleteArchives
<1>3. \A i \in Items : record'[i].seen = record[i].seen
  <2> TAKE i \in Items
  <2>1. record[i] \in Record
    BY DEF DInv, TypeOK
  <2>2. \/ record'[i] = record[i]
        \/ record'[i] = [record[i] EXCEPT !.failures = 0, !.version = 0]
        \/ record'[i] = [record[i] EXCEPT !.status = "deleted"]
    BY DEF RetryDocument, RequestCancel, DeleteCancels, DeleteArchives, DInv, TypeOK
  <2>3. QED
    BY <2>1, <2>2 DEF Record
<1>4. \A e \in Engines :
        /\ engine'[e].phase = engine[e].phase /\ engine'[e].kind = engine[e].kind
        /\ engine'[e].todo = engine[e].todo /\ engine'[e].listed = engine[e].listed
        /\ engine'[e].base = engine[e].base /\ engine'[e].complete = engine[e].complete
  <2> TAKE e \in Engines
  <2>1. engine[e] \in Engine
    BY DEF DInv, TypeOK
  <2>2. \/ engine'[e] = engine[e]
        \/ \E c \in BOOLEAN : engine'[e] = [engine[e] EXCEPT !.cancel = c]
    BY DEF RetryDocument, RequestCancel, DeleteCancels, DeleteArchives, DInv, TypeOK
  <2>3. QED
    BY <2>1, <2>2 DEF Engine
<1>5. OneEngine' /\ TasksOfTheRun' /\ ReadAgrees' /\ SweepsComplete'
  BY <1>2, <1>3, <1>4 DEF DInv, OneEngine, TasksOfTheRun, ReadAgrees, SweepsComplete
<1>6. ListedIsSeen' /\ ListedAll'
  BY <1>2, <1>3, <1>4 DEF DInv, ListedIsSeen, ListedAll, FullRun
<1>7. QED
  BY <1>1, <1>5, <1>6 DEF DInv

LEMMA DInvStep == Sound /\ DInv /\ [Next]_vars => DInv'
<1> SUFFICES ASSUME Sound, DInv, [Next]_vars PROVE DInv'
  OBVIOUS
<1>1. CASE UNCHANGED vars
  BY <1>1 DEF vars, DInv, TypeOK, OneEngine, TasksOfTheRun, ReadAgrees, ListedIsSeen,
              ListedAll, SweepsComplete, FullRun
<1>2. QED
  BY <1>1, SourceDInv, StartDInv, ListingDInv, TaskDInv, RunDInv, RequestDInv DEF Next

LEMMA SweepStep ==
  ASSUME DInv, NEW e \in Engines, NEW i \in Items, Sweep(e),
         record'[i].status = "deleted", record[i].status # "deleted"
  PROVE  i \notin engine[e].base
<1>1. engine[e].phase = "sweep" /\ engine[e].complete /\ engine[e].kind = "full"
  BY DEF Sweep, DInv, SweepsComplete
<1>2. i \in Unseen(e)
  BY DEF Sweep
<1>3. task[e][i].step = "none"
  BY <1>1 DEF DInv, TasksOfTheRun
<1>4. i \notin engine[e].listed
  BY <1>1, <1>2, <1>3 DEF DInv, ListedIsSeen, FullRun, Unseen, Known
<1>5. QED
  BY <1>1, <1>4 DEF DInv, ListedAll, FullRun

\* The sweep of a run archives nothing the source held all through it, if runs do
\* not overlap, failures are recorded, and listings skip nothing.
THEOREM SweepSound == ASSUME Sound PROVE Spec => SweepArchivesOnlyGone
<1>1. DInv /\ [Next]_vars =>
        [\A e \in Engines, i \in Items :
           Sweep(e) /\ record'[i].status = "deleted" /\ record[i].status # "deleted"
             => i \notin engine[e].base]_vars
  BY SweepStep
<1>2. DInv /\ [Next]_vars => DInv'
  BY DInvStep
<1>3. QED
  BY <1>1, <1>2, InitDInv, PTL DEF Spec, SweepArchivesOnlyGone
-----------------------------------------------------------------------------
(* Runs that do not overlap, whatever else happens.                        *)

Alone == "overlap" \notin Env
AInv == TypeOK /\ OneEngine /\ TasksOfTheRun

LEMMA StartAlone ==
  ASSUME Alone, AInv, NEW e \in Engines, StartSync(e) \/ StartTargets(e)
  PROVE  /\ \A f \in Engines, i \in Items : task[f][i].step = "none"
         /\ AInv'
<1>1. PICK kind \in {"full", "feed", "targets"}, todo \in SUBSET Items : Start(e, kind, todo)
  BY DEF StartSync, StartTargets, Changed
<1>2. \A f \in Engines : engine[f].phase = "idle"
  BY <1>1 DEF Start, Alone
<1>3. \A f \in Engines, i \in Items : task[f][i].step = "none"
  BY <1>2 DEF AInv, TasksOfTheRun
<1>4. engine'[e].phase = "listing" /\ \A f \in Engines \ {e} : engine'[f] = engine[f]
  BY <1>1 DEF Start, AInv, TypeOK, IdleEngine
<1>5. task' = task
  BY <1>1 DEF Start
<1>6. QED
  BY <1>2, <1>3, <1>4, <1>5, StartTypes DEF AInv, OneEngine, TasksOfTheRun

\* What a listing yields of an item.
Yielded(e, i) == IF engine[e].kind = "feed" THEN engine[e].start[i] ELSE Shown(i)

LEMMA ListItemTask ==
  ASSUME TypeOK, NEW e \in Engines, NEW i \in Items, ListItem(e, i)
  PROVE  /\ \A f \in Engines, j \in Items : f # e \/ j # i => task'[f][j] = task[f][j]
         /\ \/ /\ task'[e][i].step = "listed" /\ task'[e][i].version = Yielded(e, i).version
               /\ UNCHANGED <<record, doc, handled>>
            \/ task' = task /\ ArchiveByExternalId(e, i, Yielded(e, i).version)
<1> DEFINE new == [NoTask EXCEPT !.step = "listed", !.version = Yielded(e, i).version]
<1>1. CASE Submit(e, i, Yielded(e, i).version) /\ UNCHANGED <<record, doc, handled>>
  <2>1. task' = [task EXCEPT ![e][i] = new]
    BY <1>1 DEF Submit
  <2>2. new.step = "listed" /\ new.version = Yielded(e, i).version
    BY DEF NoTask
  <2> HIDE DEF new
  <2>3. task'[e][i] = new /\ \A f \in Engines, j \in Items : f # e \/ j # i => task'[f][j] = task[f][j]
    BY <2>1 DEF TypeOK
  <2>4. QED
    BY <1>1, <2>2, <2>3
<1>2. CASE ArchiveByExternalId(e, i, Yielded(e, i).version)
  BY <1>2 DEF ArchiveByExternalId
<1>3. QED
  BY <1>1, <1>2 DEF ListItem, Yielded

LEMMA ListItemAlone ==
  ASSUME AInv, NEW e \in Engines, NEW i \in Items, ListItem(e, i)
  PROVE  /\ \A f \in Engines : task[f][i].step = "none"
         /\ AInv'
<1>1. engine' = [engine EXCEPT ![e].listed = @ \union {i}] /\ engine[e] \in Engine
  BY DEF ListItem, Submit, ArchiveByExternalId, AInv, TypeOK
<1>2. /\ engine[e].phase = "listing" /\ i \notin engine[e].listed
      /\ engine'[e].phase = "listing" /\ engine'[e].listed = engine[e].listed \union {i}
      /\ \A f \in Engines \ {e} : engine'[f] = engine[f]
  BY <1>1 DEF ListItem, Listing, AInv, TypeOK, Engine
<1>3. \A f \in Engines : task[f][i].step = "none"
  BY <1>2 DEF AInv, OneEngine, TasksOfTheRun
<1>4. \A f \in Engines, j \in Items : f # e \/ j # i => task'[f][j] = task[f][j]
  BY ListItemTask DEF AInv
<1>5. OneEngine' /\ TasksOfTheRun'
  BY <1>2, <1>4 DEF AInv, OneEngine, TasksOfTheRun
<1>6. QED
  BY <1>3, <1>5, ListItemTypes DEF AInv

\* A step that starts no engine and no task.
LEMMA QuietAlone ==
  ASSUME AInv, TypeOK',
         \A f \in Engines : engine'[f].phase # "idle" => engine[f].phase # "idle",
         \A f \in Engines, j \in Items : task'[f][j].step # "none" =>
           /\ task[f][j].step # "none" /\ engine'[f].phase \in {"listing", "gather"}
           /\ engine'[f].listed = engine[f].listed
  PROVE  AInv'
BY DEF AInv, OneEngine, TasksOfTheRun

LEMMA SourceAlone ==
  ASSUME AInv, NEW i \in Items, SourceStep(i)
  PROVE  AInv'
<1>1. PICK h \in BOOLEAN, c \in Contents : Change(i, h, c)
  BY DEF SourceStep, Edit, Remove, Return, AInv, TypeOK, Item
<1>2. \A f \in Engines : engine'[f].phase = engine[f].phase /\ engine'[f].listed = engine[f].listed
  BY <1>1 DEF Change, AInv, TypeOK, Engine
<1>3. TypeOK' /\ task' = task
  BY <1>1, SourceTypes DEF Change, AInv
<1>4. QED
  BY <1>2, <1>3, QuietAlone DEF AInv, TasksOfTheRun

LEMMA ListingAlone ==
  ASSUME AInv, NEW e \in Engines, ListingStep(e), \A i \in Items : ~ListItem(e, i)
  PROVE  AInv' /\ UNCHANGED <<world, record, doc, task, cursor, deletion, handled>>
<1>1. TypeOK' /\ engine[e] \in Engine
  BY ListingTypes DEF AInv, TypeOK
<1> DEFINE Kept == /\ engine[e].phase = "listing" /\ engine'[e].phase \in {"listing", "gather"}
                   /\ engine'[e].listed = engine[e].listed
                   /\ \A f \in Engines \ {e} : engine'[f] = engine[f]
<1>2. Kept
  <2>1. ASSUME NEW i \in Items, SkipItem(e, i) PROVE Kept
    BY <1>1, <2>1 DEF SkipItem, Listing, AInv, TypeOK, Engine
  <2>2. ASSUME NEW i \in Items, LookupFails(e, i) PROVE Kept
    BY <1>1, <2>2 DEF LookupFails, Listing, AInv, TypeOK, Engine
  <2>3. CASE ListEnds(e)
    BY <1>1, <2>3 DEF ListEnds, AInv, TypeOK, Engine
  <2>4. CASE ListBreak(e) \/ ListRaises(e)
    BY <1>1, <2>4 DEF ListBreak, ListRaises, AInv, TypeOK, Engine
  <2>5. QED
    BY <2>1, <2>2, <2>3, <2>4 DEF ListingStep
<1>3. UNCHANGED <<world, record, doc, task, cursor, deletion, handled>>
  BY DEF ListingStep, SkipItem, LookupFails, ListEnds, ListBreak, ListRaises
<1>4. QED
  BY <1>1, <1>2, <1>3, QuietAlone DEF AInv, TasksOfTheRun

LEMMA TaskAlone ==
  ASSUME AInv, NEW e \in Engines, NEW i \in Items, TaskStep(e, i)
  PROVE  /\ task[e][i].step # "none"
         /\ \A f \in Engines, j \in Items : f # e \/ j # i => task'[f][j] = task[f][j]
         /\ \A f \in Engines : f # e => engine[f].phase = "idle" /\ task[f][i].step = "none"
         /\ AInv'
<1>1. engine[e] \in Engine /\ TypeOK'
  BY TaskTypes DEF AInv, TypeOK
<1>2. task[e][i].step # "none"
  BY DEF TaskStep, MarkSeen, Fetch, Commit, Fail, FailUnrecorded, Raises
<1>3. \A f \in Engines, j \in Items : f # e \/ j # i => task'[f][j] = task[f][j]
  BY DEF TaskStep, MarkSeen, Fetch, Commit, Fail, FailUnrecorded, Processed, AInv, TypeOK
<1>4. \A f \in Engines : f # e => engine[f].phase = "idle" /\ task[f][i].step = "none"
  BY <1>2 DEF AInv, OneEngine, TasksOfTheRun
<1>5. \A f \in Engines : engine'[f].phase = engine[f].phase /\ engine'[f].listed = engine[f].listed
  BY <1>1 DEF TaskStep, MarkSeen, Fetch, Commit, Fail, FailUnrecorded, AInv, TypeOK, Engine
<1>6. QED
  BY <1>1, <1>2, <1>3, <1>4, <1>5, QuietAlone DEF AInv, TasksOfTheRun

LEMMA RunAlone ==
  ASSUME AInv, NEW e \in Engines, RunStep(e)
  PROVE  /\ \A f \in Engines, i \in Items : task[f][i].step = "none"
         /\ engine[e].phase \in {"gather", "sweep", "finish"}
         /\ AInv'
<1>1. /\ engine[e].phase \in {"gather", "sweep", "finish"} /\ task' = task
      /\ \A f \in Engines \ {e} : engine'[f] = engine[f]
  BY DEF RunStep, Gathered, Sweep, Finish, AInv, TypeOK
<1>2. \A i \in Items : task[e][i].step = "none"
  BY <1>1 DEF RunStep, Gathered, Sweep, Finish, AInv, TasksOfTheRun
<1>3. \A f \in Engines, i \in Items : task[f][i].step = "none"
  BY <1>1, <1>2 DEF AInv, OneEngine, TasksOfTheRun
<1>4. QED
  BY <1>1, <1>3, RunTypes, QuietAlone DEF AInv

LEMMA RequestAlone ==
  ASSUME AInv,
         \/ \E i \in Items : RetryDocument(i)
         \/ \E e \in Engines : RequestCancel(e)
         \/ DeleteCancels \/ DeleteArchives
  PROVE  AInv' /\ task' = task
<1>1. TypeOK'
  BY RequestTypes DEF AInv
<1>2. task' = task
  BY DEF RetryDocument, RequestCancel, DeleteCancels, DeleteArchives
<1>3. \A f \in Engines : engine'[f].phase = engine[f].phase /\ engine'[f].listed = engine[f].listed
  <2> TAKE f \in Engines
  <2>1. engine[f] \in Engine
    BY DEF AInv, TypeOK
  <2>2. engine'[f] = engine[f] \/ \E c \in BOOLEAN : engine'[f] = [engine[f] EXCEPT !.cancel = c]
    BY DEF RetryDocument, RequestCancel, DeleteCancels, DeleteArchives, AInv, TypeOK
  <2>3. QED
    BY <2>1, <2>2 DEF Engine
<1>4. QED
  BY <1>1, <1>2, <1>3, QuietAlone DEF AInv, TasksOfTheRun


-----------------------------------------------------------------------------
(* Records and the documents they are about.                               *)

\* What a task read of the record still holds of it, except that the source may have
\* been deleted under the run.
ReadIsCurrent == \A e \in Engines, i \in Items :
  LET read == task[e][i].read
  IN task[e][i].step = "fetched" =>
       /\ read.document = record[i].document /\ read.hash = record[i].hash
       /\ \/ read.status = record[i].status
          \/ deletion = "done" /\ record[i].status = "deleted"
\* A document is made together with the record that names it.
DocumentOnRecord == \A i \in Items :
  /\ doc[i].status # "none" => record[i].document
  /\ record[i].status = "none" => ~record[i].document
RInv == ReadIsCurrent /\ DocumentOnRecord /\ RecordDescribesDocument

\* A step that changes no document and nothing of a record that RInv is about.
LEMMA QuietRInv ==
  ASSUME RInv, doc' = doc, deletion' = deletion \/ (deletion' = "cancelled" /\ deletion = "no"),
         \A i \in Items : /\ record'[i].document = record[i].document
                          /\ record'[i].hash = record[i].hash
                          /\ record'[i].status = record[i].status,
         \A e \in Engines, i \in Items :
           task'[e][i].step = "fetched" => task'[e][i] = task[e][i]
  PROVE  RInv'
<1>1. ReadIsCurrent'
  BY DEF RInv, ReadIsCurrent
<1>2. DocumentOnRecord' /\ RecordDescribesDocument'
  BY DEF RInv, DocumentOnRecord, RecordDescribesDocument
<1>3. QED
  BY <1>1, <1>2 DEF RInv

\* Records and documents archived together, of items that no task has fetched.
LEMMA ArchiveRInv ==
  ASSUME RInv, TypeOK, deletion' = deletion, NEW S \in SUBSET Items,
         \A i \in S : record[i].status # "none",
         \A i \in S : record'[i] = Archived(i) /\ doc'[i] = ArchivedDocument(i),
         \A i \in Items \ S : record'[i] = record[i] /\ doc'[i] = doc[i],
         \A e \in Engines, i \in Items :
           task'[e][i].step = "fetched" => i \notin S /\ task'[e][i] = task[e][i]
  PROVE  RInv'
<1>1. \A i \in S : /\ record'[i].document = record[i].document
                   /\ record'[i].hash = record[i].hash /\ record'[i].status = "deleted"
  <2> TAKE i \in S
  <2>1. record[i] \in Record
    BY DEF TypeOK
  <2>2. QED
    BY <2>1 DEF Archived, Record
<1>2. \A i \in S : /\ doc'[i].content = doc[i].content
                   /\ doc'[i].status = IF record[i].document /\ doc[i].status # "none"
                                       THEN "ARCHIVED" ELSE doc[i].status
  <2> TAKE i \in S
  <2>1. doc[i] \in Document
    BY DEF TypeOK
  <2>2. QED
    BY <2>1 DEF ArchivedDocument, Document
<1>3. ReadIsCurrent'
  BY DEF RInv, ReadIsCurrent
<1>4. DocumentOnRecord'
  BY <1>1, <1>2 DEF RInv, DocumentOnRecord
<1>5. RecordDescribesDocument'
  BY <1>1, <1>2 DEF RInv, RecordDescribesDocument, DocumentOnRecord
<1>6. QED
  BY <1>3, <1>4, <1>5 DEF RInv

\* A task's commit gives the record the content the document then has.
LEMMA CommitRInv ==
  ASSUME AInv, RInv, NEW e \in Engines, NEW i \in Items, Commit(e, i)
  PROVE  RInv'
<1> DEFINE t == task[e][i]
           read == task[e][i].read
<1>1. /\ t \in Task /\ read \in Record /\ record[i] \in Record /\ doc[i] \in Document
      /\ t.content \in Content /\ t.version \in Version
  BY DEF AInv, TypeOK, Task
<1>2. /\ t.step = "fetched" /\ read.document = record[i].document /\ read.hash = record[i].hash
      /\ read.status = record[i].status \/ (deletion = "done" /\ record[i].status = "deleted")
  BY DEF Commit, RInv, ReadIsCurrent
<1>3. /\ \A f \in Engines, j \in Items : f # e \/ j # i => task'[f][j] = task[f][j]
      /\ \A f \in Engines : f # e => task[f][i].step = "none"
      /\ task'[e][i] = NoTask
  <2>1. TaskStep(e, i) /\ task' = [task EXCEPT ![e][i] = NoTask]
    BY DEF TaskStep, Commit, Processed
  <2>2. task'[e][i] = NoTask
    BY <2>1 DEF AInv, TypeOK
  <2>3. QED
    BY <2>1, <2>2, TaskAlone
<1>4. deletion' = deletion /\ \A j \in Items \ {i} : record'[j] = record[j] /\ doc'[j] = doc[j]
  BY DEF Commit, Touched, Reindexed, AInv, TypeOK
<1>5. ReadIsCurrent'
  <2> SUFFICES ASSUME NEW f \in Engines, NEW j \in Items, task'[f][j].step = "fetched"
               PROVE  j # i /\ task'[f][j] = task[f][j]
    BY <1>4 DEF RInv, ReadIsCurrent
  <2>1. QED
    BY <1>3 DEF NoTask
<1>6. /\ record'[i].document /\ record'[i].status # "none"
      /\ doc'[i].status # "none" /\ doc'[i].content = record'[i].hash
      /\ record'[i].status = "deleted" /\ deletion # "done" => FALSE
  <2>1. Filled(read, t, e) \in Record /\ \A g \in {"status", "hash", "document"} : Filled(read, t, e)[g] = read[g]
    BY <1>1 DEF Filled, Record
  <2> HIDE DEF t, read
  <2>2. CASE Touched(e, i) /\ SameContent(t)
    <3> DEFINE new == [Filled(read, t, e) EXCEPT
                         !.status = IF read.status = "deleted" THEN "updated" ELSE @]
    <3>1. /\ new \in Record /\ new.hash = read.hash /\ new.document = read.document
          /\ new.status = IF read.status = "deleted" THEN "updated" ELSE read.status
      BY <1>1, <2>1 DEF Record
    <3>2. record'[i] = Written(new, read, record[i])
      BY <2>2 DEF Touched, AInv, TypeOK, t, read
    <3> HIDE DEF new
    <3>3. /\ record'[i].hash = record[i].hash /\ record'[i].document = record[i].document
          /\ record'[i].status = IF read.status = "deleted" THEN "updated" ELSE record[i].status
      BY <1>1, <3>1, <3>2 DEF Written, Record
    <3>4. read.document
      BY <2>2 DEF SameContent, t, read
    <3>5. doc'[i].content = doc[i].content /\ (doc[i].status # "none" => doc'[i].status # "none")
      BY <1>1, <2>2 DEF Touched, AInv, TypeOK, Document
    <3>6. QED
      BY <1>2, <3>3, <3>4, <3>5 DEF RInv, DocumentOnRecord, RecordDescribesDocument
  <2>3. CASE Reindexed(e, i)
    <3> DEFINE New(status) == [Filled(read, t, e) EXCEPT !.status = status, !.hash = t.content,
                                 !.document = TRUE, !.failures = 0]
    <3>1. 0 \in 0..MaxFailures
      BY DocumentsAssumption
    <3>2. \A status \in {"updated", "indexed"} :
            /\ New(status) \in Record /\ New(status).hash = t.content
            /\ New(status).document /\ New(status).status = status
      BY <1>1, <2>1, <3>1 DEF Record, t
    <3>3. PICK status \in {"updated", "indexed"} :
            record'[i] = Written(New(status), read, record[i])
      BY <2>3 DEF Reindexed, AInv, TypeOK, t, read
    <3> HIDE DEF New
    <3>4. \A new \in Record : \A g \in {"status", "hash", "document"} :
            Written(new, read, record[i])[g] = IF new[g] # read[g] THEN new[g] ELSE record[i][g]
      BY <1>1 DEF Written, Record
    <3>5. record'[i].hash = t.content /\ record'[i].document
          /\ (deletion # "done" => record'[i].status = status)
          /\ record'[i].status \in {status, record[i].status}
      BY <1>1, <1>2, <3>2, <3>3, <3>4 DEF t, read
    <3>6. /\ doc'[i] = Ingested(doc[i], t.content)
          /\ doc'[i].status # "none" /\ doc'[i].content = t.content
      BY <1>1, <2>3 DEF Reindexed, Ingested, AInv, TypeOK, t
    <3>7. record'[i].status # "none"
      <4>1. record'[i].status = IF status # read.status THEN status ELSE record[i].status
        BY <3>2, <3>3, <3>4
      <4>2. QED
        BY <1>2, <4>1 DEF t, read
    <3>8. QED
      BY <3>5, <3>6, <3>7
  <2>4. QED
    BY <2>2, <2>3 DEF Commit, t
<1>7. DocumentOnRecord' /\ RecordDescribesDocument'
  BY <1>4, <1>6 DEF RInv, DocumentOnRecord, RecordDescribesDocument
<1>8. QED
  BY <1>5, <1>7 DEF RInv

LEMMA TaskRInv ==
  ASSUME AInv, RInv, NEW e \in Engines, NEW i \in Items, TaskStep(e, i)
  PROVE  RInv'
<1>1. record[i] \in Record /\ task[e][i] \in Task
  BY DEF AInv, TypeOK
<1>2. \A f \in Engines, j \in Items : f # e \/ j # i => task'[f][j] = task[f][j]
  BY TaskAlone
<1>3. \A f \in Engines : f # e => task[f][i].step = "none"
  BY TaskAlone
<1>4. ASSUME Processed(e, i) \/ FailUnrecorded(e, i) PROVE task'[e][i].step = "none"
  BY <1>4 DEF Processed, FailUnrecorded, NoTask, AInv, TypeOK
<1>5. CASE MarkSeen(e, i)
  <2>1. /\ \A j \in Items \ {i} : record'[j] = record[j]
        /\ \A g \in {"document", "hash", "status"} : record'[i][g] = record[i][g]
    BY <1>1, <1>5 DEF MarkSeen, AInv, TypeOK, Record
  <2>2. QED
    BY <1>2, <1>4, <1>5, <2>1, QuietRInv DEF MarkSeen
<1>6. CASE Fetch(e, i)
  <2>1. task'[e][i].read = record[i] /\ UNCHANGED <<record, doc, deletion>>
    BY <1>1, <1>6 DEF Fetch, AInv, TypeOK, Task
  <2>2. ReadIsCurrent'
    BY <1>2, <2>1 DEF RInv, ReadIsCurrent
  <2>3. DocumentOnRecord' /\ RecordDescribesDocument'
    BY <2>1 DEF RInv, DocumentOnRecord, RecordDescribesDocument
  <2>4. QED
    BY <2>2, <2>3 DEF RInv
<1>7. CASE Commit(e, i)
  BY <1>7, CommitRInv
<1>8. CASE Fail(e, i)
  <2>1. /\ \A j \in Items \ {i} : record'[j] = record[j]
        /\ record'[i].document = record[i].document /\ record'[i].hash = record[i].hash
        /\ record'[i].status = "failed"
        /\ UNCHANGED <<doc, deletion>>
    BY <1>1, <1>8 DEF Fail, AInv, TypeOK, Record
  <2>2. \A f \in Engines : task'[f][i].step # "fetched"
    BY <1>2, <1>3, <1>4, <1>8 DEF Fail
  <2>3. ReadIsCurrent'
    BY <1>2, <2>1, <2>2 DEF RInv, ReadIsCurrent
  <2>4. DocumentOnRecord' /\ RecordDescribesDocument'
    BY <2>1 DEF RInv, DocumentOnRecord, RecordDescribesDocument
  <2>5. QED
    BY <2>3, <2>4 DEF RInv
<1>9. CASE FailUnrecorded(e, i)
  BY <1>2, <1>4, <1>9, QuietRInv DEF FailUnrecorded
<1>10. QED
  BY <1>5, <1>6, <1>7, <1>8, <1>9 DEF TaskStep

LEMMA EngineRInv ==
  ASSUME Alone, AInv, RInv, NEW e \in Engines,
         StartSync(e) \/ StartTargets(e) \/ ListingStep(e) \/ RunStep(e)
  PROVE  RInv'
<1>1. CASE StartSync(e) \/ StartTargets(e)
  <2>1. /\ \A i \in Items : record'[i] = record[i] \/ record'[i] = [record[i] EXCEPT !.seen = Nothing]
        /\ UNCHANGED <<doc, task, deletion>>
    BY <1>1 DEF StartSync, StartTargets, Start
  <2>2. \A i \in Items : /\ record'[i].document = record[i].document
                         /\ record'[i].hash = record[i].hash
                         /\ record'[i].status = record[i].status
    <3> TAKE i \in Items
    <3>1. record[i] \in Record
      BY DEF AInv, TypeOK
    <3>2. QED
      BY <2>1, <3>1 DEF Record
  <2>3. QED
    BY <2>1, <2>2, QuietRInv
<1>2. ASSUME NEW i \in Items, ListItem(e, i) PROVE RInv'
  <2>1. \A f \in Engines, j \in Items : f # e \/ j # i => task'[f][j] = task[f][j]
    BY <1>2, ListItemTask DEF AInv
  <2>2. \A f \in Engines : task[f][i].step = "none"
    BY <1>2, ListItemAlone
  <2>3. deletion' = deletion
    BY <1>2 DEF ListItem
  <2>4. CASE task'[e][i].step = "listed" /\ UNCHANGED <<record, doc>>
    BY <2>1, <2>3, <2>4, QuietRInv
  <2>5. CASE task' = task /\ UNCHANGED <<record, doc>>
    BY <2>3, <2>5, QuietRInv
  <2>6. CASE /\ task' = task /\ record[i].status # "none"
             /\ record' = [record EXCEPT ![i] = Archived(i)]
             /\ doc' = [doc EXCEPT ![i] = ArchivedDocument(i)]
    <3>1. /\ record'[i] = Archived(i) /\ doc'[i] = ArchivedDocument(i)
          /\ \A j \in Items \ {i} : record'[j] = record[j] /\ doc'[j] = doc[j]
      BY <2>6 DEF AInv, TypeOK
    <3>2. \A f \in Engines, j \in Items :
            task'[f][j].step = "fetched" => j \notin {i} /\ task'[f][j] = task[f][j]
      BY <2>2, <2>6
    <3>3. TypeOK /\ {i} \in SUBSET Items
      BY DEF AInv
    <3>4. QED
      BY <2>3, <2>6, <3>1, <3>2, <3>3, ArchiveRInv
  <2>7. QED
    BY <1>2, <2>4, <2>5, <2>6, ListItemTask DEF AInv, ArchiveByExternalId
<1>3. CASE ListingStep(e) /\ \A i \in Items : ~ListItem(e, i)
  BY <1>3, ListingAlone, QuietRInv
<1>4. CASE Gathered(e) \/ Finish(e)
  BY <1>4, QuietRInv DEF Gathered, Finish
<1>5. CASE Sweep(e)
  <2>1. \A f \in Engines, i \in Items : task[f][i].step = "none"
    BY <1>5, RunAlone DEF RunStep
  <2> DEFINE removed == IF HeldBack(e) THEN {} ELSE Unseen(e)
  <2>2. /\ removed \in SUBSET Items
        /\ \A i \in removed : record[i].status # "none"
        /\ record' = [i \in Items |-> IF i \in removed THEN Archived(i) ELSE record[i]]
        /\ doc' = [i \in Items |-> IF i \in removed THEN ArchivedDocument(i) ELSE doc[i]]
    BY <1>5 DEF Sweep, Unseen, Known
  <2> HIDE DEF removed
  <2>3. deletion' = deletion /\ task' = task
    BY <1>5 DEF Sweep
  <2>4. QED
    BY <2>1, <2>2, <2>3, ArchiveRInv DEF AInv
<1>6. QED
  BY <1>1, <1>2, <1>3, <1>4, <1>5 DEF RunStep

LEMMA RequestRInv ==
  ASSUME AInv, RInv,
         \/ \E i \in Items : RetryDocument(i)
         \/ \E e \in Engines : RequestCancel(e)
         \/ DeleteCancels \/ DeleteArchives
  PROVE  RInv'
<1>1. task' = task
  BY RequestAlone
<1>2. ASSUME NEW i \in Items, RetryDocument(i) PROVE RInv'
  <2>1. \A j \in Items : \A g \in {"document", "hash", "status"} : record'[j][g] = record[j][g]
    BY <1>2 DEF RetryDocument, AInv, TypeOK, Record
  <2>2. QED
    BY <1>1, <1>2, <2>1, QuietRInv DEF RetryDocument
<1>3. CASE (\E e \in Engines : RequestCancel(e)) \/ DeleteCancels
  BY <1>1, <1>3, QuietRInv DEF RequestCancel, DeleteCancels
<1>4. CASE DeleteArchives
  <2>1. \A i \in Items :
          /\ record'[i].document = record[i].document /\ record'[i].hash = record[i].hash
          /\ record'[i].status = "none" <=> record[i].status = "none"
          /\ record'[i].status \in {"none", "deleted"}
          /\ doc'[i].content = doc[i].content
          /\ doc'[i].status = "none" <=> doc[i].status = "none"
    <3> TAKE i \in Items
    <3>1. record[i] \in Record /\ doc[i] \in Document
      BY DEF AInv, TypeOK
    <3>2. QED
      BY <1>4, <3>1 DEF DeleteArchives, Record, Document
  <2>2. deletion' = "done"
    BY <1>4 DEF DeleteArchives
  <2>3. ReadIsCurrent'
    BY <1>1, <2>1, <2>2 DEF RInv, ReadIsCurrent
  <2>4. DocumentOnRecord' /\ RecordDescribesDocument'
    BY <2>1, <2>2 DEF RInv, DocumentOnRecord, RecordDescribesDocument
  <2>5. QED
    BY <2>3, <2>4 DEF RInv
<1>5. QED
  BY <1>2, <1>3, <1>4

LEMMA AInvStep == Alone /\ AInv /\ [Next]_vars => AInv'
<1> SUFFICES ASSUME Alone, AInv, [Next]_vars PROVE AInv'
  OBVIOUS
<1>1. CASE UNCHANGED vars
  BY <1>1 DEF vars, AInv, TypeOK, OneEngine, TasksOfTheRun
<1>2. ASSUME NEW e \in Engines, ListingStep(e) PROVE AInv'
  BY <1>2, ListItemAlone, ListingAlone
<1>3. QED
  BY <1>1, <1>2, SourceAlone, StartAlone, TaskAlone, RunAlone, RequestAlone DEF Next

LEMMA RInvStep == Alone /\ AInv /\ RInv /\ [Next]_vars => RInv'
<1> SUFFICES ASSUME Alone, AInv, RInv, [Next]_vars PROVE RInv'
  OBVIOUS
<1>1. CASE UNCHANGED vars
  BY <1>1, QuietRInv DEF vars
<1>2. ASSUME NEW i \in Items, SourceStep(i) PROVE RInv'
  BY <1>2, QuietRInv DEF SourceStep, Edit, Remove, Return, Change
<1>3. QED
  BY <1>1, <1>2, EngineRInv, TaskRInv, RequestRInv DEF Next

LEMMA InitAInv == Init => AInv /\ RInv
<1>1. Init => OneEngine /\ TasksOfTheRun /\ RInv
  BY DEF Init, OneEngine, TasksOfTheRun, RInv, ReadIsCurrent, DocumentOnRecord,
         RecordDescribesDocument, IdleEngine, NoTask, NoRecord
<1>2. QED
  BY <1>1, InitTypes DEF AInv

\* If runs do not overlap, a record describes the document its item has: the hash that
\* decides whether an item is ingested again is the document's, through failures,
\* failures that get lost, listings that skip or break off, retries, restores, sweeps,
\* and a deletion of the source under a run; and what was removed is not in retrieval.
THEOREM RecordsAreTrue == ASSUME Alone PROVE Spec => []RecordDescribesDocument
<1>1. AInv /\ RInv /\ [Next]_vars => AInv' /\ RInv'
  BY AInvStep, RInvStep
<1>2. RInv => RecordDescribesDocument
  BY DEF RInv
<1>3. QED
  BY <1>1, <1>2, InitAInv, PTL DEF Spec

-----------------------------------------------------------------------------
(* The change feed.                                                        *)

\* Runs do not overlap, listings skip nothing, and no failure goes unrecorded.
Complete == Env \intersect {"overlap", "skips", "unrecorded"} = {}

Feeding(e) == engine[e].phase # "idle" /\ "feed" \in Env
\* The cursor and what was dealt with are never ahead of the source, and an item whose
\* present version was reported was dealt with in that version, also in mid-run.
Behind == \A i \in Items :
  /\ 0 < world[i].version
  /\ cursor[i] <= world[i].version /\ handled[i] <= world[i].version
  /\ world[i].here /\ cursor[i] = world[i].version => handled[i] = world[i].version
  /\ "feed" \notin Env => cursor[i] = 0
\* A task's version, and the run's view of the source, lie between cursor and source.
TaskBetween == \A e \in Engines, i \in Items :
  task[e][i].step # "none" => /\ cursor[i] <= task[e][i].version
                              /\ task[e][i].version <= world[i].version
StartBetween == \A e \in Engines, i \in Items :
  LET start == engine[e].start[i]
  IN Feeding(e) => /\ cursor[i] <= start.version /\ start.version <= world[i].version
                   /\ start.version = world[i].version => start.here = world[i].here
\* A listed item is dealt with in a version no older than the run's view.
ListedSince == \A e \in Engines, i \in Items :
  Feeding(e) /\ engine[e].kind # "targets" /\ i \in engine[e].listed =>
    engine[e].start[i].version <=
      (IF task[e][i].step = "none" THEN handled[i] ELSE task[e][i].version)
\* A full listing goes through all items; what a feed leaves out has not changed since
\* the cursor.
TodoCovers == \A e \in Engines :
  /\ engine[e].kind = "feed" => "feed" \in Env
  /\ \A i \in Items :
       LET start == engine[e].start[i]
       IN Feeding(e) =>
            CASE engine[e].kind = "full" ->
                   /\ i \in engine[e].todo
                   /\ (start.version = world[i].version /\ start.here) => i \in engine[e].base
              [] engine[e].kind = "feed" ->
                   start.version # cursor[i] => i \in engine[e].todo
              [] OTHER -> TRUE
\* A listing that was neither cancelled nor broken off went through its items.
EndsComplete == \A e \in Engines :
  /\ engine[e].phase = "listing" => ~engine[e].complete
  /\ engine[e].complete => Exhausted(e)
  /\ engine[e].phase \notin {"idle", "listing"} =>
       engine[e].complete \/ engine[e].cancel \/ engine[e].raised
FInv == Behind /\ TaskBetween /\ StartBetween /\ ListedSince /\ TodoCovers /\ EndsComplete

LEMMA VersionsAreNumbers ==
  ASSUME TypeOK
  PROVE  /\ \A i \in Items : world[i].version \in Nat /\ cursor[i] \in Nat /\ handled[i] \in Nat
         /\ \A e \in Engines, i \in Items :
              engine[e].start[i].version \in Nat /\ task[e][i].version \in Nat
<1>1. Version \subseteq Nat
  BY DocumentsAssumption DEF Version
<1>2. \A i \in Items : world[i].version \in Nat /\ cursor[i] \in Nat /\ handled[i] \in Nat
  BY <1>1 DEF TypeOK, Item
<1>3. ASSUME NEW e \in Engines, NEW i \in Items
      PROVE  engine[e].start[i].version \in Nat /\ task[e][i].version \in Nat
  <2>1. engine[e].start[i] \in Seen /\ task[e][i] \in Task
    BY DEF TypeOK, Engine
  <2>2. QED
    BY <1>1, <2>1 DEF Seen, Task
<1>4. QED
  BY <1>2, <1>3

\* What is dealt with in a version between cursor and source.
LEMMA NotedBehind ==
  ASSUME Behind, TypeOK, UNCHANGED <<world, cursor>>, NEW S \in SUBSET Items, NEW version,
         handled' = Noted(S, version),
         \A i \in S : "feed" \in Env =>
           version[i] \in Nat /\ cursor[i] <= version[i] /\ version[i] <= world[i].version
  PROVE  Behind'
<1>1. \A i \in Items : handled'[i] = IF "feed" \in Env /\ i \in S THEN version[i] ELSE handled[i]
  BY DEF Noted
<1>2. QED
  BY <1>1, VersionsAreNumbers DEF Behind

\* The engine fields FInv is about, when only the phase, cancel or raised may change.
LEMMA EngineFInv ==
  ASSUME FInv, UNCHANGED <<world, task, cursor>>, Behind',
         \A e \in Engines :
           /\ engine'[e].phase # "idle" => engine[e].phase # "idle"
           /\ engine'[e].phase = "listing" => engine[e].phase = "listing"
           /\ engine'[e].kind = engine[e].kind /\ engine'[e].start = engine[e].start
           /\ engine'[e].base = engine[e].base /\ engine'[e].listed = engine[e].listed
           /\ engine[e].kind # "targets" => engine'[e].todo = engine[e].todo
           /\ engine'[e].complete = engine[e].complete \/ engine'[e].phase = "gather"
           /\ engine'[e].complete => Exhausted(e)'
           /\ engine'[e].phase \notin {"idle", "listing"} =>
                engine'[e].complete \/ engine'[e].cancel \/ engine'[e].raised,
         \A e \in Engines, i \in Items :
           handled'[i] = handled[i] \/ (Feeding(e) => engine[e].start[i].version <= handled'[i])
  PROVE  FInv'
<1>1. TaskBetween' /\ StartBetween'
  BY DEF FInv, TaskBetween, StartBetween, Feeding
<1>2. ListedSince'
  BY DEF FInv, ListedSince, Feeding
<1>3. TodoCovers'
  BY DEF FInv, TodoCovers, Feeding
<1>4. EndsComplete'
  BY DEF FInv, EndsComplete
<1>5. QED
  BY <1>1, <1>2, <1>3, <1>4 DEF FInv

LEMMA SourceFInv ==
  ASSUME AInv, FInv, NEW i \in Items, SourceStep(i)
  PROVE  FInv'
<1>1. PICK h \in BOOLEAN, c \in Contents : Change(i, h, c)
  BY DEF SourceStep, Edit, Remove, Return, AInv, TypeOK, Item
<1>2. /\ world'[i].version = world[i].version + 1
      /\ \A j \in Items \ {i} : world'[j] = world[j]
      /\ UNCHANGED <<task, cursor, handled>>
  BY <1>1 DEF Change, AInv, TypeOK, Item
<1>3. \A e \in Engines :
        /\ \A g \in {"phase", "kind", "todo", "listed", "start", "complete", "cancel", "raised"} :
             engine'[e][g] = engine[e][g]
        /\ engine'[e].base \subseteq engine[e].base
        /\ \A j \in Items \ {i} : j \in engine[e].base => j \in engine'[e].base
  <2> TAKE e \in Engines
  <2>1. engine[e] \in Engine
    BY DEF AInv, TypeOK
  <2>2. engine'[e] = [engine[e] EXCEPT !.base = IF h THEN @ ELSE @ \ {i}]
    BY <1>1 DEF Change
  <2>3. QED
    BY <2>1, <2>2 DEF Engine
<1>4. \A e \in Engines : /\ engine'[e].phase = engine[e].phase /\ engine'[e].kind = engine[e].kind
                         /\ engine'[e].todo = engine[e].todo /\ engine'[e].listed = engine[e].listed
                         /\ engine'[e].start = engine[e].start
                         /\ engine'[e].complete = engine[e].complete
                         /\ engine'[e].cancel = engine[e].cancel
                         /\ engine'[e].raised = engine[e].raised
  BY <1>3
<1>5. Behind'
  BY <1>2, VersionsAreNumbers DEF FInv, Behind, AInv
<1>6. TaskBetween'
  BY <1>2, VersionsAreNumbers DEF FInv, TaskBetween, AInv
<1>7. StartBetween'
  BY <1>2, <1>4, VersionsAreNumbers DEF FInv, StartBetween, Feeding, AInv
<1>8. ListedSince'
  BY <1>2, <1>4 DEF FInv, ListedSince, Feeding
<1>9. TodoCovers'
  <2>1. \A e \in Engines : Feeding(e)' = Feeding(e)
    BY <1>4 DEF Feeding
  <2>2. \A e \in Engines : Feeding(e) => engine[e].start[i].version # world'[i].version
    BY <1>2, VersionsAreNumbers DEF FInv, StartBetween, AInv
  <2>3. QED
    BY <1>2, <1>3, <1>4, <2>1, <2>2 DEF FInv, TodoCovers
<1>10. EndsComplete'
  BY <1>3, <1>4 DEF FInv, EndsComplete, Exhausted
<1>11. QED
  BY <1>5, <1>6, <1>7, <1>8, <1>9, <1>10 DEF FInv

LEMMA StartFInv ==
  ASSUME Complete, AInv, FInv, NEW e \in Engines, StartSync(e) \/ StartTargets(e)
  PROVE  FInv'
<1>1. PICK kind \in {"full", "feed", "targets"}, todo \in SUBSET Items :
        /\ Start(e, kind, todo)
        /\ kind = "feed" => "feed" \in Env /\ todo = Changed
        /\ kind = "full" => todo = Items
  BY DEF StartSync, StartTargets, Changed
<1>2. /\ \A f \in Engines : engine[f].phase = "idle"
      /\ \A f \in Engines, i \in Items : task[f][i].step = "none"
  BY <1>1, StartAlone DEF Start, Complete, Alone
<1>3. /\ engine'[e].phase = "listing" /\ engine'[e].kind = kind /\ engine'[e].todo = todo
      /\ engine'[e].listed = {} /\ engine'[e].base = Here /\ ~engine'[e].complete
      /\ "feed" \in Env => engine'[e].start = [i \in Items |-> Shown(i)]
      /\ \A f \in Engines \ {e} : engine'[f] = engine[f]
  BY <1>1 DEF Start, AInv, TypeOK, IdleEngine
<1>4. UNCHANGED <<world, task, cursor, handled>>
  BY <1>1 DEF Start
<1>5. "feed" \in Env => \A i \in Items :
        /\ engine'[e].start[i].here = world[i].here
        /\ engine'[e].start[i].version = world[i].version
  BY <1>3 DEF Shown
<1>6. Behind' /\ TaskBetween'
  BY <1>2, <1>4 DEF FInv, Behind, TaskBetween
<1>7. StartBetween'
  BY <1>2, <1>3, <1>4, <1>5, VersionsAreNumbers DEF FInv, Behind, StartBetween, Feeding, AInv
<1>8. ListedSince'
  BY <1>2, <1>3 DEF ListedSince, Feeding
<1>9. TodoCovers'
  <2>1. \A f \in Engines \ {e} : ~Feeding(f)'
    BY <1>2, <1>3 DEF Feeding
  <2>2. ASSUME NEW i \in Items, kind = "full", "feed" \in Env
        PROVE  i \in todo /\ (world[i].here => i \in Here)
    BY <1>1, <2>2 DEF Here
  <2>3. ASSUME NEW i \in Items, kind = "feed", world[i].version # cursor[i]
        PROVE  i \in todo
    <3>1. cursor[i] <= world[i].version
      BY DEF FInv, Behind
    <3>2. world[i].version > cursor[i]
      BY <2>3, <3>1, VersionsAreNumbers DEF AInv
    <3>3. QED
      BY <1>1, <2>3, <3>2 DEF Changed
  <2>4. \A f \in Engines : engine'[f].kind = "feed" => "feed" \in Env
    BY <1>1, <1>3 DEF FInv, TodoCovers
  <2>5. QED
    BY <1>3, <1>4, <1>5, <2>1, <2>2, <2>3, <2>4 DEF TodoCovers, Feeding
<1>10. EndsComplete'
  BY <1>2, <1>3 DEF FInv, EndsComplete, Exhausted
<1>11. QED
  BY <1>6, <1>7, <1>8, <1>9, <1>10 DEF FInv

LEMMA ListItemFInv ==
  ASSUME AInv, FInv, NEW e \in Engines, NEW i \in Items, ListItem(e, i)
  PROVE  FInv'
<1> DEFINE v == Yielded(e, i).version
<1>1. engine' = [engine EXCEPT ![e].listed = @ \union {i}] /\ engine[e] \in Engine
  BY DEF ListItem, Submit, ArchiveByExternalId, AInv, TypeOK
<1>2. /\ engine[e].phase = "listing" /\ i \notin engine[e].listed
      /\ \A f \in Engines : \A g \in {"phase", "kind", "todo", "start", "base", "complete",
                                     "cancel", "raised"} : engine'[f][g] = engine[f][g]
      /\ engine'[e].listed = engine[e].listed \union {i}
      /\ \A f \in Engines \ {e} : engine'[f].listed = engine[f].listed
  BY <1>1 DEF ListItem, Listing, AInv, TypeOK, Engine
<1>3. \A f \in Engines :
        /\ engine'[f].phase = engine[f].phase /\ engine'[f].kind = engine[f].kind
        /\ engine'[f].todo = engine[f].todo /\ engine'[f].start = engine[f].start
        /\ engine'[f].base = engine[f].base /\ engine'[f].complete = engine[f].complete
        /\ engine'[f].cancel = engine[f].cancel /\ engine'[f].raised = engine[f].raised
  BY <1>2
<1>4. UNCHANGED <<world, cursor>>
  BY DEF ListItem
<1>5. \A f \in Engines : f # e => engine[f].phase = "idle"
  BY <1>2 DEF AInv, OneEngine
\* The yielded version lies between cursor and source, and is no older than the run's view.
<1>6. /\ v \in Nat /\ cursor[i] <= v /\ v <= world[i].version
      /\ "feed" \in Env => engine[e].start[i].version <= v
  <2>1. CASE engine[e].kind = "feed"
    BY <1>2, <2>1, VersionsAreNumbers
       DEF FInv, TodoCovers, StartBetween, Feeding, Yielded, AInv
  <2>2. CASE engine[e].kind # "feed"
    BY <1>2, <2>2, VersionsAreNumbers
       DEF FInv, Behind, StartBetween, Feeding, Yielded, Shown, AInv
  <2>3. QED
    BY <2>1, <2>2
<1> HIDE DEF v
<1>7. \A f \in Engines, j \in Items : f # e \/ j # i => task'[f][j] = task[f][j]
  BY ListItemTask DEF AInv
<1>8. task[e][i].step = "none"
  BY ListItemAlone
<1>9. \/ task'[e][i].step = "listed" /\ task'[e][i].version = v /\ handled' = handled
      \/ task'[e][i] = task[e][i] /\ handled' = Noted({i}, [j \in Items |-> v])
  BY ListItemTask DEF ArchiveByExternalId, v, AInv
<1>10. Behind'
  <2>1. CASE handled' = handled
    BY <1>4, <2>1 DEF FInv, Behind
  <2>2. CASE handled' = Noted({i}, [j \in Items |-> v])
    <3>1. \A j \in {i} : [k \in Items |-> v][j] = v
      OBVIOUS
    <3>2. {i} \in SUBSET Items /\ Behind /\ TypeOK
      BY DEF FInv, AInv
    <3>3. QED
      BY <1>4, <1>6, <2>2, <3>1, <3>2, NotedBehind
  <2>3. QED
    BY <1>9, <2>1, <2>2
<1>11. TaskBetween'
  BY <1>4, <1>6, <1>7, <1>8, <1>9 DEF FInv, TaskBetween
<1>12. StartBetween' /\ TodoCovers'
  BY <1>3, <1>4 DEF FInv, StartBetween, TodoCovers, Feeding
<1>13. ListedSince'
  <2>1. \A j \in Items \ {i} : handled'[j] = handled[j]
    BY <1>9 DEF Noted, AInv, TypeOK
  <2>2. "feed" \in Env =>
          engine[e].start[i].version <= (IF task'[e][i].step = "none" THEN handled'[i]
                                         ELSE task'[e][i].version)
    BY <1>6, <1>8, <1>9 DEF Noted
  <2>3. QED
    BY <1>2, <1>3, <1>5, <1>7, <2>1, <2>2 DEF FInv, ListedSince, Feeding
<1>14. EndsComplete'
  BY <1>2, <1>3, <1>5 DEF FInv, EndsComplete, Exhausted
<1>15. QED
  BY <1>10, <1>11, <1>12, <1>13, <1>14 DEF FInv

LEMMA ListingFInv ==
  ASSUME Complete, AInv, FInv, NEW e \in Engines, ListingStep(e), \A i \in Items : ~ListItem(e, i)
  PROVE  FInv'
<1>1. engine[e] \in Engine /\ UNCHANGED <<world, task, cursor, handled>>
  BY ListingAlone DEF AInv, TypeOK
<1>2. Behind'
  BY <1>1 DEF FInv, Behind
<1> DEFINE Kept(f) ==
      /\ engine'[f].phase # "idle" => engine[f].phase # "idle"
      /\ engine'[f].phase = "listing" => engine[f].phase = "listing"
      /\ engine'[f].kind = engine[f].kind /\ engine'[f].start = engine[f].start
      /\ engine'[f].base = engine[f].base /\ engine'[f].listed = engine[f].listed
      /\ engine[f].kind # "targets" => engine'[f].todo = engine[f].todo
      /\ engine'[f].complete = engine[f].complete \/ engine'[f].phase = "gather"
      /\ engine'[f].complete => Exhausted(f)'
      /\ engine'[f].phase \notin {"idle", "listing"} =>
           engine'[f].complete \/ engine'[f].cancel \/ engine'[f].raised
<1>3. ASSUME NEW f \in Engines, engine'[f] = engine[f]
      PROVE  Kept(f)
  BY <1>1, <1>3 DEF FInv, EndsComplete, Exhausted
<1>4. Kept(e)
  <2>1. ASSUME NEW i \in Items, SkipItem(e, i) PROVE Kept(e)
    BY <2>1 DEF SkipItem, Complete
  <2>2. ASSUME NEW i \in Items, LookupFails(e, i) PROVE Kept(e)
    BY <1>1, <2>2 DEF LookupFails, Listing, FInv, EndsComplete, AInv, TypeOK, Engine
  <2>3. CASE ListEnds(e)
    BY <1>1, <2>3 DEF ListEnds, Exhausted, AInv, TypeOK, Engine
  <2>4. CASE ListBreak(e)
    BY <1>1, <2>4 DEF ListBreak, FInv, EndsComplete, AInv, TypeOK, Engine
  <2>5. CASE ListRaises(e)
    BY <1>1, <2>5 DEF ListRaises, FInv, EndsComplete, AInv, TypeOK, Engine
  <2>6. QED
    BY <2>1, <2>2, <2>3, <2>4, <2>5 DEF ListingStep
<1>5. \A f \in Engines \ {e} : engine'[f] = engine[f]
  BY DEF ListingStep, SkipItem, LookupFails, ListEnds, ListBreak, ListRaises, AInv, TypeOK
<1>6. \A f \in Engines : Kept(f)
  BY <1>3, <1>4, <1>5
<1>7. QED
  BY <1>1, <1>2, <1>6, EngineFInv

LEMMA TaskFInv ==
  ASSUME Complete, AInv, FInv, NEW e \in Engines, NEW i \in Items, TaskStep(e, i)
  PROVE  FInv'
<1>1. /\ task[e][i].step # "none"
      /\ \A f \in Engines, j \in Items : f # e \/ j # i => task'[f][j] = task[f][j]
      /\ \A f \in Engines : f # e => engine[f].phase = "idle"
  BY TaskAlone
<1>2. UNCHANGED <<world, cursor>>
  BY DEF TaskStep, MarkSeen, Fetch, Commit, Fail, FailUnrecorded
<1>3. \A f \in Engines :
        /\ engine'[f].phase = engine[f].phase /\ engine'[f].kind = engine[f].kind
        /\ engine'[f].todo = engine[f].todo /\ engine'[f].listed = engine[f].listed
        /\ engine'[f].start = engine[f].start
        /\ engine'[f].base = engine[f].base /\ engine'[f].complete = engine[f].complete
        /\ engine'[f].cancel = engine[f].cancel /\ engine'[f].raised = engine[f].raised
  <2> TAKE f \in Engines
  <2>1. engine[f] \in Engine
    BY DEF AInv, TypeOK
  <2>2. engine'[f] = engine[f] \/ engine'[f] = [engine[f] EXCEPT !.failed = TRUE]
    BY DEF TaskStep, MarkSeen, Fetch, Commit, Fail, FailUnrecorded, AInv, TypeOK
  <2>3. QED
    BY <2>1, <2>2 DEF Engine
<1>4. \/ /\ task'[e][i].step = "none"
         /\ handled' = Noted({i}, [j \in Items |-> task[e][i].version])
      \/ /\ task'[e][i].step # "none" /\ task'[e][i].version = task[e][i].version
         /\ handled' = handled
  <2>1. ASSUME Processed(e, i)
        PROVE  /\ task'[e][i].step = "none"
               /\ handled' = Noted({i}, [j \in Items |-> task[e][i].version])
    BY <2>1 DEF Processed, NoTask, AInv, TypeOK
  <2>2. CASE Fetch(e, i)
    BY <2>2 DEF Fetch, AInv, TypeOK, Task
  <2>3. ~FailUnrecorded(e, i)
    BY DEF FailUnrecorded, Complete
  <2>4. QED
    BY <2>1, <2>2, <2>3 DEF TaskStep, MarkSeen, Commit, Fail
<1>5. /\ task[e][i].version \in Nat /\ cursor[i] <= task[e][i].version
      /\ task[e][i].version <= world[i].version
  BY <1>1, VersionsAreNumbers DEF FInv, TaskBetween, AInv
<1>6. Behind'
  <2>1. CASE handled' = handled
    BY <1>2, <2>1 DEF FInv, Behind
  <2>2. CASE handled' = Noted({i}, [j \in Items |-> task[e][i].version])
    <3>1. \A j \in {i} : [k \in Items |-> task[e][i].version][j] = task[e][i].version
      OBVIOUS
    <3>2. {i} \in SUBSET Items /\ Behind /\ TypeOK
      BY DEF FInv, AInv
    <3>3. QED
      BY <1>2, <1>5, <2>2, <3>1, <3>2, NotedBehind
  <2>3. QED
    BY <1>4, <2>1, <2>2
<1>7. TaskBetween'
  BY <1>1, <1>2, <1>4 DEF FInv, TaskBetween
<1>8. StartBetween' /\ TodoCovers' /\ EndsComplete'
  BY <1>2, <1>3 DEF FInv, StartBetween, TodoCovers, EndsComplete, Exhausted, Feeding
<1>9. ListedSince'
  <2>1. \A j \in Items \ {i} : handled'[j] = handled[j]
    BY <1>4 DEF Noted, AInv, TypeOK
  <2>2. Feeding(e) /\ engine[e].kind # "targets" /\ i \in engine[e].listed =>
          engine[e].start[i].version <= (IF task'[e][i].step = "none" THEN handled'[i]
                                         ELSE task'[e][i].version)
    BY <1>1, <1>4 DEF Noted, Feeding, FInv, ListedSince
  <2>3. QED
    BY <1>1, <1>3, <2>1, <2>2 DEF FInv, ListedSince, Feeding
<1>10. QED
  BY <1>6, <1>7, <1>8, <1>9 DEF FInv

\* The cursor moves to the run's view of the source: what that shows of an item was
\* dealt with, or was there when the cursor moved before.
LEMMA FinishBehind ==
  ASSUME AInv, FInv, NEW e \in Engines, Finish(e)
  PROVE  Behind' /\ \A i \in Items : cursor'[i] <= world[i].version
<1>1. engine[e].phase = "finish" /\ UNCHANGED <<world, handled>>
  BY DEF Finish
<1>2. \A i \in Items : task[e][i].step = "none"
  BY <1>1 DEF AInv, TasksOfTheRun
<1>3. CASE cursor' = cursor
  BY <1>1, <1>3 DEF FInv, Behind
<1>4. CASE cursor' # cursor
  <2>1. /\ "feed" \in Env /\ engine[e].kind # "targets"
        /\ cursor' = [i \in Items |-> engine[e].start[i].version]
        /\ ~engine[e].raised /\ ~engine[e].cancel
    BY <1>4 DEF Finish, NewCursor, StoresState
  <2>2. Exhausted(e)
    BY <1>1, <2>1 DEF FInv, EndsComplete
  <2>3. ASSUME NEW i \in Items
        PROVE  /\ cursor'[i] <= world[i].version
               /\ world[i].here /\ cursor'[i] = world[i].version => handled[i] = world[i].version
    <3>1. /\ cursor'[i] = engine[e].start[i].version
          /\ cursor[i] <= engine[e].start[i].version
          /\ engine[e].start[i].version <= world[i].version
      BY <1>1, <2>1 DEF FInv, StartBetween, Feeding
    <3>2. ASSUME world[i].here, engine[e].start[i].version = world[i].version
          PROVE  handled[i] = world[i].version
      <4>1. engine[e].start[i].here
        BY <1>1, <2>1, <3>2 DEF FInv, StartBetween, Feeding
      <4>2. CASE i \in engine[e].listed
        <5>1. engine[e].start[i].version <= handled[i]
          BY <1>1, <1>2, <2>1, <4>2 DEF FInv, ListedSince, Feeding
        <5>2. handled[i] <= world[i].version
          BY DEF FInv, Behind
        <5>3. QED
          BY <3>2, <5>1, <5>2, VersionsAreNumbers DEF AInv
      <4>3. CASE i \notin engine[e].listed /\ engine[e].kind = "full"
        BY <1>1, <2>1, <2>2, <3>2, <4>1, <4>3 DEF FInv, TodoCovers, Feeding, Exhausted
      <4>4. CASE i \notin engine[e].listed /\ engine[e].kind # "full"
        <5>1. engine[e].kind = "feed"
          BY <2>1, <4>4 DEF AInv, TypeOK, Engine
        <5>2. engine[e].start[i].version = cursor[i]
          BY <1>1, <2>1, <2>2, <4>4, <5>1 DEF FInv, TodoCovers, Feeding, Exhausted
        <5>3. QED
          BY <3>2, <5>2 DEF FInv, Behind
      <4>5. QED
        BY <4>2, <4>3, <4>4
    <3>3. QED
      BY <3>1, <3>2
  <2>4. QED
    BY <1>1, <2>1, <2>3 DEF FInv, Behind
<1>5. QED
  BY <1>3, <1>4

LEMMA RunFInv ==
  ASSUME AInv, FInv, NEW e \in Engines, RunStep(e)
  PROVE  FInv'
<1>1. /\ \A f \in Engines, i \in Items : task[f][i].step = "none"
      /\ engine[e].phase \in {"gather", "sweep", "finish"}
  BY RunAlone
<1>2. UNCHANGED <<world, task>> /\ engine[e] \in Engine
  BY DEF RunStep, Gathered, Sweep, Finish, AInv, TypeOK
<1>3. \A f \in Engines \ {e} : engine'[f] = engine[f] /\ engine[f].phase = "idle"
  BY <1>1 DEF RunStep, Gathered, Sweep, Finish, AInv, TypeOK, OneEngine
<1>4. CASE Finish(e)
  <2>1. engine'[e] = IdleEngine /\ handled' = handled
    BY <1>4 DEF Finish, AInv, TypeOK
  <2>2. /\ IdleEngine.phase = "idle" /\ ~IdleEngine.complete /\ IdleEngine.kind = "full"
    BY DEF IdleEngine
  <2>3. Behind'
    BY <1>4, FinishBehind
  <2>4. TaskBetween' /\ StartBetween' /\ ListedSince'
    BY <1>1, <1>2, <1>3, <2>1, <2>2 DEF TaskBetween, StartBetween, ListedSince, Feeding
  <2>5. TodoCovers'
    BY <1>3, <2>1, <2>2 DEF FInv, TodoCovers, Feeding
  <2>6. EndsComplete'
    BY <1>3, <2>1, <2>2 DEF FInv, EndsComplete, Exhausted
  <2>7. QED
    BY <2>3, <2>4, <2>5, <2>6 DEF FInv
<1>5. CASE Gathered(e) \/ Sweep(e)
  <2>1. /\ cursor' = cursor /\ engine'[e].phase \in {"sweep", "finish"}
        /\ \A g \in {"kind", "start", "base", "listed", "todo", "complete", "cancel", "raised"} :
             engine'[e][g] = engine[e][g]
    BY <1>2, <1>5 DEF Gathered, Sweep, AInv, TypeOK, Engine
  <2>2. /\ engine'[e].kind = engine[e].kind /\ engine'[e].start = engine[e].start
        /\ engine'[e].base = engine[e].base /\ engine'[e].listed = engine[e].listed
        /\ engine'[e].todo = engine[e].todo /\ engine'[e].complete = engine[e].complete
        /\ engine'[e].cancel = engine[e].cancel /\ engine'[e].raised = engine[e].raised
    BY <2>1
  <2>3. \A f \in Engines :
          /\ engine'[f].phase # "idle" => engine[f].phase # "idle"
          /\ engine'[f].phase = "listing" => engine[f].phase = "listing"
          /\ engine'[f].kind = engine[f].kind /\ engine'[f].start = engine[f].start
          /\ engine'[f].base = engine[f].base /\ engine'[f].listed = engine[f].listed
          /\ engine'[f].todo = engine[f].todo
          /\ engine'[f].complete = engine[f].complete
          /\ engine'[f].complete => Exhausted(f)'
          /\ engine'[f].phase \notin {"idle", "listing"} =>
               engine'[f].complete \/ engine'[f].cancel \/ engine'[f].raised
    BY <1>1, <1>3, <2>1, <2>2 DEF FInv, EndsComplete, Exhausted
  <2> DEFINE view == [i \in Items |-> engine[e].start[i].version]
  <2>4. PICK S \in SUBSET Items : handled' = Noted(S, view)
    <3>1. Noted({}, view) = handled
      BY DEF Noted, AInv, TypeOK
    <3>2. CASE Gathered(e)
      BY <3>1, <3>2 DEF Gathered
    <3>3. CASE Sweep(e)
      BY <3>3 DEF Sweep, Unseen, Known
    <3>4. QED
      BY <1>5, <3>2, <3>3
  <2>5. \A i \in Items : "feed" \in Env =>
          view[i] \in Nat /\ cursor[i] <= view[i] /\ view[i] <= world[i].version
    BY <1>1, VersionsAreNumbers DEF FInv, StartBetween, Feeding, AInv
  <2>6. \A i \in Items : handled'[i] = handled[i] \/
          handled'[i] = engine[e].start[i].version
    BY <2>4 DEF Noted
  <2> HIDE DEF view
  <2>7. Behind'
    BY <1>2, <2>1, <2>4, <2>5, NotedBehind DEF FInv, AInv
  <2>8. \A f \in Engines, i \in Items :
          handled'[i] = handled[i] \/ (Feeding(f) => engine[f].start[i].version <= handled'[i])
    BY <1>3, <2>6, VersionsAreNumbers DEF Feeding, AInv
  <2>9. QED
    BY <1>2, <2>1, <2>3, <2>7, <2>8, EngineFInv
<1>6. QED
  BY <1>4, <1>5 DEF RunStep

LEMMA RequestFInv ==
  ASSUME AInv, FInv,
         \/ \E i \in Items : RetryDocument(i)
         \/ \E e \in Engines : RequestCancel(e)
         \/ DeleteCancels \/ DeleteArchives
  PROVE  FInv'
<1>1. UNCHANGED <<world, task, cursor, handled>>
  BY DEF RetryDocument, RequestCancel, DeleteCancels, DeleteArchives
<1>2. Behind'
  BY <1>1 DEF FInv, Behind
<1>3. \A f \in Engines :
        /\ engine'[f].phase = engine[f].phase /\ engine'[f].kind = engine[f].kind
        /\ engine'[f].todo = engine[f].todo /\ engine'[f].listed = engine[f].listed
        /\ engine'[f].start = engine[f].start
        /\ engine'[f].base = engine[f].base /\ engine'[f].complete = engine[f].complete
        /\ engine'[f].raised = engine[f].raised
        /\ engine[f].phase # "idle" /\ engine[f].cancel => engine'[f].cancel
  <2> TAKE f \in Engines
  <2>1. engine[f] \in Engine
    BY DEF AInv, TypeOK
  <2>2. \/ engine'[f] = engine[f]
        \/ \E c \in BOOLEAN : /\ engine'[f] = [engine[f] EXCEPT !.cancel = c]
                              /\ engine[f].phase # "idle" => c
    BY <2>1 DEF RetryDocument, RequestCancel, DeleteCancels, DeleteArchives, AInv, TypeOK, Engine
  <2>3. QED
    BY <2>1, <2>2 DEF Engine
<1>4. \A f \in Engines :
        /\ engine'[f].complete => Exhausted(f)'
        /\ engine'[f].phase \notin {"idle", "listing"} =>
             engine'[f].complete \/ engine'[f].cancel \/ engine'[f].raised
  BY <1>3 DEF FInv, EndsComplete, Exhausted
<1>5. QED
  BY <1>1, <1>2, <1>3, <1>4, EngineFInv

LEMMA FInvStep == Complete /\ AInv /\ FInv /\ [Next]_vars => FInv'
<1> SUFFICES ASSUME Complete, AInv, FInv, [Next]_vars PROVE FInv'
  OBVIOUS
<1>1. CASE UNCHANGED vars
  BY <1>1 DEF vars, FInv, Behind, TaskBetween, StartBetween, ListedSince, TodoCovers,
              EndsComplete, Exhausted, Feeding
<1>2. ASSUME NEW e \in Engines, ListingStep(e) PROVE FInv'
  BY <1>2, ListItemFInv, ListingFInv
<1>3. QED
  BY <1>1, <1>2, SourceFInv, StartFInv, TaskFInv, RunFInv, RequestFInv DEF Next

LEMMA InitFInv == Init => AInv /\ FInv
<1> SUFFICES ASSUME Init PROVE FInv
  BY InitAInv
<1>1. /\ \A i \in Items : world[i].version = 1 /\ cursor[i] = 0 /\ handled[i] = 0
      /\ \A e \in Engines : engine[e] = IdleEngine
      /\ \A e \in Engines, i \in Items : task[e][i] = NoTask
  BY DEF Init, NoCursor
<1>2. /\ IdleEngine.phase = "idle" /\ ~IdleEngine.complete /\ IdleEngine.kind = "full"
      /\ NoTask.step = "none"
  BY DEF IdleEngine, NoTask
<1>3. Behind
  BY <1>1 DEF Behind
<1>4. TaskBetween /\ StartBetween /\ ListedSince /\ TodoCovers /\ EndsComplete
  BY <1>1, <1>2 DEF TaskBetween, StartBetween, ListedSince, TodoCovers, EndsComplete, Feeding
<1>5. QED
  BY <1>3, <1>4 DEF FInv

\* If runs do not overlap, listings skip nothing and every failure is recorded, the
\* cursor of a change feed never moves past a change no run put on record, skipped or
\* archived: not by a run that was cancelled, that failed on some items, that went
\* through all libraries though it had a cursor, or that follows such a run.
THEOREM CursorIsHonest == ASSUME Complete PROVE Spec => []ReportedIsHandled
<1>1. AInv /\ FInv /\ [Next]_vars => AInv' /\ FInv'
  BY AInvStep, FInvStep DEF Complete, Alone
<1>2. AInv /\ FInv => ReportedIsHandled
  BY DEF FInv, Behind, ReportedIsHandled, Reported
<1>3. QED
  BY <1>1, <1>2, InitFInv, PTL DEF Spec
=============================================================================
