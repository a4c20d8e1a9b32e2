------------------------------ MODULE SyncRuns ------------------------------
(***************************************************************************)
(* The sync runs of one knowledge source: how a run row is created,        *)
(* dispatched, begun, finished, cancelled and reaped, and how change       *)
(* notifications wait in the source row while a run is active.             *)
(* (connectors/scheduling.py, connectors/sync.py, the knowledge source     *)
(* router.)                                                                *)
(*                                                                         *)
(* Every transaction is READ COMMITTED and takes no row lock unless the    *)
(* code says FOR UPDATE, so a transaction that reads and later writes is   *)
(* two actions; one that locks the row, or writes blindly, is one.  What   *)
(* the documents of the source go through is module SourceDocuments.       *)
(***************************************************************************)
EXTENDS Naturals, FiniteSets

CONSTANTS
  Runs,        \* names of run rows; a finished row's name is used again (Forget)
  Callers,     \* API requests: "sync now", cancel, change notifications
  Scheduler,   \* the cron job schedule_source_syncs_job
  Ids,         \* external item ids a notification can name
  MaxPending,  \* MAX_PENDING_TARGETS (1000 in the code)
  TakeLimit,   \* take_pending_targets' limit (200 in the code)
  MaxDepth,    \* how deep drains nest (5 in the code)
  MaxCursor,   \* bound on the delta cursor
  MaxCrashes,  \* bound on process crashes and lost messages
  NoRun,
  Env          \* which events of the environment may happen: a subset of Events

\* age: STALE_RUN_MINUTES may pass without a write to a run's row
\* fail: a connector raises
\* cancel, pause: the operator's requests; delta: the connector keeps a cursor
\* schedule: sync_mode is "scheduled"
\* first: the source has never been synced (sync_state is still {})
Events == {"age", "fail", "cancel", "pause", "delta", "first",
           "schedule"}

ASSUME NamesAssumption ==
  /\ NoRun \notin Runs
  /\ Scheduler \notin Runs \union Callers
  /\ Runs \intersect Callers = {}
ASSUME BoundsAssumption ==
  /\ MaxPending \in Nat /\ TakeLimit \in Nat \ {0}
  /\ MaxDepth \in Nat /\ MaxCursor \in Nat /\ MaxCrashes \in Nat
  /\ Env \subseteq Events

VARIABLES
  status,     \* SourceSyncRun.status, "none" for a row that does not exist
  cancelReq,  \* SourceSyncRun.cancel_requested
  fresh,      \* updated_at is within STALE_RUN_MINUTES
  targets,    \* SourceSyncRun.stats["targets"]
  source,     \* the KnowledgeSource row: status, next_sync_at, sync_state
  queue,      \* source_sync_job messages not yet picked up
  pc,         \* where each actor (caller, scheduler, engine of a run) is
  hand,       \* the item ids an actor carries to create_run / add_pending
  row,        \* the run row a caller or the scheduler is working on
  engine,     \* locals of SyncEngine.run
  reaping,    \* rows reap_stale_runs has read and not yet written
  crashes     \* how many crashes and losses there have been

rowVars == <<status, cancelReq, fresh, targets>>
vars == <<status, cancelReq, fresh, targets, source, queue, pc, hand, row,
          engine, reaping, crashes>>

ACTIVE_RUN_STATUSES == {"queued", "running"}
\* "succeeded" stands for "partial" too: no code in this module's scope treats
\* them differently.
Terminal == {"succeeded", "failed", "cancelled"}
SourceStatuses == {"active", "paused", "error", "disconnected"}
DueValues == {"none", "later", "due"}
Actors == Callers \union {Scheduler} \union Runs

\* next_sync_at is only set for a source in scheduled mode.
Armed(new, old) == IF "schedule" \in Env THEN new ELSE old
Active(r) == status[r] \in ACTIVE_RUN_STATUSES

SourceRow == [status: SourceStatuses, due: DueValues, cursor: 0..MaxCursor,
              keyed: BOOLEAN, pending: SUBSET Ids]
SourceRead == [status: SourceStatuses, cursor: 0..MaxCursor, keyed: BOOLEAN,
               pending: SUBSET Ids]
EngineLocals == [cursor: 0..MaxCursor, depth: 0..MaxDepth,
                 outcome: Terminal, auth: BOOLEAN, targeted: BOOLEAN, read: SourceRead]
Pcs == {"idle", "check", "insert", "wait", "dispatch",        \* create_run
        "cancelQueued", "cancelRunning",                      \* request_cancel
        "reap", "due", "bump",                                \* schedule_due
        "begin", "begun", "sync", "finish", "finishing", "drain"}

\* The columns _finish compares with what it assigns.
ReadSource(s) == [status |-> s.status, cursor |-> s.cursor, keyed |-> s.keyed,
                  pending |-> s.pending]
InitialSource == [status |-> "active",
                  due |-> IF "schedule" \in Env THEN "later" ELSE "none", cursor |-> 0,
                  keyed |-> "first" \notin Env, pending |-> {}]
NoEngine == [cursor |-> 0, depth |-> 0, outcome |-> "failed", auth |-> FALSE,
             targeted |-> FALSE, read |-> ReadSource(InitialSource)]

Init ==
  /\ status = [r \in Runs |-> "none"]
  /\ cancelReq = [r \in Runs |-> FALSE]
  /\ fresh = [r \in Runs |-> TRUE]
  /\ targets = [r \in Runs |-> {}]
  /\ source = InitialSource
  /\ queue = {}
  /\ pc = [a \in Actors |-> "idle"]
  /\ hand = [a \in Actors |-> {}]
  /\ row = [a \in Actors |-> NoRun]
  /\ engine = [r \in Runs |-> NoEngine]
  /\ reaping = {}
  /\ crashes = 0

-----------------------------------------------------------------------------
(* create_run: the SELECT and the INSERT of one transaction.               *)

\* The actor gives up: SyncAlreadyRunning.  Named ids wait in the source row
\* (source_webhook, _drain_pending); nothing else is left to do.
AlreadyRunning(a, ids) ==
  pc' = [pc EXCEPT ![a] = IF ids = {} THEN "idle" ELSE "wait"]

\* The check half of create_run for actor a carrying ids: a paused source
\* refuses everything but "manual"; an active run that still reports refuses.
CreateCheck(a, trigger, ids) ==
  IF source.status = "paused" /\ trigger # "manual"
  THEN /\ pc' = [pc EXCEPT ![a] = "idle"]        \* SourceNotSyncable: ids dropped
       /\ hand' = [hand EXCEPT ![a] = {}]
  ELSE /\ hand' = [hand EXCEPT ![a] = ids]
       /\ IF \E r \in Runs : Active(r) /\ fresh[r]
          THEN AlreadyRunning(a, ids)
          ELSE pc' = [pc EXCEPT ![a] = "insert"]

\* start_sync: "sync now", with or without activating the source first.  The
\* check reads nothing that first commit wrote (a manual run may be created on a
\* paused source), so both are one action.
StartSync(c) ==
  /\ pc[c] = "idle"
  /\ \E activate \in BOOLEAN :
       source' = IF activate /\ source.status # "active"
                 THEN [source EXCEPT !.status = "active", !.due = Armed("later", @)]
                 ELSE source
  /\ CreateCheck(c, "manual", {})
  /\ UNCHANGED <<rowVars, queue, row, engine, reaping, crashes>>

\* source_webhook: only an active source answers; ids may be empty.  Its transaction
\* ends before create_run's begins.
SourceWebhook(c) ==
  /\ pc[c] = "idle"
  /\ source.status = "active"
  /\ \E ids \in {{}} \union {{i} : i \in Ids} : hand' = [hand EXCEPT ![c] = ids]
  /\ pc' = [pc EXCEPT ![c] = "check"]
  /\ UNCHANGED <<rowVars, source, queue, row, engine, reaping, crashes>>

\* create_run's check for a notification, or for the ids a drain took.
NotifiedCheck(a) ==
  /\ pc[a] = "check"
  /\ CreateCheck(a, "webhook", hand[a])
  /\ UNCHANGED <<rowVars, source, queue, row, engine, reaping, crashes>>

\* Mutant of IndexAllows: the index, like the SELECT, forgets rows gone stale.
FreshIndexAllows(r) == \A q \in Runs \ {r} : ~(Active(q) /\ fresh[q])

\* uq_source_sync_runs_active: row r may be written active when no other row is,
\* whether or not that one still reports.
IndexAllows(r) == \A q \in Runs \ {r} : ~Active(q)

InsertRow(a, r) ==
  /\ status[r] = "none"
  /\ IndexAllows(r)
  /\ status' = [status EXCEPT ![r] = "queued"]
  /\ cancelReq' = [cancelReq EXCEPT ![r] = FALSE]
  /\ fresh' = [fresh EXCEPT ![r] = TRUE]
  /\ targets' = [targets EXCEPT ![r] = hand[a]]

\* A caller or the scheduler inserts its row and still has to enqueue it.
CreateInsert(a) ==
  /\ a \notin Runs
  /\ pc[a] = "insert"
  /\ \E r \in Runs :
       /\ InsertRow(a, r)
       /\ row' = [row EXCEPT ![a] = r]
  /\ hand' = [hand EXCEPT ![a] = {}]
  /\ pc' = [pc EXCEPT ![a] = IF a = Scheduler THEN "bump" ELSE "dispatch"]
  /\ UNCHANGED <<source, queue, engine, reaping, crashes>>

\* The unique index refuses: IntegrityError becomes SyncAlreadyRunning.
CreateRefused(a) ==
  /\ pc[a] = "insert"
  /\ \E q \in Runs : Active(q)
  /\ AlreadyRunning(a, hand[a])
  /\ UNCHANGED <<rowVars, source, queue, hand, row, engine, reaping, crashes>>

\* dispatch: the message follows the committed row.
Dispatch(a) ==
  /\ pc[a] = "dispatch"
  /\ queue' = queue \union {row[a]}
  /\ row' = [row EXCEPT ![a] = NoRun]
  /\ pc' = [pc EXCEPT ![a] = "idle"]
  /\ UNCHANGED <<rowVars, source, hand, engine, reaping, crashes>>

\* What may wait once ids are added: all that waited, and as many new ones as the
\* cap leaves room for (the code keeps the first in order of arrival).
Waiting(ids) ==
  LET all == source.pending \union ids
  IN {p \in SUBSET all : /\ source.pending \subseteq p
                         /\ \/ p = all /\ Cardinality(all) <= MaxPending
                            \/ Cardinality(all) > MaxPending /\ Cardinality(p) = MaxPending}

\* add_pending_targets: under FOR UPDATE.
AddPendingTargets(a) ==
  /\ pc[a] = "wait"
  /\ \E p \in Waiting(hand[a]) :
       source' = [source EXCEPT !.keyed = TRUE, !.pending = p]
  /\ hand' = [hand EXCEPT ![a] = {}]
  /\ pc' = [pc EXCEPT ![a] = "idle"]
  /\ UNCHANGED <<rowVars, queue, row, engine, reaping, crashes>>

-----------------------------------------------------------------------------
(* request_cancel, pause_source, resume_source                             *)

CancelRead(c) ==
  /\ "cancel" \in Env
  /\ pc[c] = "idle"
  /\ \E r \in Runs :
       /\ Active(r)
       /\ row' = [row EXCEPT ![c] = r]
       /\ pc' = [pc EXCEPT ![c] = IF status[r] = "queued" THEN "cancelQueued"
                                                          ELSE "cancelRunning"]
  /\ UNCHANGED <<rowVars, source, queue, hand, engine, reaping, crashes>>

\* A flag that is already set is not written again, so the row ages on.
CancelWrite(c) ==
  /\ pc[c] \in {"cancelQueued", "cancelRunning"}
  /\ cancelReq' = [cancelReq EXCEPT ![row[c]] = TRUE]
  /\ status' = IF pc[c] = "cancelQueued"
               THEN [status EXCEPT ![row[c]] = "cancelled"] ELSE status
  /\ fresh' = [fresh EXCEPT ![row[c]] = @ \/ ~cancelReq[row[c]] \/ pc[c] = "cancelQueued"]
  /\ row' = [row EXCEPT ![c] = NoRun]
  /\ pc' = [pc EXCEPT ![c] = "idle"]
  /\ UNCHANGED <<targets, source, queue, hand, engine, reaping, crashes>>

PauseSource ==
  /\ "pause" \in Env
  /\ source' = [source EXCEPT !.status = "paused", !.due = "none"]
  /\ UNCHANGED <<rowVars, queue, pc, hand, row, engine, reaping, crashes>>

ResumeSource ==
  /\ "pause" \in Env
  /\ source' = [source EXCEPT !.status = "active", !.due = Armed("due", @)]
  /\ UNCHANGED <<rowVars, queue, pc, hand, row, engine, reaping, crashes>>

-----------------------------------------------------------------------------
(* schedule_due: reap, then queue a run for a source whose time has come.  *)

\* Mutant of Stale: only runs that began are reaped.
StaleRunning(r) == status[r] = "running" /\ ~fresh[r]

\* A queued or running row nobody has written for STALE_RUN_MINUTES.
Stale(r) == Active(r) /\ ~fresh[r]

ReapRead ==
  /\ pc[Scheduler] = "idle"
  /\ reaping' = {r \in Runs : Stale(r)}
  /\ pc' = [pc EXCEPT ![Scheduler] = IF reaping' = {} THEN "due" ELSE "reap"]
  /\ UNCHANGED <<rowVars, source, queue, hand, row, engine, crashes>>

ReapWrite ==
  /\ pc[Scheduler] = "reap"
  /\ status' = [r \in Runs |-> IF r \in reaping THEN "failed" ELSE status[r]]
  /\ fresh' = [r \in Runs |-> r \in reaping \/ fresh[r]]
  /\ reaping' = {}
  /\ pc' = [pc EXCEPT ![Scheduler] = "due"]
  /\ UNCHANGED <<cancelReq, targets, source, queue, hand, row, engine, crashes>>

ScheduleDue ==
  /\ pc[Scheduler] = "due"
  /\ IF source.status = "active" /\ source.due = "due"
     THEN CreateCheck(Scheduler, "schedule", {})
     ELSE pc' = [pc EXCEPT ![Scheduler] = "idle"] /\ UNCHANGED hand
  /\ UNCHANGED <<rowVars, source, queue, row, engine, reaping, crashes>>

\* next_sync_at moves only once the row exists, and before the enqueue.
ScheduleBump ==
  /\ pc[Scheduler] = "bump"
  /\ source' = [source EXCEPT !.due = "later"]
  /\ pc' = [pc EXCEPT ![Scheduler] = "dispatch"]
  /\ UNCHANGED <<rowVars, queue, hand, row, engine, reaping, crashes>>

-----------------------------------------------------------------------------
(* SyncEngine.run                                                          *)

\* The worker picks the message up (max_tries = 1: it is delivered once).
Deliver(r) ==
  /\ r \in queue
  /\ pc[r] = "idle"
  /\ queue' = queue \ {r}
  /\ pc' = [pc EXCEPT ![r] = "begin"]
  /\ engine' = [engine EXCEPT ![r].depth = 0]
  /\ UNCHANGED <<rowVars, source, hand, row, reaping, crashes>>

\* _begin reads the row; a run that is not queued is left alone.
BeginRead(r) ==
  /\ pc[r] = "begin"
  /\ pc' = [pc EXCEPT ![r] = IF status[r] = "queued" THEN "begun" ELSE "idle"]
  /\ engine' = [engine EXCEPT ![r].cursor = source.cursor]
  /\ UNCHANGED <<rowVars, source, queue, hand, row, reaping, crashes>>

\* _begin commits "running".  If the row was closed meanwhile and another row
\* is active, the unique index raises and the job dies.
BeginCommit(r) ==
  /\ pc[r] = "begun"
  /\ \/ /\ IndexAllows(r)
        /\ pc' = [pc EXCEPT ![r] = "sync"]
        /\ status' = [status EXCEPT ![r] = "running"]
        /\ fresh' = [fresh EXCEPT ![r] = TRUE]
        /\ UNCHANGED <<cancelReq, targets>>
     \/ /\ ~IndexAllows(r)
        /\ pc' = [pc EXCEPT ![r] = "idle"]
        /\ UNCHANGED rowVars
  /\ UNCHANGED <<source, queue, hand, row, engine, reaping, crashes>>

\* _flush_progress, every PROGRESS_FLUSH_EVERY documents, touches the row.
FlushProgress(r) ==
  /\ pc[r] = "sync"
  /\ ~fresh[r]
  /\ fresh' = [fresh EXCEPT ![r] = TRUE]
  /\ UNCHANGED <<status, cancelReq, targets, source, queue, pc, hand, row,
                 engine, reaping, crashes>>

\* _sync returns and the fresh cancel flag is read.  A run whose row names items
\* refreshes those, unless the connector cannot fetch single items: then it is a
\* normal sync (snapshot.targets = None).  A normal sync, a full listing or a list of
\* changes, that met no failure may carry a new delta cursor.
SyncReturns(r) ==
  /\ pc[r] = "sync"
  /\ \E targeted \in IF targets[r] = {} THEN {FALSE} ELSE BOOLEAN, moved \in BOOLEAN :
       /\ moved => "delta" \in Env /\ ~targeted /\ engine[r].cursor < MaxCursor
       /\ engine' = [engine EXCEPT
            ![r].outcome = IF cancelReq[r] THEN "cancelled" ELSE "succeeded",
            ![r].auth = FALSE,
            ![r].targeted = targeted,
            ![r].cursor = IF moved THEN @ + 1 ELSE @]
  /\ pc' = [pc EXCEPT ![r] = "finish"]
  /\ UNCHANGED <<rowVars, source, queue, hand, row, reaping, crashes>>

\* A connector, credential or listing error.
SyncRaises(r) ==
  /\ "fail" \in Env
  /\ pc[r] = "sync"
  /\ \E auth \in BOOLEAN :
       engine' = [engine EXCEPT ![r].outcome = "failed", ![r].auth = auth]
  /\ pc' = [pc EXCEPT ![r] = "finish"]
  /\ UNCHANGED <<rowVars, source, queue, hand, row, reaping, crashes>>

\* _finish reads run and source, without a lock ...
FinishRead(r) ==
  /\ pc[r] = "finish"
  /\ engine' = [engine EXCEPT ![r].read = ReadSource(source)]
  /\ pc' = [pc EXCEPT ![r] = "finishing"]
  /\ UNCHANGED <<rowVars, source, queue, hand, row, reaping, crashes>>

\* ... assigns to them: a failed run overwrites whatever status it read, a pause
\* included; one that succeeded recovers a source it read as failed ...
NewStatus(e) ==
  CASE e.outcome = "failed" -> IF e.auth THEN "disconnected" ELSE "error"
    [] e.outcome = "cancelled" -> e.read.status
    [] OTHER -> IF e.read.status = "paused" THEN "paused" ELSE "active"

\* Mutant of StatusColumn: the status read before is written back.
StatusWrittenBack(e) == NewStatus(e)

StatusColumn(e) == IF NewStatus(e) # e.read.status THEN NewStatus(e) ELSE source.status

\* Mutant of StateWritten: every run that succeeds writes sync_state.
StateAlwaysWritten(e) == e.outcome = "succeeded"

StateWritten(e) ==
  /\ e.outcome = "succeeded"
  /\ e.cursor # e.read.cursor \/ ~e.read.keyed

\* ... and the UPDATE carries the columns whose value it changed.  sync_state
\* is one JSON column: the cursor, the waiting ids and their key go together.
FinishedSource(e) ==
  LET stateWritten == StateWritten(e)
  IN [status |-> StatusColumn(e),
      due |-> IF NewStatus(e) = "active" /\ ~e.targeted THEN Armed("later", source.due)
             ELSE source.due,
      cursor |-> IF stateWritten THEN e.cursor ELSE source.cursor,
      keyed |-> stateWritten \/ source.keyed,
      pending |-> IF stateWritten THEN e.read.pending ELSE source.pending]

\* Mutant of MayDrain: drains nest without a limit.
AlwaysDrains(r) == engine[r].outcome = "succeeded"

\* Only a successful run drains, and only MaxDepth levels deep.
MayDrain(r) == engine[r].outcome = "succeeded" /\ engine[r].depth < MaxDepth

\* ... and the commit.  run.status is assigned whatever the row says by now.
FinishCommit(r) ==
  /\ pc[r] = "finishing"
  /\ source' = FinishedSource(engine[r])
  /\ status' = [status EXCEPT ![r] = engine[r].outcome]
  /\ fresh' = [fresh EXCEPT ![r] = TRUE]
  /\ pc' = [pc EXCEPT ![r] = IF MayDrain(r) THEN "drain" ELSE "idle"]
  /\ engine' = [engine EXCEPT ![r] = [NoEngine EXCEPT !.depth = engine[r].depth]]
  /\ UNCHANGED <<cancelReq, targets, queue, hand, row, reaping, crashes>>

\* take_pending_targets, under FOR UPDATE.
TakePendingTargets(r) ==
  /\ pc[r] = "drain"
  /\ \/ /\ source.status # "active" \/ source.pending = {}
        /\ pc' = [pc EXCEPT ![r] = "idle"]
        /\ UNCHANGED <<source, hand>>
     \/ /\ source.status = "active" /\ source.pending # {}
        /\ \E ids \in SUBSET source.pending :
             /\ ids = source.pending \/ Cardinality(ids) = TakeLimit
             /\ Cardinality(ids) <= TakeLimit
             /\ hand' = [hand EXCEPT ![r] = ids]
             /\ source' = [source EXCEPT !.pending = @ \ ids]
        /\ pc' = [pc EXCEPT ![r] = "check"]
  /\ UNCHANGED <<rowVars, queue, row, engine, reaping, crashes>>

\* _drain_pending runs the new row itself, one level deeper.
DrainInsert(r) ==
  /\ pc[r] = "insert"
  /\ \E q \in Runs :
       /\ InsertRow(r, q)
       /\ pc' = [pc EXCEPT ![r] = "idle", ![q] = "begin"]
       /\ engine' = [engine EXCEPT ![q].depth = engine[r].depth + 1]
  /\ hand' = [hand EXCEPT ![r] = {}]
  /\ UNCHANGED <<source, queue, row, reaping, crashes>>

-----------------------------------------------------------------------------
(* Time, crashes, and reuse of row names.                                  *)

\* STALE_RUN_MINUTES pass without a write to the row.
RunAges(r) ==
  /\ "age" \in Env
  /\ Active(r) /\ fresh[r]
  /\ fresh' = [fresh EXCEPT ![r] = FALSE]
  /\ UNCHANGED <<status, cancelReq, targets, source, queue, pc, hand, row,
                 engine, reaping, crashes>>

SyncComesDue ==
  /\ source.due = "later"
  /\ source' = [source EXCEPT !.due = "due"]
  /\ UNCHANGED <<rowVars, queue, pc, hand, row, engine, reaping, crashes>>

\* The process running actor a dies between two transactions.
Crash(a) ==
  /\ crashes < MaxCrashes
  /\ crashes' = crashes + 1
  /\ pc[a] # "idle"
  /\ pc' = [pc EXCEPT ![a] = "idle"]
  /\ hand' = [hand EXCEPT ![a] = {}]
  /\ row' = [row EXCEPT ![a] = NoRun]
  /\ reaping' = IF a = Scheduler THEN {} ELSE reaping
  /\ UNCHANGED <<rowVars, source, queue, engine>>

\* Redis loses a message.
LoseMessage(r) ==
  /\ crashes < MaxCrashes
  /\ crashes' = crashes + 1
  /\ r \in queue
  /\ queue' = queue \ {r}
  /\ UNCHANGED <<rowVars, source, pc, hand, row, engine, reaping>>

\* Bound: a finished row nobody refers to gives its name to a later run.
Forget(r) ==
  /\ status[r] \in Terminal
  /\ pc[r] = "idle" /\ r \notin queue \union reaping
  /\ \A a \in Actors : row[a] # r
  /\ status' = [status EXCEPT ![r] = "none"]
  /\ cancelReq' = [cancelReq EXCEPT ![r] = FALSE]
  /\ fresh' = [fresh EXCEPT ![r] = TRUE]
  /\ targets' = [targets EXCEPT ![r] = {}]
  /\ engine' = [engine EXCEPT ![r] = NoEngine]
  /\ UNCHANGED <<source, queue, pc, hand, row, reaping, crashes>>

-----------------------------------------------------------------------------
CallerStep(c) == StartSync(c) \/ SourceWebhook(c)
                 \/ CancelRead(c) \/ CancelWrite(c)
CreateStep(a) == NotifiedCheck(a) \/ CreateInsert(a) \/ CreateRefused(a) \/ Dispatch(a)
                 \/ AddPendingTargets(a)
SchedulerStep == ReapRead \/ ReapWrite \/ ScheduleDue \/ ScheduleBump
EngineStep(r) == BeginRead(r) \/ BeginCommit(r) \/ SyncReturns(r) \/ SyncRaises(r)
                 \/ FinishRead(r) \/ FinishCommit(r) \/ TakePendingTargets(r)
                 \/ DrainInsert(r)
RowStep(r) == Deliver(r) \/ FlushProgress(r) \/ RunAges(r) \/ LoseMessage(r) \/ Forget(r)

Next ==
  \/ \E c \in Callers : CallerStep(c)
  \/ \E a \in Actors : CreateStep(a) \/ Crash(a)
  \/ \E r \in Runs : EngineStep(r) \/ RowStep(r)
  \/ SchedulerStep
  \/ PauseSource \/ ResumeSource \/ SyncComesDue

Spec == Init /\ [][Next]_vars

\* The worker keeps picking jobs up and running them, an API request runs on,
\* the cron job fires every minute, and time passes.  No fairness for what
\* people, connectors or crashes do.
Fairness ==
  /\ \A a \in Actors : WF_vars(CreateStep(a))
  /\ \A c \in Callers : WF_vars(CancelWrite(c))
  /\ \A r \in Runs : WF_vars(EngineStep(r)) /\ WF_vars(Deliver(r))
                    /\ WF_vars(RunAges(r)) /\ WF_vars(Forget(r))
  /\ WF_vars(SchedulerStep) /\ WF_vars(SyncComesDue)
FairSpec == Spec /\ Fairness

-----------------------------------------------------------------------------
(* Properties.                                                             *)

\* Every variable has its type.
TypeOK ==
  /\ status \in [Runs -> ACTIVE_RUN_STATUSES \union Terminal \union {"none"}]
  /\ cancelReq \in [Runs -> BOOLEAN]
  /\ fresh \in [Runs -> BOOLEAN]
  /\ targets \in [Runs -> SUBSET Ids]
  /\ source \in SourceRow
  /\ queue \subseteq Runs
  /\ pc \in [Actors -> Pcs]
  /\ hand \in [Actors -> SUBSET Ids]
  /\ row \in [Actors -> Runs \union {NoRun}]
  /\ engine \in [Runs -> EngineLocals]
  /\ reaping \subseteq Runs
  /\ crashes \in 0..MaxCrashes

\* "Only one run per source may be queued or running" (scheduling.py): whatever
\* mix of sync now, notifications, drains, the scheduler, late begins and the
\* reaper insert or reopen rows, two rows of a source are never active at once.
AtMostOneActive == \A q, r \in Runs : Active(q) /\ Active(r) => q = r

\* The rows, seen from outside, are one slot that runs take in turn: a run is
\* admitted or begins only while no other run holds it, and no step passes it on.
Slot == IF \E r \in Runs : Active(r)
        THEN LET r == CHOOSE r \in Runs : Active(r) IN <<r, status[r]>>
        ELSE NoRun
OneRun == INSTANCE OneActiveRun WITH slot <- Slot, Free <- NoRun
TakesTurns == OneRun!Spec

\* A notified item is remembered "instead of being lost" (add_pending_targets): once
\* a request carries it or it waits in the source row, it stays with the one or the
\* other, through refused inserts and drains that take and give back, until a run row
\* names it.  It is lost in four ways only: the process that carries it dies, create_run
\* finds the source paused, MAX_PENDING_TARGETS are waiting, or _finish writes the
\* waiting ids it had read along with a cursor that moved (or the first sync_state).
Remembered == source.pending \union UNION {hand[a] : a \in Actors}

Named(i) == \E r \in Runs : status[r] = "none" /\ status'[r] = "queued" /\ i \in targets'[r]

Lost(i) ==
  \/ \E a \in Actors : /\ i \in hand[a]
                       /\ \/ Crash(a)
                          \/ NotifiedCheck(a) /\ source.status = "paused"
                          \/ AddPendingTargets(a) /\ Cardinality(source'.pending) = MaxPending
  \/ \E r \in Runs : /\ FinishCommit(r)
                     /\ i \notin engine[r].read.pending
                     /\ engine[r].cursor # engine[r].read.cursor \/ ~engine[r].read.keyed

NotificationKept ==
  [][\A i \in Remembered : i \in Remembered' \/ Named(i) \/ Lost(i)]_vars

\* SyncEngine.run is "idempotent: a run that is not queued is left alone": a row
\* that was closed never runs again.  False where it is closed between _begin's read
\* and its commit.
ClosedRunLeftAlone ==
  [][\A r \in Runs : status[r] \in Terminal => status'[r] # "running"]_vars

\* "A lost message leaves a visible queued run that the reaper fails, never a
\* silent gap": every active run eventually stops being active, through lost
\* messages and crashed workers, so the source can be synced again.
ActiveRunsEnd == \A r \in Runs : Active(r) ~> ~Active(r)

\* A source whose time has come is synced or stops waiting for the scheduler.
DueIsServed == (source.status = "active" /\ source.due = "due")
                 ~> (source.due # "due" \/ source.status # "active")

\* What ends a pause.  The operator: resume, or a "sync now" that activates.  And a run
\* that commits its end around it: a run that failed writes "error" or "disconnected"
\* over the pause (and the next success then makes that "active"), and a run that had
\* read the source as failed writes its recovery over it.  No other step does: not the
\* scheduler, a notification or a drain, and not a run that read the source as active
\* and succeeded or was cancelled.
FailsOver(r) ==
  /\ FinishCommit(r)
  /\ \/ engine[r].outcome = "failed" /\ source'.status \in {"error", "disconnected"}
     \/ /\ engine[r].outcome = "succeeded" /\ source'.status = "active"
        /\ engine[r].read.status \in {"error", "disconnected"}

PauseHolds ==
  [][source.status = "paused" /\ source'.status # "paused"
       => \/ ResumeSource \/ \E c \in Callers : StartSync(c)
          \/ \E r \in Runs : FailsOver(r)]_vars
=============================================================================
