--------------------------- MODULE SyncRunsProofs ---------------------------
(***************************************************************************)
(* For any number of run rows, callers and ids: every variable keeps its   *)
(* type, two rows of a source are never active at once, and what ends a    *)
(* pause or loses a notified item is one of a few named steps.             *)
(***************************************************************************)
EXTENDS SyncRuns, FiniteSetTheorems, TLAPS

\* What TypeOK needs to be inductive: an actor that has a row in hand holds one,
\* and an engine that is draining may still go one level deeper.
RowHeld == \A a \in Actors :
  pc[a] \in {"dispatch", "bump", "cancelQueued", "cancelRunning"} => row[a] \in Runs
DepthLeft == \A r \in Runs :
  pc[r] \in {"drain", "check", "insert"} => engine[r].depth < MaxDepth
IInv == TypeOK /\ RowHeld /\ DepthLeft /\ AtMostOneActive

LEMMA NoEngineType == NoEngine \in EngineLocals
<1>1. ReadSource(InitialSource) \in SourceRead
  BY BoundsAssumption DEF ReadSource, InitialSource, SourceRead, SourceStatuses
<1>2. QED
  BY <1>1, BoundsAssumption DEF NoEngine, EngineLocals, Terminal

LEMMA InitTypes == Init => TypeOK
BY NamesAssumption, BoundsAssumption
   DEF Init, TypeOK, InitialSource, NoEngine, ReadSource, ACTIVE_RUN_STATUSES, Terminal,
       SourceStatuses, DueValues, SourceRow, SourceRead, EngineLocals, Pcs, Actors

LEMMA CheckTypes ==
  ASSUME TypeOK, NEW a \in Actors, NEW trigger, NEW ids \in SUBSET Ids,
         CreateCheck(a, trigger, ids)
  PROVE  pc' \in [Actors -> Pcs] /\ hand' \in [Actors -> SUBSET Ids]
BY DEF TypeOK, CreateCheck, AlreadyRunning, Pcs

LEMMA TypesStep == IInv /\ [Next]_vars => TypeOK'
<1> SUFFICES ASSUME TypeOK, RowHeld, DepthLeft, [Next]_vars PROVE TypeOK'
  BY DEF IInv
<1> USE NamesAssumption, BoundsAssumption DEF rowVars
<1>1. ASSUME NEW c \in Callers, CallerStep(c) PROVE TypeOK'
  <2> c \in Actors
    BY DEF Actors
  <2>1. CASE StartSync(c)
    <3>1. source' \in SourceRow
      <4>1. source \in SourceRow
        BY DEF TypeOK
      <4>2. [source EXCEPT !.status = "active", !.due = Armed("later", source.due)] \in SourceRow
        BY <4>1 DEF SourceRow, SourceStatuses, DueValues, Armed
      <4>3. \/ source' = source
            \/ source' = [source EXCEPT !.status = "active", !.due = Armed("later", source.due)]
        BY <2>1 DEF StartSync
      <4>4. QED
        BY <4>1, <4>2, <4>3
    <3>2. CreateCheck(c, "manual", {})
      BY <2>1 DEF StartSync
    <3>3. pc' \in [Actors -> Pcs] /\ hand' \in [Actors -> SUBSET Ids]
      BY <3>2, CheckTypes
    <3>4. QED
      BY <2>1, <3>1, <3>3 DEF StartSync, TypeOK
  <2>2. CASE SourceWebhook(c)
    BY <2>2 DEF SourceWebhook, TypeOK, Pcs
  <2>3. CASE CancelRead(c)
    BY <2>3 DEF CancelRead, TypeOK, Pcs
  <2>4. CASE CancelWrite(c)
    BY <2>4 DEF CancelWrite, TypeOK, Pcs, Terminal
  <2>5. QED
    BY <1>1, <2>1, <2>2, <2>3, <2>4 DEF CallerStep
<1>2. ASSUME NEW a \in Actors, CreateStep(a) PROVE TypeOK'
  <2>0. CASE NotifiedCheck(a)
    <3>1. pc' \in [Actors -> Pcs] /\ hand' \in [Actors -> SUBSET Ids]
      BY <2>0, CheckTypes DEF NotifiedCheck, TypeOK
    <3>2. QED
      BY <2>0, <3>1 DEF NotifiedCheck, TypeOK
  <2>1. CASE CreateInsert(a)
    BY <2>1 DEF CreateInsert, InsertRow, TypeOK, Pcs, ACTIVE_RUN_STATUSES
  <2>2. CASE CreateRefused(a)
    BY <2>2 DEF CreateRefused, AlreadyRunning, TypeOK, Pcs
  <2>3. CASE Dispatch(a)
    BY <2>3 DEF Dispatch, TypeOK, RowHeld, Pcs
  <2>4. CASE AddPendingTargets(a)
    <3>1. PICK p \in Waiting(hand[a]) : source' = [source EXCEPT !.keyed = TRUE, !.pending = p]
      BY <2>4 DEF AddPendingTargets
    <3>2. source \in SourceRow /\ hand[a] \subseteq Ids
      BY DEF TypeOK
    <3>3. p \subseteq Ids
      BY <3>1, <3>2 DEF Waiting, SourceRow
    <3>4. source' \in SourceRow
      BY <3>1, <3>2, <3>3 DEF SourceRow
    <3>5. QED
      BY <2>4, <3>2, <3>4 DEF AddPendingTargets, TypeOK, Pcs
  <2>5. QED
    BY <1>2, <2>0, <2>1, <2>2, <2>3, <2>4 DEF CreateStep
<1>3. ASSUME NEW a \in Actors, Crash(a) PROVE TypeOK'
  BY <1>3 DEF Crash, TypeOK, Pcs
<1>4. ASSUME NEW r \in Runs, EngineStep(r) PROVE TypeOK'
  <2> r \in Actors
    BY DEF Actors
  <2>1. CASE BeginRead(r)
    BY <2>1 DEF BeginRead, TypeOK, Pcs, SourceRow, EngineLocals
  <2>2. CASE BeginCommit(r)
    BY <2>2 DEF BeginCommit, TypeOK, Pcs, ACTIVE_RUN_STATUSES
  <2>3. CASE SyncReturns(r)
    <3>1. PICK targeted \in BOOLEAN, moved \in BOOLEAN :
            /\ moved => engine[r].cursor < MaxCursor
            /\ engine' = [engine EXCEPT
                 ![r].outcome = IF cancelReq[r] THEN "cancelled" ELSE "succeeded",
                 ![r].auth = FALSE,
                 ![r].targeted = targeted,
                 ![r].cursor = IF moved THEN @ + 1 ELSE @]
      BY <2>3 DEF SyncReturns
    <3>2. engine[r] \in EngineLocals
      BY DEF TypeOK
    <3>3. (IF moved THEN engine[r].cursor + 1 ELSE engine[r].cursor) \in 0..MaxCursor
      BY <3>1, <3>2 DEF EngineLocals
    <3>4. engine' \in [Runs -> EngineLocals]
      BY <3>1, <3>2, <3>3 DEF TypeOK, EngineLocals, Terminal
    <3>5. QED
      BY <2>3, <3>4 DEF SyncReturns, TypeOK, Pcs
  <2>4. CASE SyncRaises(r)
    <3>1. PICK auth \in BOOLEAN :
            engine' = [engine EXCEPT ![r].outcome = "failed", ![r].auth = auth]
      BY <2>4 DEF SyncRaises
    <3>2. engine[r] \in EngineLocals
      BY DEF TypeOK
    <3>3. engine' \in [Runs -> EngineLocals]
      BY <3>1, <3>2 DEF TypeOK, EngineLocals, Terminal
    <3>4. QED
      BY <2>4, <3>3 DEF SyncRaises, TypeOK, Pcs
  <2>5. CASE FinishRead(r)
    <3>1. ReadSource(source) \in SourceRead
      BY DEF TypeOK, ReadSource, SourceRow, SourceRead
    <3>2. engine' \in [Runs -> EngineLocals]
      BY <2>5, <3>1 DEF FinishRead, TypeOK, EngineLocals
    <3>3. QED
      BY <2>5, <3>2 DEF FinishRead, TypeOK, Pcs
  <2>6. CASE FinishCommit(r)
    <3>1. engine[r] \in EngineLocals
      BY DEF TypeOK
    <3>2. FinishedSource(engine[r]) \in SourceRow
      BY <3>1 DEF FinishedSource, StatusColumn, NewStatus, Armed, EngineLocals, SourceRead,
                  SourceRow, SourceStatuses, DueValues, TypeOK, Terminal
    <3>3. source' \in SourceRow
      BY <2>6, <3>2 DEF FinishCommit
    <3>4. engine' \in [Runs -> EngineLocals]
      <4>1. [NoEngine EXCEPT !.depth = engine[r].depth] \in EngineLocals
        <5>1. NoEngine \in EngineLocals
          BY NoEngineType
        <5>2. QED
          BY <3>1, <5>1 DEF EngineLocals
      <4>2. QED
        <5>1. engine' = [engine EXCEPT ![r] = [NoEngine EXCEPT !.depth = engine[r].depth]]
          BY <2>6 DEF FinishCommit
        <5>2. QED
          BY <4>1, <5>1 DEF TypeOK
    <3>5. QED
      BY <2>6, <3>1, <3>3, <3>4 DEF FinishCommit, TypeOK, Pcs, EngineLocals
  <2>7. CASE TakePendingTargets(r)
    BY <2>7 DEF TakePendingTargets, TypeOK, Pcs, SourceRow
  <2>9. CASE DrainInsert(r)
    <3>1. PICK q \in Runs :
            /\ InsertRow(r, q)
            /\ pc' = [pc EXCEPT ![r] = "idle", ![q] = "begin"]
            /\ engine' = [engine EXCEPT ![q].depth = engine[r].depth + 1]
      BY <2>9 DEF DrainInsert
    <3>2. engine[r].depth + 1 \in 0..MaxDepth
      BY <2>9 DEF DrainInsert, DepthLeft, TypeOK, EngineLocals
    <3>3. engine' \in [Runs -> EngineLocals]
      BY <3>1, <3>2 DEF TypeOK, EngineLocals
    <3>4. pc' \in [Actors -> Pcs]
      BY <3>1 DEF TypeOK, Pcs, Actors
    <3>5. QED
      BY <2>9, <3>1, <3>3, <3>4 DEF DrainInsert, InsertRow, TypeOK, ACTIVE_RUN_STATUSES
  <2>10. QED
    BY <1>4, <2>1, <2>2, <2>3, <2>4, <2>5, <2>6, <2>7, <2>9 DEF EngineStep
<1>5. ASSUME NEW r \in Runs, RowStep(r) PROVE TypeOK'
  <2> r \in Actors
    BY DEF Actors
  <2>1. CASE Deliver(r)
    BY <2>1 DEF Deliver, TypeOK, Pcs, EngineLocals
  <2>2. CASE FlushProgress(r)
    BY <2>2 DEF FlushProgress, TypeOK
  <2>3. CASE RunAges(r)
    BY <2>3 DEF RunAges, TypeOK
  <2>4. CASE LoseMessage(r)
    BY <2>4 DEF LoseMessage, TypeOK
  <2>5. CASE Forget(r)
    BY <2>5, NoEngineType DEF Forget, TypeOK
  <2>6. QED
    BY <1>5, <2>1, <2>2, <2>3, <2>4, <2>5 DEF RowStep
<1>6. CASE SchedulerStep
  <2> Scheduler \in Actors
    BY DEF Actors
  <2>1. CASE ReapRead
    BY <2>1 DEF ReapRead, TypeOK, Pcs
  <2>2. CASE ReapWrite
    BY <2>2 DEF ReapWrite, TypeOK, Pcs, Terminal
  <2>3. CASE ScheduleDue
    <3>1. pc' \in [Actors -> Pcs] /\ hand' \in [Actors -> SUBSET Ids]
      BY <2>3, CheckTypes DEF ScheduleDue, TypeOK, Pcs
    <3>2. QED
      BY <2>3, <3>1 DEF ScheduleDue, TypeOK
  <2>4. CASE ScheduleBump
    BY <2>4 DEF ScheduleBump, TypeOK, Pcs, SourceRow, DueValues
  <2>5. QED
    BY <1>6, <2>1, <2>2, <2>3, <2>4 DEF SchedulerStep
<1>7. CASE PauseSource
  BY <1>7 DEF PauseSource, TypeOK, SourceRow, SourceStatuses, DueValues
<1>8. CASE ResumeSource
  BY <1>8 DEF ResumeSource, TypeOK, SourceRow, SourceStatuses, DueValues, Armed
<1>9. CASE SyncComesDue
  BY <1>9 DEF SyncComesDue, TypeOK, SourceRow, DueValues
<1>10. CASE UNCHANGED vars
  BY <1>10 DEF vars, TypeOK
<1>11. QED
  BY <1>1, <1>2, <1>3, <1>4, <1>5, <1>6, <1>7, <1>8, <1>9, <1>10 DEF Next

-----------------------------------------------------------------------------
LEMMA ControlStep == IInv /\ [Next]_vars => RowHeld' /\ DepthLeft'
<1> SUFFICES ASSUME TypeOK, RowHeld, DepthLeft, [Next]_vars
             PROVE  RowHeld' /\ DepthLeft'
  BY DEF IInv
<1> USE NamesAssumption DEF TypeOK, RowHeld, DepthLeft, Actors
<1>1. ASSUME NEW c \in Callers, CallerStep(c) PROVE RowHeld' /\ DepthLeft'
  <2>1. CASE StartSync(c) \/ SourceWebhook(c)
    BY <2>1 DEF StartSync, SourceWebhook, CreateCheck, AlreadyRunning
  <2>2. CASE CancelRead(c)
    BY <2>2 DEF CancelRead
  <2>3. CASE CancelWrite(c)
    BY <2>3 DEF CancelWrite
  <2>4. QED
    BY <1>1, <2>1, <2>2, <2>3 DEF CallerStep
<1>2. ASSUME NEW a \in Actors, CreateStep(a) PROVE RowHeld' /\ DepthLeft'
  <2>0. CASE NotifiedCheck(a)
    BY <2>0 DEF NotifiedCheck, CreateCheck, AlreadyRunning
  <2>1. CASE CreateInsert(a)
    BY <2>1 DEF CreateInsert
  <2>2. CASE CreateRefused(a)
    BY <2>2 DEF CreateRefused, AlreadyRunning
  <2>3. CASE Dispatch(a)
    BY <2>3 DEF Dispatch
  <2>4. CASE AddPendingTargets(a)
    BY <2>4 DEF AddPendingTargets
  <2>5. QED
    BY <1>2, <2>0, <2>1, <2>2, <2>3, <2>4 DEF CreateStep
<1>3. ASSUME NEW a \in Actors, Crash(a) PROVE RowHeld' /\ DepthLeft'
  BY <1>3 DEF Crash
<1>4. ASSUME NEW r \in Runs, EngineStep(r) PROVE RowHeld' /\ DepthLeft'
  <2>1. CASE BeginRead(r) \/ BeginCommit(r) \/ FinishRead(r)
    BY <2>1 DEF BeginRead, BeginCommit, FinishRead
  <2>2. CASE SyncReturns(r) \/ SyncRaises(r)
    <3>1. pc' = [pc EXCEPT ![r] = "finish"] /\ row' = row
      BY <2>2 DEF SyncReturns, SyncRaises
    <3>2. \A q \in Runs \ {r} : engine'[q] = engine[q]
      <4>1. CASE SyncReturns(r)
        <5>1. PICK targeted, moved :
                engine' = [engine EXCEPT
                  ![r].outcome = IF cancelReq[r] THEN "cancelled" ELSE "succeeded",
                  ![r].auth = FALSE,
                  ![r].targeted = targeted,
                  ![r].cursor = IF moved THEN @ + 1 ELSE @]
          BY <4>1 DEF SyncReturns
        <5>2. QED
          BY <5>1
      <4>2. CASE SyncRaises(r)
        BY <4>2 DEF SyncRaises
      <4>3. QED
        BY <2>2, <4>1, <4>2
    <3>3. QED
      BY <3>1, <3>2
  <2>3. CASE FinishCommit(r)
    BY <2>3 DEF FinishCommit, MayDrain, NoEngine
  <2>4. CASE TakePendingTargets(r)
    BY <2>4 DEF TakePendingTargets
  <2>5. CASE DrainInsert(r)
    BY <2>5 DEF DrainInsert
  <2>6. QED
    BY <1>4, <2>1, <2>2, <2>3, <2>4, <2>5 DEF EngineStep
<1>5. ASSUME NEW r \in Runs, RowStep(r) PROVE RowHeld' /\ DepthLeft'
  <2>1. CASE Deliver(r)
    BY <2>1 DEF Deliver
  <2>2. CASE FlushProgress(r) \/ RunAges(r) \/ LoseMessage(r)
    BY <2>2 DEF FlushProgress, RunAges, LoseMessage
  <2>3. CASE Forget(r)
    BY <2>3 DEF Forget, NoEngine
  <2>4. QED
    BY <1>5, <2>1, <2>2, <2>3 DEF RowStep
<1>6. CASE SchedulerStep
  <2>1. CASE ReapRead \/ ReapWrite \/ ScheduleBump
    BY <2>1 DEF ReapRead, ReapWrite, ScheduleBump
  <2>2. CASE ScheduleDue
    BY <2>2 DEF ScheduleDue, CreateCheck, AlreadyRunning
  <2>3. QED
    BY <1>6, <2>1, <2>2 DEF SchedulerStep
<1>7. CASE PauseSource \/ ResumeSource \/ SyncComesDue \/ UNCHANGED vars
  BY <1>7 DEF PauseSource, ResumeSource, SyncComesDue, vars
<1>8. QED
  BY <1>1, <1>2, <1>3, <1>4, <1>5, <1>6, <1>7 DEF Next

\* Seen from the rows' statuses, a step only closes rows, or writes one row
\* active with the leave of the unique index.
Closes == \A r \in Runs : status'[r] = status[r] \/ status'[r] \notin ACTIVE_RUN_STATUSES
Opens(r, s) == IndexAllows(r) /\ status' = [status EXCEPT ![r] = s]

LEMMA StepShape ==
  ASSUME TypeOK, [Next]_vars
  PROVE  \/ Closes
         \/ \E r \in Runs : status[r] = "none" /\ Opens(r, "queued")
         \/ \E r \in Runs : Opens(r, "running")
<1> DEFINE Shape == \/ Closes
                    \/ \E r \in Runs : status[r] = "none" /\ Opens(r, "queued")
                    \/ \E r \in Runs : Opens(r, "running")
<1> SUFFICES Shape
  OBVIOUS
<1>1. ASSUME NEW a, NEW r \in Runs, InsertRow(a, r) PROVE Shape
  BY <1>1 DEF InsertRow, Opens
<1>2. ASSUME NEW r \in Runs, BeginCommit(r) PROVE Shape
  BY <1>2 DEF BeginCommit, Opens, Closes, rowVars
<1>3. ASSUME NEW c \in Callers, CancelWrite(c) PROVE Shape
  BY <1>3 DEF CancelWrite, Closes, TypeOK, ACTIVE_RUN_STATUSES
<1>4. CASE ReapWrite
  BY <1>4 DEF ReapWrite, Closes, ACTIVE_RUN_STATUSES
<1>5. ASSUME NEW r \in Runs, FinishCommit(r) PROVE Shape
  <2>1. engine[r].outcome \in Terminal
    BY DEF TypeOK, EngineLocals
  <2>2. QED
    BY <1>5, <2>1 DEF FinishCommit, Closes, TypeOK, Terminal, ACTIVE_RUN_STATUSES
<1>6. ASSUME NEW r \in Runs, Forget(r) PROVE Shape
  BY <1>6 DEF Forget, Closes, TypeOK, ACTIVE_RUN_STATUSES
<1>7. CASE UNCHANGED status
  BY <1>7 DEF Closes
<1> HIDE DEF Shape
<1>8. ASSUME NEW c \in Callers, CallerStep(c) PROVE Shape
  BY <1>8, <1>3, <1>7 DEF CallerStep, StartSync, SourceWebhook, CancelRead, rowVars
<1>9. ASSUME NEW a \in Actors, CreateStep(a) \/ Crash(a) PROVE Shape
  BY <1>9, <1>1, <1>7 DEF CreateStep, NotifiedCheck, CreateInsert, CreateRefused, Dispatch,
                          AddPendingTargets, Crash, rowVars
<1>10. ASSUME NEW r \in Runs, EngineStep(r) PROVE Shape
  BY <1>10, <1>1, <1>2, <1>5, <1>7 DEF EngineStep, BeginRead, SyncReturns, SyncRaises,
       FinishRead, TakePendingTargets, DrainInsert, rowVars
<1>11. ASSUME NEW r \in Runs, RowStep(r) PROVE Shape
  BY <1>11, <1>6, <1>7 DEF RowStep, Deliver, FlushProgress, RunAges, LoseMessage, rowVars
<1>12. CASE SchedulerStep
  BY <1>12, <1>4, <1>7 DEF SchedulerStep, ReapRead, ScheduleDue, ScheduleBump, rowVars
<1>13. CASE PauseSource \/ ResumeSource \/ SyncComesDue \/ UNCHANGED vars
  BY <1>13, <1>7 DEF PauseSource, ResumeSource, SyncComesDue, vars, rowVars
<1>14. QED
  BY <1>8, <1>9, <1>10, <1>11, <1>12, <1>13 DEF Next

LEMMA OneActiveStep == IInv /\ [Next]_vars => AtMostOneActive'
<1> SUFFICES ASSUME TypeOK, AtMostOneActive, [Next]_vars PROVE AtMostOneActive'
  BY DEF IInv
<1>1. CASE Closes
  BY <1>1 DEF Closes, AtMostOneActive, Active
<1>2. ASSUME NEW r \in Runs, NEW s, Opens(r, s) PROVE AtMostOneActive'
  BY <1>2 DEF Opens, IndexAllows, AtMostOneActive, Active, TypeOK
<1>3. QED
  BY <1>1, <1>2, StepShape

\* IInv is inductive.
LEMMA IInvAlways == Spec => []IInv
<1>1. Init => IInv
  <2>1. Init => RowHeld /\ DepthLeft /\ AtMostOneActive
    BY DEF Init, RowHeld, DepthLeft, AtMostOneActive, Active, Actors, ACTIVE_RUN_STATUSES
  <2>2. QED
    BY <2>1, InitTypes DEF IInv
<1>2. IInv /\ [Next]_vars => IInv'
  BY TypesStep, ControlStep, OneActiveStep DEF IInv
<1>3. QED
  BY <1>1, <1>2, PTL DEF Spec

\* Every variable of the run protocol keeps its type; in particular drains never
\* nest deeper than MaxDepth and only existing rows are ever enqueued.
THEOREM TypesAlways == Spec => []TypeOK
BY IInvAlways, PTL DEF IInv

\* "Only one run per source may be queued or running": for any number of rows and
\* callers, through every race of create_run, _begin, cancel and the reaper.
THEOREM OneActiveAlways == Spec => []AtMostOneActive
BY IInvAlways, PTL DEF IInv

-----------------------------------------------------------------------------
LEMMA SlotOf ==
  ASSUME AtMostOneActive, NEW r \in Runs, Active(r)
  PROVE  Slot = <<r, status[r]>>
<1>1. (CHOOSE q \in Runs : Active(q)) = r
  BY DEF AtMostOneActive
<1>2. QED
  BY <1>1 DEF Slot

LEMMA SlotFree == (\A r \in Runs : ~Active(r)) => Slot = NoRun
BY DEF Slot

LEMMA SlotStep == IInv /\ IInv' /\ [Next]_vars => [OneRun!Next]_Slot
<1> SUFFICES ASSUME TypeOK, TypeOK', AtMostOneActive, AtMostOneActive', [Next]_vars
             PROVE  OneRun!Next \/ Slot' = Slot
  BY DEF IInv
<1>1. CASE Closes
  <2>1. CASE \A r \in Runs : ~Active(r)'
    <3>1. Slot' = NoRun
      BY <2>1 DEF Slot
    <3>2. QED
      BY <3>1 DEF OneRun!Next, OneRun!Release
  <2>2. ASSUME NEW r \in Runs, Active(r)' PROVE Slot' = Slot
    <3>1. status'[r] = status[r] /\ Active(r)
      BY <1>1, <2>2 DEF Closes, Active
    <3>2. Slot = <<r, status[r]>>
      BY <3>1, SlotOf
    <3>3. (CHOOSE q \in Runs : Active(q)') = r
      BY <2>2 DEF AtMostOneActive
    <3>4. Slot' = <<r, status'[r]>>
      BY <2>2, <3>3 DEF Slot
    <3>5. QED
      BY <3>1, <3>2, <3>4
  <2>3. QED
    BY <2>1, <2>2
<1>2. ASSUME NEW r \in Runs, NEW s \in ACTIVE_RUN_STATUSES, Opens(r, s)
      PROVE  Slot' = <<r, s>>
  <2>1. status'[r] = s /\ Active(r)'
    BY <1>2 DEF Opens, TypeOK, Active
  <2>2. (CHOOSE q \in Runs : Active(q)') = r
    BY <2>1 DEF AtMostOneActive
  <2>3. QED
    BY <2>1, <2>2 DEF Slot
<1>3. ASSUME NEW r \in Runs, status[r] = "none", Opens(r, "queued")
      PROVE  OneRun!Next
  <2>1. Slot' = <<r, "queued">>
    BY <1>2, <1>3 DEF ACTIVE_RUN_STATUSES
  <2>2. \A q \in Runs : ~Active(q)
    BY <1>3 DEF Opens, IndexAllows, Active, ACTIVE_RUN_STATUSES
  <2>3. Slot = NoRun
    BY <2>2, SlotFree
  <2>4. QED
    BY <2>1, <2>3 DEF OneRun!Next, OneRun!Admit
<1>4. ASSUME NEW r \in Runs, Opens(r, "running")
      PROVE  OneRun!Next \/ Slot' = Slot
  <2>1. Slot' = <<r, "running">>
    BY <1>2, <1>4 DEF ACTIVE_RUN_STATUSES
  <2>2. CASE Active(r)
    <3>1. Slot = <<r, status[r]>>
      BY <2>2, SlotOf
    <3>2. QED
      BY <2>1, <2>2, <3>1 DEF Active, ACTIVE_RUN_STATUSES, OneRun!Next, OneRun!Begin
  <2>3. CASE ~Active(r)
    <3>1. Slot = NoRun
      BY <1>4, <2>3, SlotFree DEF Opens, IndexAllows
    <3>2. QED
      BY <2>1, <3>1 DEF OneRun!Next, OneRun!Begin
  <2>4. QED
    BY <2>2, <2>3
<1>5. QED
  BY <1>1, <1>3, <1>4, StepShape

\* The run rows implement OneActiveRun: one slot that runs take in turn.
THEOREM RunsTakeTurns == Spec => TakesTurns
<1>1. Init => OneRun!Init
  BY DEF Init, OneRun!Init, Slot, Active, ACTIVE_RUN_STATUSES
<1>2. IInv /\ IInv' /\ [Next]_vars => [OneRun!Next]_Slot
  BY SlotStep
<1>3. QED
  BY <1>1, <1>2, IInvAlways, PTL DEF Spec, TakesTurns, OneRun!Spec

-----------------------------------------------------------------------------
\* Who may end a pause: the two requests, and a run that fails or had read the source
\* as failed.
PauseEnds == \/ ResumeSource \/ \E c \in Callers : StartSync(c)
             \/ \E r \in Runs : FailsOver(r)

LEMMA PauseStep ==
  ASSUME TypeOK, [Next]_vars, source.status = "paused", source'.status # "paused"
  PROVE  PauseEnds
<1>1. source \in SourceRow
  BY DEF TypeOK
<1>2. source' # source
  OBVIOUS
<1>3. ASSUME NEW c \in Callers, CallerStep(c) PROVE StartSync(c)
  BY <1>2, <1>3 DEF CallerStep, SourceWebhook, CancelRead, CancelWrite
<1>4. ASSUME NEW a \in Actors, CreateStep(a) \/ Crash(a) PROVE FALSE
  BY <1>1, <1>2, <1>4 DEF CreateStep, NotifiedCheck, CreateInsert, CreateRefused, Dispatch,
                          AddPendingTargets, Crash, SourceRow
<1>5. ASSUME NEW r \in Runs, RowStep(r) PROVE FALSE
  BY <1>2, <1>5 DEF RowStep, Deliver, FlushProgress, RunAges, LoseMessage, Forget
<1>6. ASSUME NEW r \in Runs, EngineStep(r) PROVE FailsOver(r)
  <2>1. FinishCommit(r)
    BY <1>1, <1>2, <1>6 DEF EngineStep, BeginRead, BeginCommit, SyncReturns, SyncRaises,
         FinishRead, TakePendingTargets, DrainInsert, SourceRow
  <2>2. source' = FinishedSource(engine[r])
    BY <2>1 DEF FinishCommit
  <2>3. NewStatus(engine[r]) # engine[r].read.status /\ source'.status = NewStatus(engine[r])
    BY <2>2 DEF FinishedSource, StatusColumn
  <2>4. /\ engine[r] \in EngineLocals /\ engine[r].read.status \in SourceStatuses
        /\ engine[r].outcome \in Terminal
    BY DEF TypeOK, EngineLocals, SourceRead
  <2>5. CASE engine[r].outcome = "failed"
    BY <2>1, <2>3, <2>5 DEF NewStatus, FailsOver
  <2>6. CASE engine[r].outcome = "succeeded"
    BY <2>1, <2>3, <2>4, <2>6 DEF NewStatus, FailsOver, SourceStatuses
  <2>7. CASE engine[r].outcome = "cancelled"
    BY <2>3, <2>7 DEF NewStatus
  <2>8. QED
    BY <2>4, <2>5, <2>6, <2>7 DEF Terminal
<1>7. CASE SchedulerStep \/ PauseSource \/ SyncComesDue
  BY <1>1, <1>2, <1>7 DEF SchedulerStep, ReapRead, ReapWrite, ScheduleDue, ScheduleBump,
                          PauseSource, SyncComesDue, SourceRow
<1>8. ~UNCHANGED vars
  BY <1>2 DEF vars
<1>9. QED
  BY <1>3, <1>4, <1>5, <1>6, <1>7, <1>8 DEF Next, PauseEnds

\* A pause ends by a resume or a request that activates the source, by a run that
\* fails, or by the success of a run that had read the source as failed: whatever
\* other runs, notifications, drains, crashes and cron ticks do around it.
THEOREM PauseIsKept == Spec => PauseHolds
<1>1. TypeOK /\ [Next]_vars =>
        [source.status = "paused" /\ source'.status # "paused"
           => \/ ResumeSource \/ \E c \in Callers : StartSync(c)
              \/ \E r \in Runs : FailsOver(r)]_vars
  BY PauseStep DEF PauseEnds
<1>2. QED
  BY <1>1, TypesAlways, PTL DEF Spec, PauseHolds

-----------------------------------------------------------------------------
(* Notified items.                                                         *)

\* Nobody works on behalf of a row that does not exist.
NoneIsIdle == \A r \in Runs : status[r] = "none" =>
  pc[r] = "idle" /\ r \notin queue /\ \A a \in Actors : row[a] # r
\* Ids are in the hands of actors that are about to place them.
HandBusy == \A a \in Actors : hand[a] # {} => pc[a] \in {"check", "insert", "wait"}
NInv == NoneIsIdle /\ HandBusy

LEMMA NoneIsIdleStep ==
  ASSUME TypeOK, RowHeld, NoneIsIdle, [Next]_vars
  PROVE  NoneIsIdle'
<1> USE NamesAssumption DEF TypeOK, NoneIsIdle, Actors
<1>1. ASSUME NEW c \in Callers, CallerStep(c) PROVE NoneIsIdle'
  <2>1. CASE StartSync(c) \/ SourceWebhook(c)
    BY <2>1 DEF StartSync, SourceWebhook, CreateCheck, AlreadyRunning, rowVars
  <2>2. CASE CancelRead(c)
    BY <2>2 DEF CancelRead, Active, ACTIVE_RUN_STATUSES, rowVars
  <2>3. CASE CancelWrite(c)
    BY <2>3 DEF CancelWrite
  <2>4. QED
    BY <1>1, <2>1, <2>2, <2>3 DEF CallerStep
<1>2. ASSUME NEW a \in Actors, CreateStep(a) PROVE NoneIsIdle'
  <2>0. CASE NotifiedCheck(a)
    BY <2>0 DEF NotifiedCheck, CreateCheck, AlreadyRunning, rowVars
  <2>1. CASE CreateInsert(a)
    BY <2>1 DEF CreateInsert, InsertRow
  <2>2. CASE CreateRefused(a)
    BY <2>2 DEF CreateRefused, AlreadyRunning, rowVars
  <2>3. CASE Dispatch(a)
    BY <2>3 DEF Dispatch, rowVars
  <2>4. CASE AddPendingTargets(a)
    BY <2>4 DEF AddPendingTargets, rowVars
  <2>5. QED
    BY <1>2, <2>0, <2>1, <2>2, <2>3, <2>4 DEF CreateStep
<1>3. ASSUME NEW a \in Actors, Crash(a) PROVE NoneIsIdle'
  BY <1>3 DEF Crash, rowVars
<1>4. ASSUME NEW r \in Runs, EngineStep(r) PROVE NoneIsIdle'
  <2>1. pc[r] # "idle"
    BY <1>4 DEF EngineStep, BeginRead, BeginCommit, SyncReturns, SyncRaises, FinishRead,
         FinishCommit, TakePendingTargets, DrainInsert
  <2>2. CASE BeginRead(r) \/ FinishRead(r) \/ SyncReturns(r) \/ SyncRaises(r)
    <3>1. /\ UNCHANGED <<status, queue, row>>
          /\ \A q \in Runs \ {r} : pc'[q] = pc[q]
      BY <2>2 DEF BeginRead, FinishRead, SyncReturns, SyncRaises, rowVars
    <3>2. QED
      BY <2>1, <3>1
  <2>3. CASE BeginCommit(r)
    BY <2>1, <2>3 DEF BeginCommit, rowVars
  <2>4. CASE FinishCommit(r)
    <3>1. engine[r].outcome \in Terminal
      BY DEF EngineLocals
    <3>2. QED
      BY <2>1, <2>4, <3>1 DEF FinishCommit, Terminal
  <2>5. CASE TakePendingTargets(r)
    BY <2>1, <2>5 DEF TakePendingTargets, rowVars
  <2>6. CASE DrainInsert(r)
    BY <2>1, <2>6 DEF DrainInsert, InsertRow
  <2>7. QED
    BY <1>4, <2>2, <2>3, <2>4, <2>5, <2>6 DEF EngineStep
<1>5. ASSUME NEW r \in Runs, RowStep(r) PROVE NoneIsIdle'
  <2>1. CASE Deliver(r)
    BY <2>1 DEF Deliver, rowVars
  <2>2. CASE FlushProgress(r) \/ RunAges(r) \/ LoseMessage(r)
    BY <2>2 DEF FlushProgress, RunAges, LoseMessage, rowVars
  <2>3. CASE Forget(r)
    BY <2>3 DEF Forget
  <2>4. QED
    BY <1>5, <2>1, <2>2, <2>3 DEF RowStep
<1>6. CASE SchedulerStep
  <2>1. CASE ReapRead \/ ReapWrite \/ ScheduleBump
    BY <2>1 DEF ReapRead, ReapWrite, ScheduleBump, rowVars
  <2>2. CASE ScheduleDue
    BY <2>2 DEF ScheduleDue, CreateCheck, AlreadyRunning, rowVars
  <2>3. QED
    BY <1>6, <2>1, <2>2 DEF SchedulerStep
<1>7. CASE PauseSource \/ ResumeSource \/ SyncComesDue \/ UNCHANGED vars
  BY <1>7 DEF PauseSource, ResumeSource, SyncComesDue, vars, rowVars
<1>8. QED
  BY <1>1, <1>2, <1>3, <1>4, <1>5, <1>6, <1>7 DEF Next

\* Ids in hand stay there, or are named by a row, or are lost in a named way; waiting
\* ids stay or are taken in hand.
HandKept == \A a \in Actors : \A i \in hand[a] : i \in Remembered' \/ Named(i) \/ Lost(i)
PendingKept == \A i \in source.pending : i \in Remembered' \/ Lost(i)
Kept == HandKept /\ PendingKept

\* The check half of create_run keeps what the actor carries, unless the source is paused.
LEMMA CheckKeeps ==
  ASSUME TypeOK, NEW a \in Actors, NEW trigger, NEW ids \in SUBSET Ids,
         CreateCheck(a, trigger, ids)
  PROVE  /\ hand'[a] = ids \/ (source.status = "paused" /\ hand'[a] = {})
         /\ hand'[a] # {} => pc'[a] \in {"insert", "wait"}
         /\ \A b \in Actors \ {a} : hand'[b] = hand[b] /\ pc'[b] = pc[b]
BY DEF CreateCheck, AlreadyRunning, TypeOK

\* Steps that hold nothing, and change no waiting ids.
LEMMA UntouchedKeeps ==
  ASSUME TypeOK, HandBusy, hand' = hand, source'.pending = source.pending,
         \A a \in Actors : pc'[a] = pc[a] \/ hand[a] = {} \/ pc'[a] \in {"check", "insert", "wait"}
  PROVE  HandBusy' /\ Kept
BY DEF HandBusy, Kept, HandKept, PendingKept, Remembered

\* A row that takes over what its actor carries.
LEMMA InsertKeeps ==
  ASSUME TypeOK, HandBusy, NoneIsIdle, NEW a \in Actors, NEW r \in Runs, InsertRow(a, r),
         hand' = [hand EXCEPT ![a] = {}], source' = source,
         \A b \in Actors : b # a => pc'[b] = pc[b] \/ (b = r /\ pc'[b] = "begin")
  PROVE  HandBusy' /\ Kept
<1>1. hand'[a] = {} /\ \A b \in Actors \ {a} : hand'[b] = hand[b]
  BY DEF TypeOK
<1>2. hand[r] = {}
  BY DEF InsertRow, NoneIsIdle, HandBusy, Actors
<1>3. HandBusy'
  BY <1>1, <1>2 DEF HandBusy
<1>4. status[r] = "none" /\ status'[r] = "queued" /\ targets'[r] = hand[a]
  BY DEF InsertRow, TypeOK
<1>5. \A i \in hand[a] : Named(i)
  BY <1>4 DEF Named
<1>6. QED
  BY <1>1, <1>3, <1>5 DEF Kept, HandKept, PendingKept, Remembered

LEMMA CreateKeeps ==
  ASSUME TypeOK, HandBusy, NoneIsIdle, NEW a \in Actors, CreateStep(a)
  PROVE  HandBusy' /\ Kept
<1>1. CASE NotifiedCheck(a)
  <2>1. /\ hand'[a] = hand[a] \/ (source.status = "paused" /\ hand'[a] = {})
        /\ hand'[a] # {} => pc'[a] \in {"insert", "wait"}
        /\ \A b \in Actors \ {a} : hand'[b] = hand[b] /\ pc'[b] = pc[b]
    BY <1>1, CheckKeeps DEF NotifiedCheck, TypeOK
  <2>2. HandBusy'
    BY <2>1 DEF HandBusy
  <2>3. source' = source
    BY <1>1 DEF NotifiedCheck
  <2>4. ASSUME NEW i \in hand[a], source.status = "paused" PROVE Lost(i)
    BY <1>1, <2>4 DEF Lost
  <2>5. QED
    BY <2>1, <2>2, <2>3, <2>4 DEF Kept, HandKept, PendingKept, Remembered
<1>2. CASE CreateInsert(a)
  <2>1. \A b \in Actors : b # a => pc'[b] = pc[b]
    BY <1>2 DEF CreateInsert, TypeOK
  <2>2. QED
    BY <1>2, <2>1, InsertKeeps DEF CreateInsert
<1>3. CASE CreateRefused(a)
  BY <1>3, UntouchedKeeps DEF CreateRefused, AlreadyRunning, TypeOK
<1>4. CASE Dispatch(a)
  BY <1>4, UntouchedKeeps DEF Dispatch, TypeOK, HandBusy
<1>5. CASE AddPendingTargets(a)
  <2>1. PICK p \in Waiting(hand[a]) : source' = [source EXCEPT !.keyed = TRUE, !.pending = p]
    BY <1>5 DEF AddPendingTargets
  <2>2. /\ source'.pending = p /\ source.pending \subseteq p
        /\ p = source.pending \union hand[a] \/ Cardinality(p) = MaxPending
    BY <2>1 DEF TypeOK, SourceRow, Waiting
  <2>3. hand'[a] = {} /\ \A b \in Actors \ {a} : hand'[b] = hand[b] /\ pc'[b] = pc[b]
    BY <1>5 DEF AddPendingTargets, TypeOK
  <2>4. HandBusy'
    BY <2>3 DEF HandBusy
  <2>5. ASSUME NEW i \in hand[a], i \notin p PROVE Lost(i)
    BY <1>5, <2>2, <2>5 DEF Lost
  <2>6. QED
    BY <2>2, <2>3, <2>4, <2>5 DEF Kept, HandKept, PendingKept, Remembered
<1>6. QED
  BY <1>1, <1>2, <1>3, <1>4, <1>5 DEF CreateStep

LEMMA EngineKeeps ==
  ASSUME TypeOK, HandBusy, NoneIsIdle, NEW r \in Runs, EngineStep(r)
  PROVE  HandBusy' /\ Kept
<1> r \in Actors
  BY DEF Actors
<1>1. CASE BeginRead(r) \/ BeginCommit(r) \/ SyncReturns(r) \/ SyncRaises(r) \/ FinishRead(r)
  <2>1. hand[r] = {}
    BY <1>1 DEF BeginRead, BeginCommit, SyncReturns, SyncRaises, FinishRead, HandBusy
  <2>2. \A b \in Actors \ {r} : pc'[b] = pc[b]
    BY <1>1 DEF BeginRead, BeginCommit, SyncReturns, SyncRaises, FinishRead, TypeOK
  <2>3. source' = source /\ hand' = hand
    BY <1>1 DEF BeginRead, BeginCommit, SyncReturns, SyncRaises, FinishRead
  <2>4. QED
    BY <2>1, <2>2, <2>3, UntouchedKeeps
<1>2. CASE FinishCommit(r)
  <2>1. source' = FinishedSource(engine[r]) /\ hand' = hand
    BY <1>2 DEF FinishCommit
  <2>2. hand[r] = {} /\ \A b \in Actors \ {r} : pc'[b] = pc[b]
    BY <1>2 DEF FinishCommit, HandBusy, TypeOK
  <2>3. HandBusy'
    BY <2>1, <2>2 DEF HandBusy
  <2>4. source'.pending = IF StateWritten(engine[r]) THEN engine[r].read.pending ELSE source.pending
    BY <2>1 DEF FinishedSource
  <2>5. ASSUME NEW i \in source.pending, i \notin source'.pending PROVE Lost(i)
    <3>1. StateWritten(engine[r]) /\ i \notin engine[r].read.pending
      BY <2>4, <2>5
    <3>2. QED
      BY <1>2, <3>1 DEF StateWritten, Lost
  <2>6. QED
    BY <2>1, <2>3, <2>5 DEF Kept, HandKept, PendingKept, Remembered
<1>3. CASE TakePendingTargets(r)
  <2>1. hand[r] = {}
    BY <1>3 DEF TakePendingTargets, HandBusy
  <2>2. CASE UNCHANGED <<source, hand>>
    BY <1>3, <2>1, <2>2, UntouchedKeeps DEF TakePendingTargets, TypeOK
  <2>3. ASSUME NEW ids \in SUBSET source.pending, hand' = [hand EXCEPT ![r] = ids],
               source' = [source EXCEPT !.pending = @ \ ids], pc' = [pc EXCEPT ![r] = "check"]
        PROVE  HandBusy' /\ Kept
    <3>1. /\ source'.pending = source.pending \ ids /\ hand'[r] = ids
          /\ \A b \in Actors \ {r} : hand'[b] = hand[b] /\ pc'[b] = pc[b]
          /\ pc'[r] = "check"
      BY <2>3 DEF TypeOK, SourceRow
    <3>2. HandBusy'
      BY <3>1 DEF HandBusy
    <3>3. QED
      BY <2>1, <3>1, <3>2 DEF Kept, HandKept, PendingKept, Remembered
  <2>4. QED
    BY <1>3, <2>2, <2>3 DEF TakePendingTargets
<1>4. CASE DrainInsert(r)
  <2>1. PICK q \in Runs : InsertRow(r, q) /\ pc' = [pc EXCEPT ![r] = "idle", ![q] = "begin"]
    BY <1>4 DEF DrainInsert
  <2>2. \A b \in Actors : b # r => pc'[b] = pc[b] \/ (b = q /\ pc'[b] = "begin")
    BY <2>1 DEF TypeOK
  <2>3. QED
    <3>1. hand' = [hand EXCEPT ![r] = {}] /\ source' = source
      BY <1>4 DEF DrainInsert
    <3>2. QED
      BY <2>1, <2>2, <3>1, InsertKeeps
<1>5. QED
  BY <1>1, <1>2, <1>3, <1>4 DEF EngineStep

LEMMA CallerKeeps ==
  ASSUME TypeOK, HandBusy, NEW c \in Callers, CallerStep(c)
  PROVE  HandBusy' /\ Kept
<1> c \in Actors
  BY DEF Actors
<1>1. hand[c] = {}
  BY DEF CallerStep, StartSync, SourceWebhook, CancelRead, CancelWrite, HandBusy
<1>2. CASE StartSync(c)
  <2>1. source'.pending = source.pending
    BY <1>2 DEF StartSync, TypeOK, SourceRow
  <2>2. /\ hand'[c] = {}
        /\ \A b \in Actors \ {c} : hand'[b] = hand[b] /\ pc'[b] = pc[b]
    BY <1>2, CheckKeeps DEF StartSync
  <2>3. HandBusy'
    BY <2>2 DEF HandBusy
  <2>4. QED
    BY <1>1, <2>1, <2>2, <2>3 DEF Kept, HandKept, PendingKept, Remembered
<1>3. CASE SourceWebhook(c)
  <2>1. /\ source' = source /\ pc'[c] = "check"
        /\ \A b \in Actors \ {c} : hand'[b] = hand[b] /\ pc'[b] = pc[b]
    BY <1>3 DEF SourceWebhook, TypeOK
  <2>2. HandBusy'
    BY <2>1 DEF HandBusy
  <2>3. QED
    BY <1>1, <2>1, <2>2 DEF Kept, HandKept, PendingKept, Remembered
<1>4. CASE CancelRead(c) \/ CancelWrite(c)
  BY <1>1, <1>4, UntouchedKeeps DEF CancelRead, CancelWrite, TypeOK
<1>5. QED
  BY <1>2, <1>3, <1>4 DEF CallerStep

LEMMA SchedulerKeeps ==
  ASSUME TypeOK, HandBusy, SchedulerStep
  PROVE  HandBusy' /\ Kept
<1> Scheduler \in Actors
  BY DEF Actors
<1>1. hand[Scheduler] = {}
  BY DEF SchedulerStep, ReapRead, ReapWrite, ScheduleDue, ScheduleBump, HandBusy
<1>2. CASE ReapRead \/ ReapWrite \/ ScheduleBump
  <2>1. /\ hand' = hand /\ source'.pending = source.pending
        /\ \A b \in Actors \ {Scheduler} : pc'[b] = pc[b]
    BY <1>2 DEF ReapRead, ReapWrite, ScheduleBump, TypeOK, SourceRow
  <2>2. QED
    BY <1>1, <2>1, UntouchedKeeps
<1>3. CASE ScheduleDue
  <2>1. source' = source
    BY <1>3 DEF ScheduleDue
  <2>2. CASE CreateCheck(Scheduler, "schedule", {})
    <3>1. /\ hand'[Scheduler] = {}
          /\ \A b \in Actors \ {Scheduler} : hand'[b] = hand[b] /\ pc'[b] = pc[b]
      BY <2>2, CheckKeeps
    <3>2. HandBusy'
      BY <3>1 DEF HandBusy
    <3>3. QED
      BY <1>1, <2>1, <3>1, <3>2 DEF Kept, HandKept, PendingKept, Remembered
  <2>3. CASE pc' = [pc EXCEPT ![Scheduler] = "idle"] /\ UNCHANGED hand
    BY <1>1, <2>1, <2>3, UntouchedKeeps DEF TypeOK
  <2>4. QED
    BY <1>3, <2>2, <2>3 DEF ScheduleDue
<1>4. QED
  BY <1>2, <1>3 DEF SchedulerStep

LEMMA KeptStep ==
  ASSUME TypeOK, NInv, [Next]_vars
  PROVE  HandBusy' /\ Kept
<1>1. HandBusy /\ NoneIsIdle
  BY DEF NInv
<1>2. ASSUME NEW a \in Actors, Crash(a) PROVE HandBusy' /\ Kept
  <2>1. /\ hand'[a] = {} /\ source' = source
        /\ \A b \in Actors \ {a} : hand'[b] = hand[b] /\ pc'[b] = pc[b]
    BY <1>2 DEF Crash, TypeOK
  <2>2. HandBusy'
    BY <1>1, <2>1 DEF HandBusy
  <2>3. \A i \in hand[a] : Lost(i)
    BY <1>2 DEF Lost
  <2>4. QED
    BY <2>1, <2>2, <2>3 DEF Kept, HandKept, PendingKept, Remembered
<1>3. ASSUME NEW r \in Runs, RowStep(r) PROVE HandBusy' /\ Kept
  <2>1. \A b \in Actors : pc'[b] = pc[b] \/ hand[b] = {}
    BY <1>1, <1>3 DEF RowStep, Deliver, FlushProgress, RunAges, LoseMessage, Forget, HandBusy, TypeOK
  <2>2. hand' = hand /\ source' = source
    BY <1>3 DEF RowStep, Deliver, FlushProgress, RunAges, LoseMessage, Forget
  <2>3. QED
    BY <1>1, <2>1, <2>2, UntouchedKeeps
<1>4. ASSUME PauseSource \/ ResumeSource \/ SyncComesDue \/ UNCHANGED vars
      PROVE  HandBusy' /\ Kept
  <2>1. source'.pending = source.pending /\ hand' = hand /\ pc' = pc
    BY <1>4 DEF PauseSource, ResumeSource, SyncComesDue, vars, TypeOK, SourceRow
  <2>2. QED
    BY <1>1, <2>1, UntouchedKeeps
<1>5. QED
  BY <1>1, <1>2, <1>3, <1>4, CreateKeeps, EngineKeeps, CallerKeeps, SchedulerKeeps DEF Next

\* Once an id is in a request's hand or waits in the source row, it stays with one of
\* them until a run row names it: through runs that fail, are cancelled, begin late or
\* are reaped, drains that take and give back, refused inserts and names of rows used
\* again.  What loses it is a crash of the actor that carries it, a source paused
\* when create_run looks, a full list, or a run that writes sync_state and had read
\* the list without it; nothing else, for any constants.
THEOREM NotificationsKept == Spec => NotificationKept
<1>1. Init => NInv
  <2> SUFFICES ASSUME Init PROVE NInv
    OBVIOUS
  <2>1. \A r \in Runs : r # NoRun /\ pc[r] = "idle"
    BY NamesAssumption DEF Init, Actors
  <2>2. queue = {} /\ \A a \in Actors : row[a] = NoRun /\ hand[a] = {}
    BY DEF Init
  <2>3. QED
    BY <2>1, <2>2 DEF NInv, NoneIsIdle, HandBusy
<1>2. IInv /\ NInv /\ [Next]_vars => NInv'
  BY KeptStep, NoneIsIdleStep DEF NInv, IInv
<1>3. IInv /\ NInv /\ [Next]_vars =>
        [\A i \in Remembered : i \in Remembered' \/ Named(i) \/ Lost(i)]_vars
  BY KeptStep DEF IInv, Kept, HandKept, PendingKept, Remembered
<1>4. QED
  BY <1>1, <1>2, <1>3, IInvAlways, PTL DEF Spec, NotificationKept
=============================================================================
