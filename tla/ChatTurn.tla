----------------------------- MODULE ChatTurn -----------------------------
(***************************************************************************)
(* The turns of one conversation: how a question is saved, answered by the *)
(* graph, paused for a tool approval and resumed, and how a turn whose     *)
(* process died is found and continued.  (chat_service.py, graph/manager.py, *)
(* the recovery and expiry jobs of the worker.)                            *)
(*                                                                         *)
(* A turn is three transactions: the question and the PROCESSING marker are *)
(* committed, the graph runs and checkpoints its thread after every node,  *)
(* the answer and the cleared marker are committed.  A pause clears the    *)
(* marker too.  Checkpoints have a connection of their own, so a turn can  *)
(* die between any two of these.  LangGraph is external: a run continues   *)
(* from the thread's last checkpoint, and on a thread that is over it just *)
(* returns the final state again.                                          *)
(***************************************************************************)
EXTENDS Naturals

CONSTANTS
  Requests,      \* chat, stream and resume requests; a name is used again
  Recovery,      \* recover_stuck_conversations_job
  Expiry,        \* expire_stale_conversations_job
  Questions,     \* user messages
  MaxFaults,     \* bound on crashes, exceptions and unasked approvals
  NoQuestion,
  Env            \* which events may happen: a subset of Events

\* tools: the model calls tools; overlap: a request comes while another works
\* slow: a turn may take longer than the recovery job's five minutes
\* again: an approval is sent twice, or for a turn that is over; expire: days pass
Events == {"tools", "overlap", "slow", "again", "expire"}

ASSUME ChatAssumption ==
  /\ Recovery # Expiry /\ {Recovery, Expiry} \intersect Requests = {}
  /\ NoQuestion \notin Questions
  /\ MaxFaults \in Nat /\ Env \subseteq Events

VARIABLES
  marker,     \* Conversation.status
  old,        \* processing_started_at is older than the recovery job's cutoff
  thread,     \* the last checkpoint of the conversation's thread
  messages,   \* of each question: its own message and the answers saved for it
  pc,         \* where each request and job is
  run,        \* its execution of the graph
  shown,      \* an approval was asked for and not yet given
  faults,     \* how many crashes, exceptions and unasked approvals there have been
  irregular   \* history: two actors worked at once, or an approval came unasked

vars == <<marker, old, thread, messages, pc, run, shown, faults, irregular>>

Actors == Requests \union {Recovery, Expiry}
Steps == {"none", "llm", "tool", "paused", "done"}
Thread == [q: Questions \union {NoQuestion}, step: Steps]
NoThread == [q |-> NoQuestion, step |-> "none"]
\* Counted are the question (1), an answer (2), more than one answer (3).
MaxMessages == 3

Init ==
  /\ marker = "active" /\ old = FALSE
  /\ thread = NoThread
  /\ messages = [q \in Questions |-> 0]
  /\ pc = [a \in Actors |-> "idle"]
  /\ run = [a \in Actors |-> NoThread]
  /\ shown = FALSE /\ faults = 0 /\ irregular = FALSE

Busy(a) == \E b \in Actors \ {a} : pc[b] # "idle"

\* Actor a sets to work, on the graph or otherwise.
Enter(a, at) ==
  /\ pc[a] = "idle"
  /\ "overlap" \in Env \/ ~Busy(a)
  /\ pc' = [pc EXCEPT ![a] = at]

\* The conversation's row can be written: the expiry job does not hold it.
RowFree == pc[Expiry] # "expiring"

-----------------------------------------------------------------------------
(* Requests.                                                               *)

\* Mutants of MarkProcessing: the marker is only flushed, and lost with the
\* process; a status the enumeration does not have.
MarkFlushed == RowFree /\ UNCHANGED marker /\ old' = FALSE
MarkRunning == RowFree /\ marker' = "running" /\ old' = FALSE

MarkProcessing == RowFree /\ marker' = "processing" /\ old' = FALSE

\* chat, stream: the question and the marker, one commit.
Ask(r) ==
  /\ Enter(r, "invoke")
  /\ irregular' = (irregular \/ Busy(r))
  /\ \E q \in Questions :
       /\ messages[q] = 0
       /\ messages' = [messages EXCEPT ![q] = 1]
       /\ run' = [run EXCEPT ![r] = [q |-> q, step |-> "none"]]
  /\ MarkProcessing
  /\ shown' = FALSE
  /\ UNCHANGED <<thread, faults>>

\* resume: nothing is checked but that the conversation exists.
ResumeEnters(r) ==
  /\ Enter(r, "resume")
  /\ MarkProcessing
  /\ shown' = FALSE
  /\ UNCHANGED <<thread, messages, run>>

\* The approval the user was asked for.
Resume(r) ==
  /\ shown
  /\ ResumeEnters(r)
  /\ irregular' = (irregular \/ Busy(r))
  /\ UNCHANGED faults

\* One sent twice, or for a turn that is over.
ResumeAgain(r) ==
  /\ ~shown /\ "again" \in Env /\ faults < MaxFaults
  /\ faults' = faults + 1
  /\ ResumeEnters(r)
  /\ irregular' = TRUE

-----------------------------------------------------------------------------
(* The graph (external).                                                   *)

\* A checkpoint: what actor a's execution has reached is the thread's state.
Checkpoint(a, reached) ==
  /\ run' = [run EXCEPT ![a] = reached]
  /\ thread' = reached
  /\ UNCHANGED <<marker, old, messages, shown, faults, irregular>>

\* ainvoke(state): new input starts over, whatever was pending.
GraphInvoke(r) ==
  /\ pc[r] = "invoke"
  /\ pc' = [pc EXCEPT ![r] = "graph"]
  /\ Checkpoint(r, [run[r] EXCEPT !.step = "llm"])

\* ainvoke(Command(resume=...)): a rejection skips the tools; without a pause the
\* thread is continued, or its final state returned, as it is.
GraphResume(r) ==
  /\ pc[r] = "resume"
  /\ thread.step # "none"
  /\ pc' = [pc EXCEPT ![r] = "graph"]
  /\ \E next \in IF thread.step = "paused" THEN {"tool", "llm"} ELSE {thread.step} :
       Checkpoint(r, [thread EXCEPT !.step = next])

\* A node runs and its result is checkpointed.
GraphNode(a) ==
  /\ pc[a] = "graph"
  /\ \/ run[a].step = "tool" /\ Checkpoint(a, [run[a] EXCEPT !.step = "llm"])
     \/ run[a].step = "llm" /\ Checkpoint(a, [run[a] EXCEPT !.step = "done"])
     \/ /\ run[a].step = "llm" /\ "tools" \in Env
        /\ Checkpoint(a, [run[a] EXCEPT !.step = "paused"])
  /\ UNCHANGED pc

HasPendingWork == thread.step \notin {"none", "done"}

-----------------------------------------------------------------------------
(* _finalize_or_pause                                                      *)

\* Mutant of ClearProcessing: a pause leaves the marker to the approval.
ClearUnlessPaused(a) ==
  RowFree /\ marker' = (IF run[a].step = "paused" THEN marker ELSE "active") /\ old' = FALSE

ClearProcessing(a) == RowFree /\ marker' = "active" /\ old' = FALSE

More(n) == IF n = MaxMessages THEN n ELSE n + 1

\* The graph has returned: the marker is cleared, and unless it paused the answer
\* is saved, in one commit.
FinalizeOrPause(a) ==
  /\ pc[a] = "graph"
  /\ run[a].step \in {"done", "paused"}
  /\ ClearProcessing(a)
  /\ IF run[a].step = "done"
     THEN messages' = [messages EXCEPT ![run[a].q] = More(@)] /\ UNCHANGED shown
     ELSE shown' = TRUE /\ UNCHANGED messages
  /\ pc' = [pc EXCEPT ![a] = "idle"]
  /\ run' = [run EXCEPT ![a] = NoThread]
  /\ UNCHANGED <<thread, faults, irregular>>

\* The process dies, the client disconnects, or something raises: what is not
\* committed is rolled back, and nobody clears the marker.
Fail(a) ==
  /\ pc[a] # "idle" /\ faults < MaxFaults
  /\ faults' = faults + 1
  /\ pc' = [pc EXCEPT ![a] = "idle"]
  /\ run' = [run EXCEPT ![a] = NoThread]
  /\ UNCHANGED <<marker, old, thread, messages, shown, irregular>>

\* An approval for a thread that is gone: EmptyInputError.
ResumeRaises(r) ==
  /\ pc[r] = "resume" /\ thread.step = "none"
  /\ pc' = [pc EXCEPT ![r] = "idle"]
  /\ UNCHANGED <<marker, old, thread, messages, run, shown, faults, irregular>>

-----------------------------------------------------------------------------
(* The worker's jobs.                                                      *)

\* Five minutes after the marker was set.
Age ==
  /\ marker = "processing" /\ ~old
  /\ "slow" \in Env \/ \A a \in Actors : pc[a] = "idle"
  /\ old' = TRUE
  /\ UNCHANGED <<marker, thread, messages, pc, run, shown, faults, irregular>>

\* list_stuck_processing
RecoverRead ==
  /\ marker = "processing" /\ old
  /\ Enter(Recovery, "check")
  /\ irregular' = (irregular \/ Busy(Recovery))
  /\ UNCHANGED <<marker, old, thread, messages, run, shown, faults>>

\* Mutant of IsComplete: the thread is continued whatever its state.
NeverComplete == FALSE

IsComplete == ~HasPendingWork

\* ChatService.recover: a thread that is over only has its marker cleared.
RecoverCheck ==
  /\ pc[Recovery] = "check"
  /\ IF IsComplete
     THEN ClearProcessing(Recovery) /\ pc' = [pc EXCEPT ![Recovery] = "idle"]
     ELSE UNCHANGED <<marker, old>> /\ pc' = [pc EXCEPT ![Recovery] = "continue"]
  /\ UNCHANGED <<thread, messages, run, shown, faults, irregular>>

\* ainvoke(None): any other is continued from its last checkpoint, which is read again
\* (none is left: EmptyInputError).
RecoverContinue ==
  /\ pc[Recovery] = "continue"
  /\ IF thread.step = "none"
     THEN UNCHANGED run /\ pc' = [pc EXCEPT ![Recovery] = "idle"]
     ELSE run' = [run EXCEPT ![Recovery] = thread] /\ pc' = [pc EXCEPT ![Recovery] = "graph"]
  /\ UNCHANGED <<marker, old, thread, messages, shown, faults, irregular>>

\* expire_stale_conversations_job: days without a message, then archive and delete.
ExpireRead ==
  /\ "expire" \in Env
  /\ marker = "active"
  /\ Enter(Expiry, "expire")
  /\ irregular' = (irregular \/ Busy(Expiry))
  /\ UNCHANGED <<marker, old, thread, messages, run, shown, faults>>

\* The row is flushed, and so locked until the job's commit; the thread is deleted
\* over another connection, at once.
ExpireThread ==
  /\ pc[Expiry] = "expire"
  /\ thread' = NoThread
  /\ pc' = [pc EXCEPT ![Expiry] = "expiring"]
  /\ UNCHANGED <<marker, old, messages, run, shown, faults, irregular>>

\* Only the changed column is written: processing_started_at stays.
ExpireCommit ==
  /\ pc[Expiry] = "expiring"
  /\ marker' = "archived"
  /\ pc' = [pc EXCEPT ![Expiry] = "idle"]
  /\ UNCHANGED <<old, thread, messages, run, shown, faults, irregular>>

-----------------------------------------------------------------------------
RequestStep(r) == GraphInvoke(r) \/ GraphResume(r) \/ ResumeRaises(r)
GraphStep(a) == GraphNode(a) \/ FinalizeOrPause(a)

Next ==
  \/ \E r \in Requests : Ask(r) \/ Resume(r) \/ ResumeAgain(r) \/ RequestStep(r)
  \/ \E a \in Actors : GraphStep(a) \/ Fail(a)
  \/ Age \/ RecoverRead \/ RecoverCheck \/ RecoverContinue
  \/ ExpireRead \/ ExpireThread \/ ExpireCommit

Spec == Init /\ [][Next]_vars

\* Models and tools answer or time out, time passes, and the cron jobs run.
Fairness ==
  /\ \A r \in Requests : WF_vars(RequestStep(r))
  /\ \A a \in Actors : WF_vars(GraphStep(a))
  /\ WF_vars(Age) /\ WF_vars(RecoverRead) /\ WF_vars(RecoverCheck) /\ WF_vars(RecoverContinue)
  /\ WF_vars(ExpireThread) /\ WF_vars(ExpireCommit)
FairSpec == Spec /\ Fairness

-----------------------------------------------------------------------------
(* Properties.                                                             *)

\* Every variable has its type.
TypeOK ==
  /\ marker \in {"active", "processing", "archived"}
  /\ old \in BOOLEAN /\ shown \in BOOLEAN /\ irregular \in BOOLEAN
  /\ thread \in Thread
  /\ messages \in [Questions -> 0..MaxMessages]
  /\ pc \in [Actors -> {"idle", "invoke", "resume", "graph", "check", "continue", "expire",
                    "expiring"}]
  /\ run \in [Actors -> Thread]
  /\ faults \in 0..MaxFaults

Quiet == \A a \in Actors : pc[a] = "idle"

\* No "second, duplicate assistant message" (ChatService.recover): through crashes,
\* recoveries, pauses and approvals, a question has at most one answer, unless
\* two requests or jobs worked on the conversation at once or an approval came that
\* nobody had asked for.
AnsweredOnce == ~irregular => \A q \in Questions : messages[q] < 3

\* What the recovery job looks for is there to be found: when nobody works on the
\* conversation and its graph stopped between two nodes, it is PROCESSING.
PendingWorkIsMarked ==
  ~irregular /\ Quiet /\ thread.step \in {"llm", "tool"} => marker = "processing"

\* The marker never sticks: whatever died, a conversation stops being PROCESSING.
StuckIsCleared == marker = "processing" ~> marker # "processing"

\* "So a real assistant message gets persisted and the user's original request
\* actually completes instead of quietly vanishing" (the recovery job): when nobody
\* works on a conversation that is not PROCESSING and its graph has reached the end,
\* the question it was about has its answer.
CompletedIsAnswered ==
  Quiet /\ marker = "active" /\ thread.step = "done" => messages[thread.q] >= 2
=============================================================================
