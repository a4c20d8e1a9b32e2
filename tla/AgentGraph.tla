----------------------------- MODULE AgentGraph -----------------------------
(***************************************************************************)
(* The agent's graph and what its thread carries from one turn of a        *)
(* conversation to the next.  (graph/builder.py, graph/nodes/*, router,    *)
(* state, planner/planner.py, ChatService._build_state and                 *)
(* _finalize_or_pause, conversation/*.)                                    *)
(*                                                                         *)
(* LangGraph runs one step's nodes, merges what they return into the       *)
(* channels of the thread and checkpoints it; a channel no node and no     *)
(* input writes keeps its value, also into the next turn.  Here a node is  *)
(* one action; planner and load_memory are of one step and finish in any   *)
(* order.  Who runs the graph when, and the conversation's marker, is      *)
(* module ChatTurn: here one actor at a time.                              *)
(***************************************************************************)
EXTENDS Naturals, Sequences, SequencesExt

CONSTANTS
  MaxTurns,      \* bound on the questions asked
  MaxCalls,      \* bound on the model calls of a turn
  MaxParts,      \* bound on a question's sub-questions
  HistoryLimit,  \* history_limit, in saved messages
  Env            \* which events may happen: a subset of Events

\* analyzer: the query analysis fails; crash: a node raises or the process dies
\* twice: the approval is sent when nothing is waiting for it
\* expire: the expiry job deletes the thread
Events == {"analyzer", "crash", "twice", "expire"}

AgentAssumption ==
  /\ MaxTurns \in Nat /\ MaxCalls \in Nat \ {0} /\ MaxParts \in Nat
  /\ HistoryLimit \in Nat \ {0} /\ Env \subseteq Events

VARIABLES
  thread,  \* the channels of the last checkpoint, and the nodes to run next
  rows,    \* the conversation's saved messages
  run      \* who is at work: the request, the approval or the recovery job

vars == <<thread, rows, run>>

Turn == 1..MaxTurns
Sometime == 0..MaxTurns     \* 0 is None
\* Messages carry the id of their row (its position), or the one the model or
\* LangGraph gave them (0, and the turn with the call's number n).
Message == [kind: {"question", "call", "result", "answer"}, turn: Turn, n: 0..MaxCalls, row: Nat]
Nodes == {"planner", "load_memory", "join", "retrieve", "llm", "tool", "researcher", "writer"}
\* Two fields are history: the calls of LLMNode or WriterNode the answer took, and the
\* model's other calls of its turn, which report no usage (unmetered).
Row == [kind: {"question", "answer"}, turn: Turn, usage: Nat, calls: 0..MaxCalls, unmetered: Nat,
        retrieval: Sometime]
\* parts counts sub_questions: is_multi_part is parts > 0.  Two fields are history:
\* unmetered, and the messages whose tool step a new question discarded (dropped).
Thread == [messages: Seq(Message), next: SUBSET Nodes, rewritten: Sometime, parts: 0..MaxParts,
           retrieval: Sometime, usage: Nat, decision: {"none", "approved", "rejected"},
           unmetered: Nat, dropped: SUBSET Message]
Run == [at: {"idle", "asked", "graph", "paused"}, stream: BOOLEAN]

NewThread == [messages |-> <<>>, next |-> {}, rewritten |-> 0, parts |-> 0, retrieval |-> 0,
              usage |-> 0, decision |-> "none", unmetered |-> 0, dropped |-> {}]
Idle == [at |-> "idle", stream |-> FALSE]

Init == thread = NewThread /\ rows = <<>> /\ run = Idle

Questions(s) == {i \in DOMAIN s : s[i].kind = "question"}
Asked == Cardinality(Questions(rows))
\* Bound on the rows when answers are saved again.
MaxRows == 2 * MaxTurns
\* The turn messages are about: of the last question among them.
TurnOf(ms) == IF Questions(ms) = {} THEN 0 ELSE ms[Max(Questions(ms))].turn
Now == TurnOf(thread.messages)

-----------------------------------------------------------------------------
(* The channels' reducers.                                                 *)

\* add_messages: a message whose id is there is updated, any other appended.
AddMessages(left, right) ==
  LET added[n \in 0..Len(right)] ==
        IF n = 0 THEN left
        ELSE IF right[n] \in ToSet(left) THEN added[n - 1] ELSE Append(added[n - 1], right[n])
  IN added[Len(right)]

\* merge_usage: numbers add up.
MergeUsage(current, update) == current + update

\* Mutant of ResetUsage: {} where None is meant is merged into what is there.
KeepUsage(current) == MergeUsage(current, 0)

\* merge_usage: None resets.
ResetUsage(current) == 0

-----------------------------------------------------------------------------
(* ChatService                                                             *)

\* chat, stream: the question is committed, whatever the thread still has to run.
Ask ==
  /\ run.at \in {"idle", "paused"}
  /\ Asked < MaxTurns
  /\ rows' = Append(rows, [kind |-> "question", turn |-> Asked + 1,
                           usage |-> 0, calls |-> 0, unmetered |-> 0, retrieval |-> 0])
  /\ \E s \in BOOLEAN : run' = [at |-> "asked", stream |-> s]
  /\ UNCHANGED thread

\* MessageFormatter: a message under the id of its row, the i-th.
ToLangchain(i) == [kind |-> rows[i].kind, turn |-> rows[i].turn, n |-> 0, row |-> i]

\* ConversationHistory.load: the newest ones, oldest first.
History ==
  LET from == IF Len(rows) > HistoryLimit THEN Len(rows) - HistoryLimit ELSE 0
  IN [i \in 1..(Len(rows) - from) |-> ToLangchain(from + i)]

\* _build_state: what is not among its keys stays as the last turn left it.  Input
\* starts the graph over: what the thread had still to run is discarded.
Invoke ==
  /\ run.at = "asked"
  /\ run' = [run EXCEPT !.at = "graph"]
  /\ thread' = [thread EXCEPT !.messages = AddMessages(@, History), !.usage = ResetUsage(@),
                              !.next = {"planner", "load_memory"}, !.decision = "none",
                              !.unmetered = 0,
                              !.dropped = IF thread.next = {"tool"}
                                          THEN @ \union {Last(thread.messages)} ELSE @]
  /\ UNCHANGED rows

\* The approval, or the rejection, of the calls shown.  The route asks for no pause:
\* sent again, it resumes whatever the thread has still to run, also nothing; only
\* interrupt() takes its value.
Resume ==
  /\ run.at = "paused" \/ (run.at = "idle" /\ thread # NewThread /\ "twice" \in Env /\ Len(rows) < MaxRows)
  /\ run' = [at |-> "graph", stream |-> FALSE]
  /\ \E d \in {"approved", "rejected"} :
       thread' = [thread EXCEPT !.decision = IF thread.next = {"tool"} THEN d ELSE @]
  /\ UNCHANGED rows

\* recover: has_pending_work, then on from the last checkpoint.
Recover ==
  /\ run.at = "idle" /\ thread.next # {}
  /\ run' = [at |-> "graph", stream |-> FALSE]
  /\ UNCHANGED <<thread, rows>>

\* _finalize_or_pause, stream: the answer is saved with what the turn used; WriterNode
\* streams no retrieval id, the state always has one or None.
Finalize ==
  /\ run.at = "graph" /\ thread.next = {}
  /\ rows' = Append(rows, [kind |-> "answer", turn |-> Now, usage |-> thread.usage,
                           calls |-> Last(thread.messages).n, unmetered |-> thread.unmetered,
                           retrieval |-> IF run.stream /\ thread.parts > 0 THEN 0 ELSE thread.retrieval])
  /\ run' = Idle
  /\ UNCHANGED thread

\* A node raises, the process dies, or the client is gone.
Fail ==
  /\ "crash" \in Env
  /\ run.at \in {"asked", "graph"}
  /\ run' = Idle
  /\ UNCHANGED <<thread, rows>>

\* expire_stale_conversations_job: adelete_thread.
Expire ==
  /\ "expire" \in Env
  /\ run.at \in {"idle", "paused"} /\ thread # NewThread
  /\ thread' = NewThread /\ run' = Idle
  /\ UNCHANGED rows

-----------------------------------------------------------------------------
(* The nodes.                                                              *)

\* Node n ends with channels t; the step ends, and the next one is chosen, with the
\* last of its nodes.
Node(n, t, next) ==
  /\ run.at = "graph" /\ n \in thread.next
  /\ thread' = [t EXCEPT !.next = IF thread.next = {n} THEN next ELSE thread.next \ {n}]
  /\ UNCHANGED <<rows, run>>

\* GraphPlanner: one call of the model, or one that fails and leaves no rewritten
\* query; its own or none, the sub-questions are of this turn.
Planner ==
  \/ \E k \in 0..MaxParts :
       Node("planner", [thread EXCEPT !.rewritten = Now, !.parts = k, !.unmetered = @ + 1], {"join"})
  \/ "analyzer" \in Env /\ Node("planner", [thread EXCEPT !.parts = 0], {"join"})

LoadMemory == Node("load_memory", thread, {"join"})

\* A node that returns the whole state hands every channel to its reducer.
Whole == [thread EXCEPT !.usage = MergeUsage(@, @)]

\* GraphRouter.route: every plan has retrieval.
Route == IF thread.parts > 0 THEN "researcher" ELSE "retrieve"
Join == Node("join", Whole, {Route})

\* RetrieveNode: what is searched for, and the id its log gives the search.
PrimaryQuery == IF thread.rewritten # 0 THEN thread.rewritten ELSE Last(thread.messages).turn
Retrieve == Node("retrieve", [Whole EXCEPT !.retrieval = Now], {"llm"})

\* The research subgraph, once per sub-question: its call of the model returns a
\* finding, no usage.
Researcher == Node("researcher", [Whole EXCEPT !.unmetered = @ + thread.parts], {"writer"})

\* The model calls of this turn so far.
CallsOf(ms) == {i \in DOMAIN ms : ms[i].kind = "call" /\ ms[i].turn = TurnOf(ms)}
Calls == Cardinality(CallsOf(thread.messages))

\* A model's message, and its call's usage.
Says(kind) ==
  [thread EXCEPT
     !.messages = Append(@, [kind |-> kind, turn |-> Now, n |-> Calls + 1, row |-> 0]),
     !.usage = MergeUsage(@, 1)]

\* LLMNode and GraphRouter.after_llm
Llm ==
  \/ Node("llm", Says("answer"), {})
  \/ Calls + 1 < MaxCalls /\ Node("llm", Says("call"), {"tool"})

Writer == Node("writer", Says("answer"), {})

\* GraphToolNode: interrupt() ends the run; nothing is saved.
Pause ==
  /\ run.at = "graph" /\ thread.next = {"tool"} /\ thread.decision = "none"
  /\ run' = [at |-> "paused", stream |-> FALSE]
  /\ UNCHANGED <<thread, rows>>

Results == [kind |-> "result", turn |-> Now, n |-> Calls, row |-> 0]
Answered == [thread EXCEPT !.messages = Append(@, Results), !.decision = "none"]

\* Mutant of Reject: rejected calls get no message.
RejectSilently == thread.decision = "rejected" /\ Node("tool", [thread EXCEPT !.decision = "none"], {"llm"})

\* Rejected calls get a message each, too.
Reject == thread.decision = "rejected" /\ Node("tool", Answered, {"llm"})
Execute == thread.decision = "approved" /\ Node("tool", Answered, {"llm"})

-----------------------------------------------------------------------------
GraphStep ==
  \/ Planner \/ LoadMemory \/ Join \/ Retrieve \/ Researcher \/ Writer \/ Llm
  \/ Pause \/ Reject \/ Execute

Next == Ask \/ Invoke \/ Resume \/ Recover \/ GraphStep \/ Finalize \/ Fail \/ Expire

Spec == Init /\ [][Next]_vars

-----------------------------------------------------------------------------
(* Properties.                                                             *)

\* Every variable has its type.
TypeOK ==
  /\ thread \in Thread /\ rows \in Seq(Row) /\ run \in Run

\* The usage saved with an answer is that of its own turn's calls of LLMNode and
\* WriterNode: each that reached a checkpoint counts once, over pauses and recoveries,
\* whatever earlier turns used ("silently accumulate for the conversation's entire
\* lifetime").  The query analysis and the research subgraph are not in it.
UsageIsOfTheTurn ==
  \A i \in DOMAIN rows : rows[i].kind = "answer" => rows[i].usage = rows[i].calls

\* "the graph-level accumulated total across however many LLM calls this turn made"
\* (_finalize_or_pause).  False: the calls of the query analysis and of the research
\* subgraph reach no usage.
UsageIsComplete ==
  \A i \in DOMAIN rows : rows[i].kind = "answer" => rows[i].usage = rows[i].calls + rows[i].unmetered

\* When the model is asked, the last message before its own is the question, or the
\* results of the calls it made; and each of its earlier calls, approved or rejected,
\* resumed once or again, has its results right behind it, as providers demand.  Except
\* a call whose tool step a new question discarded: chat() asks for none to be pending,
\* whether the calls await their approval or an approved step has raised or died.
CallsAreAnswered ==
  LET ms == thread.messages IN
  /\ thread.next \in {{"llm"}, {"writer"}} => Last(ms).turn = Now /\ Last(ms).kind \in {"question", "result"}
  /\ thread.next \in {{"llm"}, {"writer"}} =>
       \A i \in DOMAIN ms : ms[i].kind = "call" /\ ms[i] \notin thread.dropped =>
         /\ i < Len(ms)
         /\ ms[i + 1].kind = "result" /\ ms[i + 1].turn = ms[i].turn /\ ms[i + 1].n = ms[i].n

\* A saved message is recognised in the thread; without its row's id, "the
\* conversation history sent to the LLM silently doubles" (MessageFormatter): no
\* message is in the thread twice.
EachMessageOnce ==
  \A i, j \in DOMAIN thread.messages :
    LET a == thread.messages[i]
        b == thread.messages[j]
    IN a.kind \in {"question", "answer"} /\ a.kind = b.kind /\ a.turn = b.turn => i = j

\* "Query analysis failed, retrieval will use the raw message" (GraphPlanner): what
\* is searched for is always the question at hand.  False with "analyzer" in Env: the
\* previous turn's rewritten query is still there.
SearchesTheQuestion == thread.next = {"retrieve"} => PrimaryQuery = Now

\* The retrieval id "links the saved answer to what produced it"
\* (_persist_answer_sources): it is of the answer's own turn.  False: a multi-part turn
\* that is not streamed saves the one an earlier turn left in the thread.
RetrievalIsOwn ==
  \A i \in DOMAIN rows : rows[i].retrieval \in {0, rows[i].turn}
=============================================================================
