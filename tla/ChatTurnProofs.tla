--------------------------- MODULE ChatTurnProofs ---------------------------
(***************************************************************************)
(* Proofs about ChatTurn.  As long as the history is regular, one actor at *)
(* a time works on the conversation, and what it holds agrees with the     *)
(* thread, the marker and the messages; that invariant gives the absence   *)
(* of second answers and the marker on interrupted work.                   *)
(***************************************************************************)
EXTENDS ChatTurn, TLAPS

\* One actor at a time.
OneAtWork == \A a, b \in Actors : pc[a] # "idle" /\ pc[b] # "idle" => a = b

\* A question that is with the graph is saved and has no answer yet.
Unanswered(t) == t.q \in Questions /\ messages[t.q] = 1

\* What the place of an actor says of the thread.
PlacesAgree ==
  \A a \in Actors :
    /\ pc[a] = "invoke" => Unanswered(run[a])
    /\ pc[a] = "resume" => thread.step \in {"paused", "none"}
    /\ pc[a] = "graph" => thread = run[a] /\ thread.step # "none" /\ Unanswered(thread)
    /\ pc[a] = "continue" => HasPendingWork
    /\ pc[a] = "expiring" => thread.step = "none"

\* An interrupted thread is about an unanswered question.
PendingUnanswered == HasPendingWork => Unanswered(thread)

\* An approval is asked for when the thread is paused (or was deleted since).
ShownIsPaused ==
  shown => /\ thread.step \in {"paused", "none"}
           /\ marker # "processing"
           /\ \A a \in Actors : pc[a] \in {"idle", "expire", "expiring"}

\* The marker is there while a turn is at work and until its thread has stopped.
Marked ==
  /\ thread.step \in {"llm", "tool"} => marker = "processing"
  /\ \A a \in Actors : pc[a] \in {"invoke", "resume", "graph", "check", "continue"}
                       => marker = "processing"

AtMostOneAnswer == \A q \in Questions : messages[q] < 3

Regular ==
  OneAtWork /\ PlacesAgree /\ PendingUnanswered /\ ShownIsPaused /\ Marked /\ AtMostOneAnswer

CInv == TypeOK /\ (~irregular => Regular)

-----------------------------------------------------------------------------
\* In the first state nothing is asked, marked or at work.
LEMMA InitCInv == ASSUME Init PROVE CInv
<1>1. TypeOK
  <2>1. NoThread \in Thread
    BY DEF NoThread, Thread, Steps
  <2>2. 0 \in 0..MaxFaults /\ 0 \in 0..MaxMessages
    BY ChatAssumption DEF MaxMessages
  <2> QED  BY <2>1, <2>2 DEF Init, TypeOK
<1>2. OneAtWork /\ PlacesAgree
  BY DEF Init, OneAtWork, PlacesAgree
<1>3. PendingUnanswered /\ ShownIsPaused /\ Marked /\ AtMostOneAnswer
  BY DEF Init, PendingUnanswered, HasPendingWork, ShownIsPaused, Marked, AtMostOneAnswer, NoThread
<1> QED  BY <1>1, <1>2, <1>3 DEF CInv, Regular

\* Every action keeps the types.
LEMMA NextTypes == ASSUME TypeOK, [Next]_vars PROVE TypeOK'
<1> USE ChatAssumption DEF TypeOK, Thread, Steps, MaxMessages, NoThread, RowFree
<1>1. ASSUME NEW r \in Requests, Ask(r) PROVE TypeOK'
  <2>1. irregular' \in BOOLEAN
    BY <1>1, Zenon DEF Ask
  <2>2. PICK q \in Questions :
          messages' = [messages EXCEPT ![q] = 1] /\ run' = [run EXCEPT ![r] = [q |-> q, step |-> "none"]]
    BY <1>1 DEF Ask
  <2>3. messages' \in [Questions -> 0..MaxMessages]
    BY <2>2
  <2>4. [q |-> q, step |-> "none"] \in Thread
    OBVIOUS
  <2>5. run' \in [Actors -> Thread]
    BY <2>2, <2>4
  <2> QED  BY <1>1, <2>1, <2>3, <2>5 DEF Ask, Enter, MarkProcessing
<1>2. ASSUME NEW r \in Requests, Resume(r) PROVE TypeOK'
  BY <1>2 DEF Resume, ResumeEnters, Enter, Busy, MarkProcessing, Actors
<1>3. ASSUME NEW r \in Requests, ResumeAgain(r) PROVE TypeOK'
  <2>1. faults' \in 0..MaxFaults
    BY <1>3 DEF ResumeAgain
  <2> QED  BY <1>3, <2>1 DEF ResumeAgain, ResumeEnters, Enter, MarkProcessing
<1>4. ASSUME NEW r \in Requests, GraphInvoke(r) PROVE TypeOK'
  BY <1>4 DEF GraphInvoke, Checkpoint, Actors
<1>5. ASSUME NEW r \in Requests, GraphResume(r) PROVE TypeOK'
  <2>1. PICK next \in Steps : Checkpoint(r, [thread EXCEPT !.step = next])
    BY <1>5 DEF GraphResume
  <2> QED  BY <1>5, <2>1 DEF GraphResume, Checkpoint, Actors
<1>6. ASSUME NEW r \in Requests, ResumeRaises(r) PROVE TypeOK'
  BY <1>6 DEF ResumeRaises, Actors
<1>7. ASSUME NEW a \in Actors, GraphNode(a) PROVE TypeOK'
  <2>1. PICK next \in Steps : Checkpoint(a, [run[a] EXCEPT !.step = next]) /\ UNCHANGED pc
    BY <1>7 DEF GraphNode
  <2> QED  BY <2>1 DEF Checkpoint
<1>8. ASSUME NEW a \in Actors, FinalizeOrPause(a) PROVE TypeOK'
  <2>1. messages' \in [Questions -> 0..MaxMessages] /\ shown' \in BOOLEAN
    <3>1. \A n \in 0..MaxMessages : More(n) \in 0..MaxMessages
      BY DEF More
    <3>2. CASE run[a].step = "done"
      <4>1. messages' = [messages EXCEPT ![run[a].q] = More(@)] /\ UNCHANGED shown
        BY <1>8, <3>2 DEF FinalizeOrPause
      <4> QED  BY <4>1, <3>1
    <3>3. CASE run[a].step # "done"
      BY <1>8, <3>3 DEF FinalizeOrPause
    <3> QED  BY <3>2, <3>3
  <2> QED  BY <1>8, <2>1 DEF FinalizeOrPause, ClearProcessing
<1>9. ASSUME NEW a \in Actors, Fail(a) PROVE TypeOK'
  BY <1>9 DEF Fail
<1>10. ASSUME Age PROVE TypeOK'
  BY <1>10 DEF Age
<1>11. ASSUME RecoverRead PROVE TypeOK'
  BY <1>11 DEF RecoverRead, Enter, Busy
<1>12. ASSUME RecoverCheck PROVE TypeOK'
  <2> Recovery \in Actors
    BY DEF Actors
  <2>1. pc' \in [Actors -> {"idle", "invoke", "resume", "graph", "check", "continue", "expire",
                            "expiring"}]
    BY <1>12 DEF RecoverCheck
  <2> QED  BY <1>12, <2>1 DEF RecoverCheck, ClearProcessing
<1>13. ASSUME ExpireRead PROVE TypeOK'
  BY <1>13 DEF ExpireRead, Enter, Busy
<1>14. ASSUME ExpireThread PROVE TypeOK'
  BY <1>14 DEF ExpireThread
<1>15. ASSUME ExpireCommit PROVE TypeOK'
  BY <1>15 DEF ExpireCommit
<1>16. ASSUME UNCHANGED vars PROVE TypeOK'
  BY <1>16 DEF vars
<1>17. ASSUME RecoverContinue PROVE TypeOK'
  <2> Recovery \in Actors
    BY DEF Actors
  <2>1. run' \in [Actors -> Thread]
    BY <1>17 DEF RecoverContinue
  <2>2. pc' \in [Actors -> {"idle", "invoke", "resume", "graph", "check", "continue", "expire",
                            "expiring"}]
    BY <1>17 DEF RecoverContinue
  <2> QED  BY <1>17, <2>1, <2>2 DEF RecoverContinue
<1> QED
  BY <1>1, <1>2, <1>3, <1>4, <1>5, <1>6, <1>7, <1>8, <1>9, <1>10, <1>11, <1>12, <1>13, <1>14,
     <1>15, <1>16, <1>17 DEF Next, RequestStep, GraphStep

\* Every action keeps the regular part, as long as the history is regular.
LEMMA NextRegular == ASSUME CInv, [Next]_vars, ~irregular' PROVE Regular'
<1>0. Requests \subseteq Actors /\ Recovery \in Actors /\ Expiry \in Actors
  BY DEF Actors
<1> USE <1>0 DEF CInv, TypeOK, Thread, Steps, MaxMessages, NoThread
<1>1. ASSUME NEW r \in Requests, Ask(r) PROVE Regular'
  <2> USE <1>1 DEF Ask, Enter, Busy, MarkProcessing
  <2>1. ~irregular /\ Regular
    BY DEF Regular
  <2>2. OneAtWork'
    BY <2>1 DEF Regular, OneAtWork
  <2>3. PlacesAgree'
    BY <2>1 DEF Regular, OneAtWork, PlacesAgree, Unanswered, HasPendingWork
  <2>4. PendingUnanswered'
    BY <2>1 DEF Regular, OneAtWork, PlacesAgree, PendingUnanswered, HasPendingWork, Unanswered
  <2>5. ShownIsPaused'
    BY <2>1 DEF Regular, OneAtWork, PlacesAgree, ShownIsPaused, Marked
  <2>6. Marked'
    BY <2>1 DEF Regular, OneAtWork, PlacesAgree, Marked
  <2>7. AtMostOneAnswer'
    BY <2>1 DEF Regular, PlacesAgree, AtMostOneAnswer, Unanswered
  <2> QED  BY <2>2, <2>3, <2>4, <2>5, <2>6, <2>7 DEF Regular
<1>2. ASSUME NEW r \in Requests, Resume(r) PROVE Regular'
  <2> USE <1>2 DEF Resume, ResumeEnters, Enter, Busy, MarkProcessing
  <2>1. ~irregular /\ Regular
    BY DEF Regular
  <2>2. OneAtWork'
    BY <2>1 DEF Regular, OneAtWork
  <2>3. PlacesAgree'
    BY <2>1 DEF Regular, OneAtWork, PlacesAgree, Unanswered, ShownIsPaused
  <2>4. PendingUnanswered'
    BY <2>1 DEF Regular, OneAtWork, PlacesAgree, PendingUnanswered, HasPendingWork, Unanswered
  <2>5. ShownIsPaused'
    BY <2>1 DEF Regular, OneAtWork, PlacesAgree, ShownIsPaused, Marked
  <2>6. Marked'
    BY <2>1 DEF Regular, OneAtWork, PlacesAgree, Marked
  <2>7. AtMostOneAnswer'
    BY <2>1 DEF Regular, PlacesAgree, AtMostOneAnswer, Unanswered
  <2> QED  BY <2>2, <2>3, <2>4, <2>5, <2>6, <2>7 DEF Regular
<1>3. ASSUME NEW r \in Requests, ResumeAgain(r) PROVE Regular'
  BY <1>3 DEF ResumeAgain
<1>4. ASSUME NEW r \in Requests, GraphInvoke(r) PROVE Regular'
  <2> USE <1>4 DEF GraphInvoke, Checkpoint
  <2>1. ~irregular /\ Regular
    BY DEF Regular
  <2>2. OneAtWork'
    BY <2>1 DEF Regular, OneAtWork
  <2>3. PlacesAgree'
    BY <2>1 DEF Regular, OneAtWork, PlacesAgree, Unanswered
  <2>4. PendingUnanswered'
    BY <2>1 DEF Regular, OneAtWork, PlacesAgree, PendingUnanswered, HasPendingWork, Unanswered
  <2>5. ShownIsPaused'
    BY <2>1 DEF Regular, OneAtWork, PlacesAgree, ShownIsPaused, Marked
  <2>6. Marked'
    BY <2>1 DEF Regular, OneAtWork, PlacesAgree, Marked
  <2>7. AtMostOneAnswer'
    BY <2>1 DEF Regular, PlacesAgree, AtMostOneAnswer, Unanswered
  <2> QED  BY <2>2, <2>3, <2>4, <2>5, <2>6, <2>7 DEF Regular
<1>5. ASSUME NEW r \in Requests, GraphResume(r) PROVE Regular'
  <2> USE <1>5 DEF GraphResume, Checkpoint
  <2>1. ~irregular /\ Regular
    BY DEF Regular
  <2>2. OneAtWork'
    BY <2>1 DEF Regular, OneAtWork
  <2>3. PlacesAgree'
    BY <2>1 DEF Regular, OneAtWork, PlacesAgree, Unanswered, PendingUnanswered, HasPendingWork
  <2>4. PendingUnanswered'
    BY <2>1 DEF Regular, OneAtWork, PlacesAgree, PendingUnanswered, HasPendingWork, Unanswered
  <2>5. ShownIsPaused'
    BY <2>1 DEF Regular, OneAtWork, PlacesAgree, ShownIsPaused, Marked
  <2>6. Marked'
    BY <2>1 DEF Regular, OneAtWork, PlacesAgree, Marked
  <2>7. AtMostOneAnswer'
    BY <2>1 DEF Regular, PlacesAgree, AtMostOneAnswer, Unanswered
  <2> QED  BY <2>2, <2>3, <2>4, <2>5, <2>6, <2>7 DEF Regular
<1>6. ASSUME NEW r \in Requests, ResumeRaises(r) PROVE Regular'
  <2> USE <1>6 DEF ResumeRaises
  <2>1. ~irregular /\ Regular
    BY DEF Regular
  <2>2. OneAtWork'
    BY <2>1 DEF Regular, OneAtWork
  <2>3. PlacesAgree'
    BY <2>1 DEF Regular, OneAtWork, PlacesAgree, Unanswered
  <2>4. PendingUnanswered'
    BY <2>1 DEF Regular, OneAtWork, PlacesAgree, PendingUnanswered, HasPendingWork, Unanswered
  <2>5. ShownIsPaused'
    BY <2>1 DEF Regular, OneAtWork, PlacesAgree, ShownIsPaused, Marked
  <2>6. Marked'
    BY <2>1 DEF Regular, OneAtWork, PlacesAgree, Marked
  <2>7. AtMostOneAnswer'
    BY <2>1 DEF Regular, PlacesAgree, AtMostOneAnswer, Unanswered
  <2> QED  BY <2>2, <2>3, <2>4, <2>5, <2>6, <2>7 DEF Regular
<1>7. ASSUME NEW a \in Actors, GraphNode(a) PROVE Regular'
  <2> USE <1>7 DEF GraphNode, Checkpoint
  <2>1. ~irregular /\ Regular
    BY DEF Regular
  <2>2. OneAtWork'
    BY <2>1 DEF Regular, OneAtWork
  <2>3. PlacesAgree'
    BY <2>1 DEF Regular, OneAtWork, PlacesAgree, Unanswered
  <2>4. PendingUnanswered'
    BY <2>1 DEF Regular, OneAtWork, PlacesAgree, PendingUnanswered, HasPendingWork, Unanswered
  <2>5. ShownIsPaused'
    BY <2>1 DEF Regular, OneAtWork, PlacesAgree, ShownIsPaused, Marked
  <2>6. Marked'
    BY <2>1 DEF Regular, OneAtWork, PlacesAgree, Marked
  <2>7. AtMostOneAnswer'
    BY <2>1 DEF Regular, PlacesAgree, AtMostOneAnswer, Unanswered
  <2> QED  BY <2>2, <2>3, <2>4, <2>5, <2>6, <2>7 DEF Regular
<1>8. ASSUME NEW a \in Actors, FinalizeOrPause(a) PROVE Regular'
  <2> USE <1>8 DEF FinalizeOrPause, ClearProcessing, More
  <2>1. ~irregular /\ Regular
    BY DEF Regular
  <2>2. OneAtWork'
    BY <2>1 DEF Regular, OneAtWork
  <2>3. PlacesAgree'
    BY <2>1 DEF Regular, OneAtWork, PlacesAgree, Unanswered
  <2>4. PendingUnanswered'
    BY <2>1 DEF Regular, OneAtWork, PlacesAgree, PendingUnanswered, HasPendingWork, Unanswered
  <2>5. ShownIsPaused'
    BY <2>1 DEF Regular, OneAtWork, PlacesAgree, ShownIsPaused, Marked
  <2>6. Marked'
    BY <2>1 DEF Regular, OneAtWork, PlacesAgree, Marked
  <2>7. AtMostOneAnswer'
    BY <2>1 DEF Regular, PlacesAgree, AtMostOneAnswer, Unanswered
  <2> QED  BY <2>2, <2>3, <2>4, <2>5, <2>6, <2>7 DEF Regular
<1>9. ASSUME NEW a \in Actors, Fail(a) PROVE Regular'
  <2> USE <1>9 DEF Fail
  <2>1. ~irregular /\ Regular
    BY DEF Regular
  <2>2. OneAtWork'
    BY <2>1 DEF Regular, OneAtWork
  <2>3. PlacesAgree'
    BY <2>1 DEF Regular, OneAtWork, PlacesAgree, Unanswered
  <2>4. PendingUnanswered'
    BY <2>1 DEF Regular, OneAtWork, PlacesAgree, PendingUnanswered, HasPendingWork, Unanswered
  <2>5. ShownIsPaused'
    BY <2>1 DEF Regular, OneAtWork, PlacesAgree, ShownIsPaused, Marked
  <2>6. Marked'
    BY <2>1 DEF Regular, OneAtWork, PlacesAgree, Marked
  <2>7. AtMostOneAnswer'
    BY <2>1 DEF Regular, PlacesAgree, AtMostOneAnswer, Unanswered
  <2> QED  BY <2>2, <2>3, <2>4, <2>5, <2>6, <2>7 DEF Regular
<1>10. ASSUME Age PROVE Regular'
  BY <1>10 DEF Age, Regular, OneAtWork, PlacesAgree, PendingUnanswered, ShownIsPaused, Marked,
     AtMostOneAnswer, HasPendingWork, Unanswered
<1>11. ASSUME RecoverRead PROVE Regular'
  <2> USE <1>11 DEF RecoverRead, Enter, Busy
  <2>1. ~irregular /\ Regular
    BY DEF Regular
  <2>2. OneAtWork'
    BY <2>1 DEF Regular, OneAtWork
  <2>3. PlacesAgree'
    BY <2>1 DEF Regular, OneAtWork, PlacesAgree, Unanswered
  <2>4. PendingUnanswered'
    BY <2>1 DEF Regular, OneAtWork, PlacesAgree, PendingUnanswered, HasPendingWork, Unanswered
  <2>5. ShownIsPaused'
    BY <2>1 DEF Regular, OneAtWork, PlacesAgree, ShownIsPaused, Marked
  <2>6. Marked'
    BY <2>1 DEF Regular, OneAtWork, PlacesAgree, Marked
  <2>7. AtMostOneAnswer'
    BY <2>1 DEF Regular, PlacesAgree, AtMostOneAnswer, Unanswered
  <2> QED  BY <2>2, <2>3, <2>4, <2>5, <2>6, <2>7 DEF Regular
<1>12. ASSUME RecoverCheck PROVE Regular'
  <2> USE <1>12 DEF RecoverCheck, ClearProcessing, IsComplete
  <2>1. ~irregular /\ Regular
    BY DEF Regular
  <2>2. OneAtWork'
    BY <2>1 DEF Regular, OneAtWork
  <2>3. PlacesAgree'
    BY <2>1 DEF Regular, OneAtWork, PlacesAgree, Unanswered, PendingUnanswered, HasPendingWork
  <2>4. PendingUnanswered'
    BY <2>1 DEF Regular, OneAtWork, PlacesAgree, PendingUnanswered, HasPendingWork, Unanswered
  <2>5. ShownIsPaused'
    BY <2>1 DEF Regular, OneAtWork, PlacesAgree, ShownIsPaused, Marked
  <2>6. Marked'
    BY <2>1 DEF Regular, OneAtWork, PlacesAgree, Marked, HasPendingWork
  <2>7. AtMostOneAnswer'
    BY <2>1 DEF Regular, PlacesAgree, AtMostOneAnswer, Unanswered
  <2> QED  BY <2>2, <2>3, <2>4, <2>5, <2>6, <2>7 DEF Regular
<1>13. ASSUME ExpireRead PROVE Regular'
  <2> USE <1>13 DEF ExpireRead, Enter, Busy
  <2>1. ~irregular /\ Regular
    BY DEF Regular
  <2>2. OneAtWork'
    BY <2>1 DEF Regular, OneAtWork
  <2>3. PlacesAgree'
    BY <2>1 DEF Regular, OneAtWork, PlacesAgree, Unanswered
  <2>4. PendingUnanswered'
    BY <2>1 DEF Regular, OneAtWork, PlacesAgree, PendingUnanswered, HasPendingWork, Unanswered
  <2>5. ShownIsPaused'
    BY <2>1 DEF Regular, OneAtWork, PlacesAgree, ShownIsPaused, Marked
  <2>6. Marked'
    BY <2>1 DEF Regular, OneAtWork, PlacesAgree, Marked
  <2>7. AtMostOneAnswer'
    BY <2>1 DEF Regular, PlacesAgree, AtMostOneAnswer, Unanswered
  <2> QED  BY <2>2, <2>3, <2>4, <2>5, <2>6, <2>7 DEF Regular
<1>14. ASSUME ExpireThread PROVE Regular'
  <2> USE <1>14 DEF ExpireThread
  <2>1. ~irregular /\ Regular
    BY DEF Regular
  <2>2. OneAtWork'
    BY <2>1 DEF Regular, OneAtWork
  <2>3. PlacesAgree'
    BY <2>1 DEF Regular, OneAtWork, PlacesAgree, Unanswered
  <2>4. PendingUnanswered'
    BY <2>1 DEF Regular, OneAtWork, PlacesAgree, PendingUnanswered, HasPendingWork, Unanswered
  <2>5. ShownIsPaused'
    BY <2>1 DEF Regular, OneAtWork, PlacesAgree, ShownIsPaused, Marked
  <2>6. Marked'
    BY <2>1 DEF Regular, OneAtWork, PlacesAgree, Marked
  <2>7. AtMostOneAnswer'
    BY <2>1 DEF Regular, PlacesAgree, AtMostOneAnswer, Unanswered
  <2> QED  BY <2>2, <2>3, <2>4, <2>5, <2>6, <2>7 DEF Regular
<1>15. ASSUME ExpireCommit PROVE Regular'
  <2> USE <1>15 DEF ExpireCommit
  <2>1. ~irregular /\ Regular
    BY DEF Regular
  <2>2. OneAtWork'
    BY <2>1 DEF Regular, OneAtWork
  <2>3. PlacesAgree'
    BY <2>1 DEF Regular, OneAtWork, PlacesAgree, Unanswered
  <2>4. PendingUnanswered'
    BY <2>1 DEF Regular, OneAtWork, PlacesAgree, PendingUnanswered, HasPendingWork, Unanswered
  <2>5. ShownIsPaused'
    BY <2>1 DEF Regular, OneAtWork, PlacesAgree, ShownIsPaused, Marked
  <2>6. Marked'
    BY <2>1 DEF Regular, OneAtWork, PlacesAgree, Marked
  <2>7. AtMostOneAnswer'
    BY <2>1 DEF Regular, PlacesAgree, AtMostOneAnswer, Unanswered
  <2> QED  BY <2>2, <2>3, <2>4, <2>5, <2>6, <2>7 DEF Regular
<1>16. ASSUME UNCHANGED vars PROVE Regular'
  BY <1>16 DEF vars, Regular, OneAtWork, PlacesAgree, PendingUnanswered, ShownIsPaused, Marked,
     AtMostOneAnswer, HasPendingWork, Unanswered
<1>17. ASSUME RecoverContinue PROVE Regular'
  <2> USE <1>17 DEF RecoverContinue, HasPendingWork
  <2>1. ~irregular /\ Regular
    BY DEF Regular
  <2>2. OneAtWork'
    BY <2>1 DEF Regular, OneAtWork
  <2>3. PlacesAgree'
    BY <2>1 DEF Regular, OneAtWork, PlacesAgree, Unanswered, PendingUnanswered, HasPendingWork
  <2>4. PendingUnanswered'
    BY <2>1 DEF Regular, OneAtWork, PlacesAgree, PendingUnanswered, HasPendingWork, Unanswered
  <2>5. ShownIsPaused'
    BY <2>1 DEF Regular, OneAtWork, PlacesAgree, ShownIsPaused, Marked
  <2>6. Marked'
    BY <2>1 DEF Regular, OneAtWork, PlacesAgree, Marked, HasPendingWork
  <2>7. AtMostOneAnswer'
    BY <2>1 DEF Regular, PlacesAgree, AtMostOneAnswer, Unanswered
  <2> QED  BY <2>2, <2>3, <2>4, <2>5, <2>6, <2>7 DEF Regular
<1> QED
  BY <1>1, <1>2, <1>3, <1>4, <1>5, <1>6, <1>7, <1>8, <1>9, <1>10, <1>11, <1>12, <1>13, <1>14, <1>15, <1>16,
     <1>17 DEF Next, RequestStep, GraphStep

\* The invariant holds in every state.
THEOREM InvariantHolds == Spec => []CInv
<1>1. Init => CInv
  BY InitCInv
<1>2. CInv /\ [Next]_vars => CInv'
  <2> SUFFICES ASSUME CInv, [Next]_vars PROVE CInv'
    OBVIOUS
  <2>1. TypeOK'
    BY NextTypes DEF CInv
  <2>2. CASE irregular'
    BY <2>1, <2>2 DEF CInv
  <2>3. CASE ~irregular'
    BY <2>1, <2>3, NextRegular DEF CInv
  <2> QED  BY <2>2, <2>3
<1> QED  BY <1>1, <1>2, PTL DEF Spec

\* Every variable of ChatTurn keeps its type.
THEOREM TurnTypes == Spec => []TypeOK
<1>1. CInv => TypeOK
  BY DEF CInv
<1> QED  BY <1>1, InvariantHolds, PTL

\* Crashes, recoveries, pauses and approvals give no question a second answer, as long
\* as actors take turns and approvals are asked for.
THEOREM NoSecondAnswer == Spec => []AnsweredOnce
<1>1. CInv => AnsweredOnce
  BY DEF CInv, Regular, AtMostOneAnswer, AnsweredOnce
<1> QED  BY <1>1, InvariantHolds, PTL

\* A graph that was interrupted between two nodes is found by the recovery job.
THEOREM InterruptedIsMarked == Spec => []PendingWorkIsMarked
<1>1. CInv => PendingWorkIsMarked
  BY DEF CInv, Regular, Marked, PendingWorkIsMarked
<1> QED  BY <1>1, InvariantHolds, PTL
=============================================================================
