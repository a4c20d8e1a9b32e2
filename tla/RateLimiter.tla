---------------------------- MODULE RateLimiter ----------------------------
(***************************************************************************)
(* EmbeddingRateLimiter: at most so many requests and tokens in any window *)
(* of time, for the calls of one process.  (embeddings/rate_limiter.py,    *)
(* rate_limited.py.)                                                       *)
(*                                                                         *)
(* acquire() decides under a lock that it holds across no await, so one    *)
(* round of its loop is one action; between rounds the caller sleeps as    *)
(* long as it computed, while others come and go.  A tick is the shortest  *)
(* sleep (0.1 s).  An event's time is its age in ticks, up to the window.  *)
(***************************************************************************)
EXTENDS Naturals, Sequences

CONSTANTS
  Callers,      \* embedding calls, each made once
  MaxRequests,  \* of the window
  MaxTokens,
  Window        \* window_seconds, in ticks

LimiterAssumption ==
  MaxRequests \in Nat \ {0} /\ MaxTokens \in Nat \ {0} /\ Window \in Nat \ {0}

VARIABLES
  events,   \* _request_times and _token_events, which hold the same times: oldest first
  caller,   \* each call of acquire
  granted   \* history: the calls let through in the last window

vars == <<events, caller, granted>>

Event == [age: 0..Window, tokens: 1..MaxTokens]
\* A call may need more tokens than the whole budget.
Sizes == 1..MaxTokens + 1
\* alone: history, nobody else was let through since the caller went to sleep
Caller == [step: {"idle", "waiting", "asleep", "done"}, tokens: Sizes,
           wait: 0..Window, alone: BOOLEAN]

Init ==
  /\ events = <<>>
  /\ caller \in [Callers -> {[step |-> "idle", tokens |-> t, wait |-> 0, alone |-> FALSE] :
                             t \in Sizes}]
  /\ granted = <<>>

\* The tokens of the first n events of s, for every n.
Tokens(s) == LET sum[n \in 0..Len(s)] == IF n = 0 THEN 0 ELSE sum[n - 1] + s[n].tokens IN sum
Total(s) == Tokens(s)[Len(s)]

\* _evict: from the oldest on, what is a window old leaves.
Expired(s) ==
  CHOOSE n \in 0..Len(s) : /\ \A i \in 1..n : s[i].age = Window
                           /\ n < Len(s) => s[n + 1].age # Window
Recent(s) == SubSeq(s, Expired(s) + 1, Len(s))
Evicted == Recent(events)

\* Mutant of Fits: the tokens asked for are not counted.
FitsBefore(tokens) == Len(Evicted) < MaxRequests /\ Total(Evicted) <= MaxTokens

Fits(tokens) == Len(Evicted) < MaxRequests /\ Total(Evicted) + tokens <= MaxTokens

\* Mutant of TokenWait: the first event alone is expected to make room.
FirstEventWait(tokens) == IF tokens > MaxTokens THEN Window ELSE Window - Head(Evicted).age

\* _time_until_capacity's token part: when the last of the oldest events that must leave
\* does; a call that is too large waits for a whole window, again and again.
Suffices(n, tokens) == Total(Evicted) - Tokens(Evicted)[n] + tokens <= MaxTokens
TokenWait(tokens) ==
  IF tokens > MaxTokens THEN Window
  ELSE Window - Evicted[CHOOSE n \in 1..Len(Evicted) :
                          Suffices(n, tokens) /\ \A m \in 1..n - 1 : ~Suffices(m, tokens)].age

RequestWait == Window - Head(Evicted).age

TimeUntilCapacity(tokens) ==
  LET forRequests == IF Len(Evicted) >= MaxRequests THEN RequestWait ELSE 0
      forTokens == IF Total(Evicted) + tokens > MaxTokens THEN TokenWait(tokens) ELSE 0
  IN IF forRequests >= forTokens THEN forRequests ELSE forTokens

Call(c) ==
  /\ caller[c].step = "idle"
  /\ caller' = [caller EXCEPT ![c].step = "waiting"]
  /\ UNCHANGED <<events, granted>>

Grant(c) ==
  /\ caller[c].step = "waiting"
  /\ Fits(caller[c].tokens)
  /\ events' = Append(Evicted, [age |-> 0, tokens |-> caller[c].tokens])
  /\ granted' = Append(granted, [age |-> 0, tokens |-> caller[c].tokens])
  /\ caller' = [d \in Callers |->
                  IF d = c THEN [caller[c] EXCEPT !.step = "done", !.wait = 0, !.alone = FALSE]
                  ELSE [caller[d] EXCEPT !.alone = FALSE]]

Sleep(c) ==
  /\ caller[c].step = "waiting"
  /\ ~Fits(caller[c].tokens)
  /\ caller' = [caller EXCEPT ![c].step = "asleep", ![c].alone = TRUE,
                              ![c].wait = TimeUntilCapacity(caller[c].tokens)]
  /\ events' = Evicted
  /\ UNCHANGED granted

Wake(c) ==
  /\ caller[c].step = "asleep" /\ caller[c].wait = 0
  /\ caller' = [caller EXCEPT ![c].step = "waiting"]
  /\ UNCHANGED <<events, granted>>

Older(s) == [i \in 1..Len(s) |-> [s[i] EXCEPT !.age = IF @ < Window THEN @ + 1 ELSE @]]
Tick ==
  /\ events' = Older(events)
  /\ granted' = Recent(Older(granted))
  /\ caller' = [c \in Callers |-> [caller[c] EXCEPT !.wait = IF @ > 0 THEN @ - 1 ELSE 0]]

Next == Tick \/ \E c \in Callers : Call(c) \/ Grant(c) \/ Sleep(c) \/ Wake(c)
Spec == Init /\ [][Next]_vars

-----------------------------------------------------------------------------
\* Every variable has its type.
TypeOK ==
  /\ events \in Seq(Event) /\ granted \in Seq(Event)
  /\ caller \in [Callers -> Caller]

\* "Sliding-window cap on requests and tokens over a rolling window": in no window of
\* time, wherever it starts, are more calls or tokens let through.
WithinBudget == Len(granted) <= MaxRequests /\ Total(granted) <= MaxTokens

\* "A clean, bounded wait": who slept as long as it computed is let through, unless
\* somebody else came first or it asks for more than the whole budget; and a shorter
\* sleep would not have been enough.
WaitIsExact ==
  \A c \in Callers :
    caller[c].alone /\ caller[c].step \in {"asleep", "waiting"} /\ caller[c].tokens <= MaxTokens =>
      (caller[c].wait = 0 <=> Fits(caller[c].tokens))
=============================================================================
