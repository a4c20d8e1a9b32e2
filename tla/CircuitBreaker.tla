--------------------------- MODULE CircuitBreaker ---------------------------
(***************************************************************************)
(* The breaker in front of a provider, and its two users: LLMChatService,  *)
(* whose calls are one attempt each, and RetryTransport, whose calls retry *)
(* and report their last outcome only.  (resilience/circuit_breaker.py,    *)
(* chat/chat_service.py, http/retry.py.)                                   *)
(*                                                                         *)
(* A call checks the breaker, talks to the provider while other calls do   *)
(* the same, and records how it went.  Time is counted in ticks since the  *)
(* circuit opened, up to the timeout: nothing older is ever compared.      *)
(***************************************************************************)
EXTENDS Naturals, FiniteSets

CONSTANTS
  Calls,         \* concurrent calls; a name is used again once its call is over
  Threshold,     \* failure_threshold
  ResetTimeout,  \* reset_timeout_seconds, in ticks
  MaxAttempts    \* queue.max_retries of RetryTransport; 1 for LLMChatService

BreakerAssumption ==
  Threshold \in Nat \ {0} /\ ResetTimeout \in Nat \ {0} /\ MaxAttempts \in Nat \ {0}

VARIABLES
  state,      \* _state
  failures,   \* _failure_count; what is above the threshold is not told apart
  opened,     \* time since _opened_at
  call,       \* each call: "idle", or the number of attempts it has made
  healthy,    \* whether every new attempt succeeds; a provider may come back
  late,       \* calls that were under way when it did: they may still fail
  quiet       \* history: time since a failure was last recorded; a success resets it

vars == <<state, failures, opened, call, healthy, late, quiet>>

CircuitState == {"closed", "open", "half_open"}
Idle == 0
Time == 0..ResetTimeout

Init ==
  /\ state = "closed" /\ failures = 0 /\ opened = ResetTimeout
  /\ call = [c \in Calls |-> Idle]
  /\ healthy \in BOOLEAN /\ late = {}
  /\ quiet = ResetTimeout

\* The property CircuitBreaker.state: a look at it may half-open the circuit.
Looked == IF state = "open" /\ opened = ResetTimeout THEN "half_open" ELSE state

\* Mutant of Admits: a circuit that was opened and not closed admits nobody.
AdmitsClosed == Looked = "closed"

\* check()
Admits == Looked # "open"

Check(c) ==
  /\ call[c] = Idle
  /\ Admits
  /\ state' = Looked
  /\ call' = [call EXCEPT ![c] = 1]
  /\ UNCHANGED <<failures, opened, healthy, late, quiet>>

\* record_success
Succeed(c) ==
  /\ call[c] # Idle
  /\ state' = "closed" /\ failures' = 0 /\ opened' = ResetTimeout
  /\ call' = [call EXCEPT ![c] = Idle]
  /\ late' = late \ {c}
  /\ quiet' = ResetTimeout
  /\ UNCHANGED healthy

MayFail(c) == ~healthy \/ c \in late

\* A transport error or a 5xx of RetryTransport, with attempts left.
AttemptFails(c) ==
  /\ call[c] # Idle /\ call[c] < MaxAttempts /\ MayFail(c)
  /\ call' = [call EXCEPT ![c] = @ + 1]
  /\ UNCHANGED <<state, failures, opened, healthy, late, quiet>>

Counted == IF failures < Threshold THEN failures + 1 ELSE failures

\* Mutant of Opens: a failed probe must be repeated as often as the first failures.
OpensAtThreshold == Counted >= Threshold /\ state # "half_open"

\* record_failure looks at _state, not at the property: it never half-opens.
Opens == state = "half_open" \/ Counted >= Threshold

\* The call's last attempt failed, or failed in a way that is not retried.
Fail(c) ==
  /\ call[c] # Idle /\ MayFail(c)
  /\ failures' = Counted
  /\ state' = IF Opens THEN "open" ELSE state
  /\ opened' = IF Opens THEN 0 ELSE opened
  /\ call' = [call EXCEPT ![c] = Idle]
  /\ late' = late \ {c}
  /\ quiet' = 0
  /\ UNCHANGED healthy

\* Cancelled, or a stream its reader left: nothing is recorded.
Abandon(c) ==
  /\ call[c] # Idle
  /\ call' = [call EXCEPT ![c] = Idle]
  /\ late' = late \ {c}
  /\ UNCHANGED <<state, failures, opened, healthy, quiet>>

Later(t) == IF t < ResetTimeout THEN t + 1 ELSE t
Tick ==
  /\ opened' = Later(opened) /\ quiet' = Later(quiet)
  /\ UNCHANGED <<state, failures, call, healthy, late>>

Recover ==
  /\ ~healthy
  /\ healthy' = TRUE
  /\ late' = {c \in Calls : call[c] # Idle}
  /\ UNCHANGED <<state, failures, opened, call, quiet>>

Next ==
  \/ \E c \in Calls : Check(c) \/ Succeed(c) \/ AttemptFails(c) \/ Fail(c) \/ Abandon(c)
  \/ Tick \/ Recover

Spec == Init /\ [][Next]_vars

\* Calls keep coming, and not every one of them is abandoned.
Fairness == WF_vars(Tick) /\ \A c \in Calls : SF_vars(Check(c)) /\ SF_vars(Succeed(c))
FairSpec == Spec /\ Fairness

-----------------------------------------------------------------------------
\* Every variable has its type.
TypeOK ==
  /\ state \in CircuitState
  /\ failures \in 0..Threshold
  /\ opened \in Time /\ quiet \in Time
  /\ call \in [Calls -> 0..MaxAttempts]
  /\ healthy \in BOOLEAN /\ late \subseteq Calls

\* "After failure_threshold consecutive failures, further calls fail immediately": none
\* is admitted before the provider was left alone for the whole timeout, counted from
\* the last failure, also one of a call admitted long before; and short of the
\* threshold calls are never refused.
FailsFast ==
  /\ failures >= Threshold /\ quiet < ResetTimeout => ~Admits
  /\ failures < Threshold => Admits

\* A circuit never opens for good: once the provider answers, it closes, though calls
\* of before may still fail and others are abandoned.
Answers == healthy /\ state # "closed"
Closed == state = "closed"
Closes == Answers ~> Closed
=============================================================================
