--------------------------- MODULE ConnectorHttp ---------------------------
(***************************************************************************)
(* ResilientHttpClient: the requests of one connector, throttled, retried, *)
(* redirected and circuit-broken per host.  (connectors/http.py.)          *)
(*                                                                         *)
(* A request checks the breaker, waits for one of the slots, then for the  *)
(* throttle's lock, which it keeps while it sleeps; then it is sent.  The  *)
(* wait is computed from the last request of its host, the lock is one for *)
(* all hosts.  Time is in ticks, as far as anything compares it.           *)
(***************************************************************************)
EXTENDS Naturals, FiniteSets

CONSTANTS
  Requests,      \* calls of request(), each made once
  Hosts,
  MaxConcurrency, MaxRetries, MaxRedirects,
  MinInterval,   \* min_interval
  Threshold, Cooldown   \* breaker_threshold, breaker_cooldown

ClientAssumption ==
  /\ MaxConcurrency \in Nat \ {0} /\ MaxRetries \in Nat /\ MaxRedirects \in Nat
  /\ MinInterval \in Nat /\ Threshold \in Nat \ {0} /\ Cooldown \in Nat \ {0}

VARIABLES
  request,   \* each call
  asked,     \* _last_request_at: the age of a host's last request, up to MinInterval
  breaker,   \* _breakers
  sent       \* history: the age of the last request handed to the HTTP client for a host

vars == <<request, asked, breaker, sent>>

\* slot: waits for the semaphore; lock: has a slot, waits for the throttle; asleep: has both
Steps == {"idle", "check", "slot", "lock", "asleep", "sent", "backoff", "done"}
Request == [step: Steps, host: Hosts, attempt: 0..MaxRetries, hop: 0..MaxRedirects,
            wait: 0..MinInterval]
\* cold: time since opened_at, up to the cooldown
Breaker == [failures: 0..Threshold, open: BOOLEAN, cold: 0..Cooldown]

Init ==
  /\ request \in [Requests -> {[step |-> "idle", host |-> h, attempt |-> 0, hop |-> 0, wait |-> 0] :
                               h \in Hosts}]
  /\ asked = [h \in Hosts |-> MinInterval]
  /\ breaker = [h \in Hosts |-> [failures |-> 0, open |-> FALSE, cold |-> 0]]
  /\ sent = [h \in Hosts |-> MinInterval]

Step(r, step) == request' = [request EXCEPT ![r].step = step]
Holding == {r \in Requests : request[r].step \in {"lock", "asleep", "sent"}}

Start(r) ==
  /\ request[r].step = "idle"
  /\ Step(r, "check")
  /\ UNCHANGED <<asked, breaker, sent>>

\* _check_breaker: refused while the circuit is open and not cold; else half-open.
Check(r) ==
  LET h == request[r].host
      open == breaker[h].open
  IN /\ request[r].step = "check"
     /\ IF open /\ breaker[h].cold < Cooldown
        THEN Step(r, "done") /\ UNCHANGED breaker
        ELSE /\ Step(r, "slot")
             /\ breaker' = IF open THEN [breaker EXCEPT ![h] = [failures |-> Threshold - 1,
                                                                open |-> FALSE, cold |-> 0]]
                           ELSE breaker
     /\ UNCHANGED <<asked, sent>>

TakeSlot(r) ==
  /\ request[r].step = "slot"
  /\ Cardinality(Holding) < MaxConcurrency
  /\ Step(r, "lock")
  /\ UNCHANGED <<asked, breaker, sent>>

\* Mutant of LockFree: the lock protects the computation, not the sleep.
LockNotHeld == TRUE

LockFree == \A r \in Requests : request[r].step # "asleep"

\* _throttle: the lock is taken, and how long to sleep computed.
Throttle(r) ==
  /\ request[r].step = "lock" /\ LockFree
  /\ request' = [request EXCEPT ![r].step = "asleep",
                                ![r].wait = MinInterval - asked[request[r].host]]
  /\ UNCHANGED <<asked, breaker, sent>>

\* The end of _throttle, and the request is handed to the HTTP client: nothing is awaited
\* in between.  (At once if there was no wait.)
Send(r) ==
  LET h == request[r].host
  IN /\ request[r].step = "asleep" /\ request[r].wait = 0
     /\ Step(r, "sent")
     /\ asked' = [asked EXCEPT ![h] = 0]
     /\ sent' = [sent EXCEPT ![h] = 0]
     /\ UNCHANGED breaker

Counted(n) == IF n < Threshold THEN n + 1 ELSE n

RecordSuccess(h) == [breaker EXCEPT ![h] = [failures |-> 0, open |-> FALSE, cold |-> 0]]

RecordFailure(h) ==
  LET n == Counted(breaker[h].failures)
  IN IF n >= Threshold /\ ~breaker[h].open
       THEN [breaker EXCEPT ![h] = [failures |-> n, open |-> TRUE, cold |-> 0]]
       ELSE [breaker EXCEPT ![h].failures = n]

\* An answer to keep, or to raise (401, 403): the host works.
Answer(r) ==
  LET h == request[r].host
  IN /\ request[r].step = "sent"
     /\ Step(r, "done")
     /\ breaker' = RecordSuccess(h)
     /\ UNCHANGED <<asked, sent>>

\* Mutant of NextHop: the loop starts over on another host.
RestartedHop(r, host) == IF host # request[r].host THEN 0 ELSE request[r].hop + 1

NextHop(r, host) == request[r].hop + 1

\* A redirect, from any host to any: attempts are counted anew, hops are not.
Redirect(r, host) ==
  LET h == request[r].host
      hop == NextHop(r, host)
  IN /\ request[r].step = "sent"
     /\ request' = [request EXCEPT ![r] =
          IF hop > MaxRedirects THEN [request[r] EXCEPT !.step = "done"]
          ELSE [request[r] EXCEPT !.step = "check", !.host = host, !.attempt = 0, !.hop = hop]]
     /\ breaker' = RecordSuccess(h)
     /\ UNCHANGED <<asked, sent>>

\* A transport error, a timeout, 429 or 5xx.
Fail(r) ==
  LET h == request[r].host
  IN /\ request[r].step = "sent"
     /\ Step(r, IF request[r].attempt >= MaxRetries THEN "done" ELSE "backoff")
     /\ breaker' = RecordFailure(h)
     /\ UNCHANGED <<asked, sent>>

Retry(r) ==
  /\ request[r].step = "backoff"
  /\ request' = [request EXCEPT ![r].step = "check", ![r].attempt = @ + 1]
  /\ UNCHANGED <<asked, breaker, sent>>

\* Too large, a blocked address, or cancelled wherever it is: raised without a record;
\* slot and lock are given back.
Raise(r) ==
  /\ request[r].step \notin {"idle", "done"}
  /\ request' = [request EXCEPT ![r].step = "done", ![r].wait = 0]
  /\ UNCHANGED <<asked, breaker, sent>>

Older(age, limit) == IF age < limit THEN age + 1 ELSE age
Tick ==
  /\ asked' = [h \in Hosts |-> Older(asked[h], MinInterval)]
  /\ sent' = [h \in Hosts |-> Older(sent[h], MinInterval)]
  /\ breaker' = [h \in Hosts |-> IF breaker[h].open THEN [breaker[h] EXCEPT !.cold = Older(@, Cooldown)]
                                 ELSE breaker[h]]
  /\ request' = [r \in Requests |-> [request[r] EXCEPT !.wait = IF @ > 0 THEN @ - 1 ELSE 0]]

Progress(r) ==
  \/ Check(r) \/ TakeSlot(r) \/ Throttle(r) \/ Send(r)
  \/ Answer(r) \/ (\E h \in Hosts : Redirect(r, h)) \/ Fail(r) \/ Retry(r)
Next == Tick \/ \E r \in Requests : Start(r) \/ Progress(r) \/ Raise(r)

Spec == Init /\ [][Next]_vars

\* The event loop and the clock go on; every request sent has an end (its timeout).
Fairness == WF_vars(Tick) /\ \A r \in Requests : WF_vars(Progress(r))
FairSpec == Spec /\ Fairness

-----------------------------------------------------------------------------
\* Every variable has its type.
TypeOK ==
  /\ request \in [Requests -> Request]
  /\ asked \in [Hosts -> 0..MinInterval] /\ sent \in [Hosts -> 0..MinInterval]
  /\ breaker \in [Hosts -> Breaker]

\* "Minimum seconds between requests to the same host": whatever is retried, redirected
\* or sent at the same time, two requests to a host are never handed to the HTTP client
\* closer than that.  (How long each then takes to connect is not modelled, so the host
\* itself may see them closer.)
KeepsDistance ==
  \A r \in Requests : request[r].step # "sent" /\ request'[r].step = "sent"
    => sent[request[r].host] >= MinInterval
Spaced == [][KeepsDistance]_vars

\* Every request ends, after finitely many attempts and redirects, though hosts may
\* redirect to each other for ever and everyone waits on one lock.
SomeStart == \E r \in Requests : request[r].step = "check"
AllEnded == \A r \in Requests : request[r].step \in {"idle", "done"}
RequestsEnd == SomeStart ~> AllEnded
=============================================================================
