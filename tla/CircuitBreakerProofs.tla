------------------------ MODULE CircuitBreakerProofs ------------------------
(***************************************************************************)
(* Proofs about CircuitBreaker.  The failure count tells whether the       *)
(* circuit is closed, and an open one was last opened by the last failure  *)
(* recorded, whoever's it was: hence it refuses calls until the provider   *)
(* was left alone for the whole timeout.                                   *)
(***************************************************************************)
EXTENDS CircuitBreaker, TLAPS

\* The count stays at the threshold until a success closes the circuit.
CountedIsOpen == failures = Threshold <=> state # "closed"

\* A failure of a late call opens the circuit again.
OpenedByTheLast == state = "open" => opened = quiet

\* Probes are sent when the provider was left alone, and the first to fail ends them.
ProbesAfterQuiet == state = "half_open" => quiet = ResetTimeout

BInv == TypeOK /\ CountedIsOpen /\ OpenedByTheLast /\ ProbesAfterQuiet

-----------------------------------------------------------------------------
\* A closed circuit, no failures, nobody under way.
LEMMA InitBInv == ASSUME BreakerAssumption, Init PROVE BInv
BY DEF BreakerAssumption, Init, BInv, TypeOK, CircuitState, Time, Idle, CountedIsOpen,
       OpenedByTheLast, ProbesAfterQuiet

\* No action leaves the types.
LEMMA NextTypes == ASSUME BreakerAssumption, TypeOK, [Next]_vars PROVE TypeOK'
<1> USE DEF BreakerAssumption, TypeOK, CircuitState, Time, Idle
<1>1. ASSUME NEW c \in Calls, Check(c) PROVE TypeOK'
  BY <1>1 DEF Check, Looked
<1>2. ASSUME NEW c \in Calls, Succeed(c) PROVE TypeOK'
  BY <1>2 DEF Succeed
<1>3. ASSUME NEW c \in Calls, AttemptFails(c) PROVE TypeOK'
  BY <1>3 DEF AttemptFails
<1>4. ASSUME NEW c \in Calls, Fail(c) PROVE TypeOK'
  <2>1. Counted \in 0..Threshold
    BY DEF Counted
  <2> QED  BY <1>4, <2>1 DEF Fail
<1>5. ASSUME NEW c \in Calls, Abandon(c) PROVE TypeOK'
  BY <1>5 DEF Abandon
<1>6. ASSUME Tick PROVE TypeOK'
  BY <1>6 DEF Tick, Later
<1>7. ASSUME Recover PROVE TypeOK'
  BY <1>7 DEF Recover
<1>8. ASSUME UNCHANGED vars PROVE TypeOK'
  BY <1>8 DEF vars
<1> QED  BY <1>1, <1>2, <1>3, <1>4, <1>5, <1>6, <1>7, <1>8 DEF Next

\* Checks, outcomes of calls of any age and the passing of time keep the invariant.
LEMMA NextBInv == ASSUME BreakerAssumption, BInv, [Next]_vars PROVE BInv'
<1> USE DEF BInv
<1>1. TypeOK'
  BY NextTypes
<1> USE DEF CountedIsOpen, OpenedByTheLast, ProbesAfterQuiet
<1>2. ASSUME NEW c \in Calls, Check(c) PROVE BInv'
  <2>1. CASE Looked = state
    BY <1>1, <1>2, <2>1 DEF Check
  <2>2. CASE Looked # state
    <3>1. state = "open" /\ opened = ResetTimeout /\ state' = "half_open"
      BY <1>2, <2>2 DEF Check, Looked
    <3> QED  BY <1>1, <1>2, <3>1 DEF Check
  <2> QED  BY <2>1, <2>2
<1>3. ASSUME NEW c \in Calls, Succeed(c) PROVE BInv'
  BY <1>1, <1>3 DEF Succeed, BreakerAssumption
<1>4. ASSUME NEW c \in Calls, Fail(c) PROVE BInv'
  <2>1. CASE Opens
    <3>1. failures' = Threshold
      BY <1>4, <2>1 DEF Fail, Opens, Counted, TypeOK, BreakerAssumption
    <3> QED  BY <1>1, <1>4, <2>1, <3>1 DEF Fail
  <2>2. CASE ~Opens
    <3>1. state = "closed" /\ failures' # Threshold
      BY <1>4, <2>2 DEF Fail, Opens, Counted, TypeOK, CircuitState, BreakerAssumption
    <3> QED  BY <1>1, <1>4, <2>2, <3>1 DEF Fail
  <2> QED  BY <2>1, <2>2
<1>5. ASSUME Tick PROVE BInv'
  BY <1>1, <1>5 DEF Tick, Later, TypeOK, Time, BreakerAssumption
<1>6. ASSUME UNCHANGED <<state, failures, opened, quiet>> PROVE BInv'
  BY <1>1, <1>6
<1> QED
  BY <1>2, <1>3, <1>4, <1>5, <1>6 DEF Next, AttemptFails, Abandon, Recover, vars

\* An open circuit refuses calls until the provider was left alone.
LEMMA BInvFailsFast == ASSUME BreakerAssumption, BInv PROVE FailsFast
<1>1. failures >= Threshold /\ quiet < ResetTimeout => ~Admits
  BY DEF BInv, CountedIsOpen, OpenedByTheLast, ProbesAfterQuiet, Admits, Looked,
         TypeOK, CircuitState, Time, BreakerAssumption
<1>2. failures < Threshold => Admits
  BY DEF BInv, CountedIsOpen, Admits, Looked, TypeOK, CircuitState, BreakerAssumption
<1> QED  BY <1>1, <1>2 DEF FailsFast

\* The invariant holds in every state.
LEMMA SpecBInv == ASSUME BreakerAssumption PROVE Spec => []BInv
BY InitBInv, NextBInv, PTL DEF Spec

-----------------------------------------------------------------------------
\* TypeOK holds in every state.
THEOREM TypeCorrect == ASSUME BreakerAssumption PROVE Spec => []TypeOK
BY SpecBInv, PTL DEF BInv

\* FailsFast: from the threshold on no call is admitted before the provider was left
\* alone for the whole timeout, and below it none is refused.
THEOREM CallsFailFast == ASSUME BreakerAssumption PROVE Spec => []FailsFast
BY BInvFailsFast, SpecBInv, PTL
=============================================================================
