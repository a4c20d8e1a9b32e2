--------------------------- MODULE ServicesProofs ---------------------------
(***************************************************************************)
(* Proofs about the components of Services, for any parameters: the        *)
(* invariant of each (of the circuit breaker and the selected rows from    *)
(* the proofs of their modules), that of Services from theirs, and the     *)
(* properties.                                                             *)
(***************************************************************************)
EXTENDS Services, FiniteSetTheorems, SequenceTheorems, WellFoundedInduction, TLAPS

-----------------------------------------------------------------------------
(* Induction, for a set of numbers: the library's theorems of that name are *)
(* about operators.                                                         *)

LEMMA SmallestMember ==
  ASSUME NEW T \in SUBSET Nat, T # {} PROVE \E m \in T : \A k \in T : m <= k
<1> DEFINE R == OpToRel(<, Nat)
<1>1. IsWellFoundedOn(R, Nat)
  BY NatLessThanWellFounded
<1>2. \A j, k \in Nat : j < k => <<j, k>> \in R
  BY DEF OpToRel
<1> HIDE DEF R
<1>3. PICK m \in T : \A k \in T : ~ (<<k, m>> \in R)
  BY <1>1, WFMin
<1>4. \A k \in T : ~ (k < m)
  BY <1>2, <1>3
<1> QED  BY <1>4

LEMMA Induct ==
  ASSUME NEW S, 0 \in S, \A n \in Nat : n \in S => n + 1 \in S
  PROVE  Nat \subseteq S
<1>1. SUFFICES ASSUME Nat \ S # {} PROVE FALSE
  OBVIOUS
<1>2. PICK m \in Nat \ S : \A k \in Nat \ S : m <= k
  BY <1>1, SmallestMember
<1>3. m - 1 \in Nat /\ m - 1 < m /\ m = (m - 1) + 1
  BY <1>2
<1> QED  BY <1>2, <1>3

-----------------------------------------------------------------------------
(* RateLimiter.  (s1 is events, s2 caller, s3 granted.)                     *)

LEMMA LimiterAssumed ==
  MaxRequests \in Nat \ {0} /\ MaxTokens \in Nat \ {0} /\ Window \in Nat \ {0}
BY ServicesAssumption DEF Limiter!LimiterAssumption

\* Tokens is what its definition says.
LEMMA TokensAre ==
  ASSUME NEW s \in Seq(Limiter!Event)
  PROVE  /\ Limiter!Tokens(s)[0] = 0
         /\ \A n \in 1..Len(s) : Limiter!Tokens(s)[n] = Limiter!Tokens(s)[n - 1] + s[n].tokens
<1> DEFINE Sum(f, n) == f = [k \in 0..n |-> IF k = 0 THEN 0 ELSE f[k - 1] + s[k].tokens]
           S == {n \in Nat : \E f : Sum(f, n)}
<1>1. 0 \in S
  <2>1. Sum([k \in {0} |-> 0], 0)
    OBVIOUS
  <2> QED  BY <2>1
<1>2. ASSUME NEW n \in Nat, n \in S PROVE n + 1 \in S
  <2>1. PICK f : Sum(f, n)
    BY <1>2
  <2> DEFINE g == [k \in 0..n + 1 |-> IF k = n + 1 THEN f[n] + s[k].tokens ELSE f[k]]
  <2>2. ASSUME NEW k \in 0..n + 1
        PROVE  g[k] = IF k = 0 THEN 0 ELSE g[k - 1] + s[k].tokens
    BY <2>1
  <2>3. Sum(g, n + 1)
    BY <2>2
  <2> HIDE DEF g, Sum
  <2> QED  BY <2>3
<1> HIDE DEF S
<1>3. Len(s) \in S
  BY <1>1, <1>2, Induct
<1> USE DEF S
<1>4. Sum(CHOOSE f : Sum(f, Len(s)), Len(s))
  BY <1>3
<1>5. Sum(Limiter!Tokens(s), Len(s))
  BY <1>4 DEF Limiter!Tokens
<1>6. Len(s) \in Nat
  OBVIOUS
<1> QED  BY <1>5, <1>6

LEMMA TokensGrow ==
  ASSUME NEW s \in Seq(Limiter!Event)
  PROVE  /\ \A n \in 0..Len(s) : Limiter!Tokens(s)[n] \in Nat
         /\ \A m, n \in 0..Len(s) : m <= n => Limiter!Tokens(s)[m] <= Limiter!Tokens(s)[n]
<1> DEFINE f == Limiter!Tokens(s)
           S == {n \in Nat : n <= Len(s) => \A m \in 0..n : f[m] \in Nat /\ f[m] <= f[n]}
<1>1. \A n \in 1..Len(s) : f[n] = f[n - 1] + s[n].tokens
  BY TokensAre
<1>2. ASSUME NEW n \in 1..Len(s) PROVE s[n].tokens \in Nat
  <2>1. s[n] \in Limiter!Event
    OBVIOUS
  <2> QED  BY <2>1, LimiterAssumed DEF Limiter!Event
<1>3. f[0] = 0
  BY TokensAre
<1> HIDE DEF f
<1>4. 0 \in S
  BY <1>3
<1>5. ASSUME NEW n \in Nat, n \in S PROVE n + 1 \in S
  <2>1. SUFFICES ASSUME n + 1 <= Len(s) PROVE \A m \in 0..n + 1 : f[m] \in Nat /\ f[m] <= f[n + 1]
    OBVIOUS
  <2>2. \A m \in 0..n : f[m] \in Nat /\ f[m] <= f[n]
    BY <1>5, <2>1
  <2>3. f[n + 1] = f[n] + s[n + 1].tokens /\ s[n + 1].tokens \in Nat
    BY <1>1, <1>2, <2>1
  <2> QED  BY <2>2, <2>3
<1> HIDE DEF S
<1>6. \A n \in Nat : n \in S
  BY <1>4, <1>5, Induct
<1> QED  BY <1>6 DEF S, f

\* Events of the same tokens, up to the n-th, add up to the same.
LEMMA SameTokens ==
  ASSUME NEW s \in Seq(Limiter!Event), NEW t \in Seq(Limiter!Event), Len(s) <= Len(t),
         \A n \in 1..Len(s) : s[n].tokens = t[n].tokens
  PROVE  \A n \in 0..Len(s) : Limiter!Tokens(s)[n] = Limiter!Tokens(t)[n]
<1> DEFINE f == Limiter!Tokens(s)
           g == Limiter!Tokens(t)
           S == {n \in Nat : n <= Len(s) => f[n] = g[n]}
<1>1. f[0] = 0 /\ g[0] = 0 /\ \A n \in 1..Len(s) : f[n] = f[n - 1] + s[n].tokens /\ g[n] = g[n - 1] + t[n].tokens
  BY TokensAre
<1> HIDE DEF f, g
<1>2. 0 \in S
  BY <1>1
<1>3. ASSUME NEW n \in Nat, n \in S PROVE n + 1 \in S
  BY <1>1, <1>3
<1> HIDE DEF S
<1>4. \A n \in Nat : n \in S
  BY <1>2, <1>3, Induct
<1> QED  BY <1>4 DEF S, f, g

\* What is left when the first x are dropped.
LEMMA TokensLeft ==
  ASSUME NEW s \in Seq(Limiter!Event), NEW x \in 0..Len(s)
  PROVE  LET t == SubSeq(s, x + 1, Len(s)) IN
         /\ t \in Seq(Limiter!Event) /\ Len(t) = Len(s) - x
         /\ \A n \in 1..Len(t) : t[n] = s[x + n]
         /\ \A n \in 0..Len(t) : Limiter!Tokens(t)[n] = Limiter!Tokens(s)[x + n] - Limiter!Tokens(s)[x]
<1> DEFINE t == SubSeq(s, x + 1, Len(s))
           f == Limiter!Tokens(s)
           g == Limiter!Tokens(t)
           S == {n \in Nat : n <= Len(t) => g[n] = f[x + n] - f[x]}
<1>1. t \in Seq(Limiter!Event) /\ Len(t) = Len(s) - x /\ \A n \in 1..Len(t) : t[n] = s[x + n]
  BY SubSeqProperties
<1> HIDE DEF t
<1>2. \A n \in 1..Len(s) : f[n] = f[n - 1] + s[n].tokens
  BY TokensAre
<1>3. g[0] = 0 /\ \A n \in 1..Len(t) : g[n] = g[n - 1] + t[n].tokens
  BY <1>1, TokensAre
<1>4. \A n \in 0..Len(s) : f[n] \in Nat
  BY TokensGrow
<1>5. \A n \in 1..Len(s) : s[n].tokens \in Nat
  <2>1. \A n \in 1..Len(s) : s[n] \in Limiter!Event
    OBVIOUS
  <2> QED  BY <2>1, LimiterAssumed DEF Limiter!Event
<1> HIDE DEF f, g
<1>6. 0 \in S
  BY <1>3, <1>4
<1>7. ASSUME NEW n \in Nat, n \in S PROVE n + 1 \in S
  <2>1. SUFFICES ASSUME n + 1 <= Len(t) PROVE g[n + 1] = f[x + n + 1] - f[x]
    OBVIOUS
  <2>2. g[n + 1] = g[n] + s[x + n + 1].tokens /\ g[n] = f[x + n] - f[x]
    BY <1>1, <1>3, <1>7, <2>1
  <2>3. f[x + n + 1] = f[x + n] + s[x + n + 1].tokens
    <3>1. x + n + 1 \in 1..Len(s) /\ (x + n + 1) - 1 = x + n
      BY <1>1, <2>1
    <3> QED  BY <1>2, <3>1
  <2> QED  BY <2>1, <2>2, <2>3, <1>1, <1>4, <1>5
<1> HIDE DEF S
<1>8. \A n \in Nat : n \in S
  BY <1>6, <1>7, Induct
<1> QED  BY <1>1, <1>8 DEF S, f, g, t

\* Events are in the order of their age, the oldest first.
Ordered(s) == \A m, n \in 1..Len(s) : m <= n => s[n].age <= s[m].age
\* With n events gone there is room.
Enough(s, n, tokens) ==
  Len(s) - n < MaxRequests /\ Limiter!Total(s) - Limiter!Tokens(s)[n] + tokens <= MaxTokens

LEMMA EventFields ==
  ASSUME NEW s \in Seq(Limiter!Event), NEW n \in 1..Len(s)
  PROVE  s[n] \in Limiter!Event /\ s[n].age \in 0..Window /\ s[n].tokens \in 1..MaxTokens
<1>1. s[n] \in Limiter!Event
  OBVIOUS
<1> QED  BY <1>1 DEF Limiter!Event

LEMMA ExpiredIs ==
  ASSUME NEW s \in Seq(Limiter!Event)
  PROVE  /\ Limiter!Expired(s) \in 0..Len(s)
         /\ \A i \in 1..Limiter!Expired(s) : s[i].age = Window
         /\ Limiter!Expired(s) < Len(s) => s[Limiter!Expired(s) + 1].age # Window
<1> DEFINE T == {n \in Nat : n = Len(s) \/ (n < Len(s) /\ s[n + 1].age # Window)}
           Right(n) == /\ \A i \in 1..n : s[i].age = Window
                       /\ n < Len(s) => s[n + 1].age # Window
<1>1. Len(s) \in T
  OBVIOUS
<1>2. PICK m \in T : \A k \in T : m <= k
  <2> HIDE DEF T
  <2>1. T \subseteq Nat
    BY DEF T
  <2> QED  BY <1>1, <2>1, SmallestMember
<1>3. m \in 0..Len(s)
  BY <1>1, <1>2
<1>4. ASSUME NEW i \in 1..m PROVE s[i].age = Window
  <2>1. i - 1 \in Nat /\ i - 1 < Len(s) /\ (i - 1) + 1 = i /\ ~ (m <= i - 1)
    BY <1>3
  <2>2. i - 1 \notin T
    BY <1>2, <2>1
  <2> QED  BY <2>1, <2>2
<1>5. Right(m)
  BY <1>2, <1>3, <1>4
<1> HIDE DEF Right
<1>6. Limiter!Expired(s) = CHOOSE n \in 0..Len(s) : Right(n)
  BY DEF Limiter!Expired, Right
<1>7. Limiter!Expired(s) \in 0..Len(s) /\ Right(Limiter!Expired(s))
  BY <1>3, <1>5, <1>6
<1> QED  BY <1>7 DEF Right

LEMMA ExpiredAt ==
  ASSUME NEW s \in Seq(Limiter!Event), Ordered(s), NEW n \in 0..Len(s),
         n > 0 => s[n].age = Window, n < Len(s) => s[n + 1].age # Window
  PROVE  Limiter!Expired(s) = n
<1>1. \A i \in 1..Len(s) : s[i].age \in 0..Window
  BY EventFields
<1>2. ASSUME NEW i \in 1..n PROVE s[i].age = Window
  <2>1. n \in 1..Len(s) /\ i \in 1..Len(s) /\ i <= n
    OBVIOUS
  <2>2. s[n].age <= s[i].age
    BY <2>1 DEF Ordered
  <2> QED  BY <2>1, <2>2, <1>1, LimiterAssumed
<1> DEFINE x == Limiter!Expired(s)
<1>3. x \in 0..Len(s) /\ (\A i \in 1..x : s[i].age = Window) /\ (x < Len(s) => s[x + 1].age # Window)
  BY ExpiredIs
<1> HIDE DEF x
<1>4. ~ (x < n)
  <2> SUFFICES ASSUME x < n PROVE FALSE
    OBVIOUS
  <2>1. x + 1 \in 1..n /\ x < Len(s)
    BY <1>3
  <2> QED  BY <2>1, <1>2, <1>3
<1>5. ~ (n < x)
  <2> SUFFICES ASSUME n < x PROVE FALSE
    OBVIOUS
  <2>1. n + 1 \in 1..x /\ n < Len(s)
    BY <1>3
  <2> QED  BY <2>1, <1>3
<1>6. x = n
  BY <1>3, <1>4, <1>5
<1> QED  BY <1>6 DEF x

\* What is left when the events of a window ago have left.
LEMMA RecentIs ==
  ASSUME NEW s \in Seq(Limiter!Event), Ordered(s)
  PROVE  LET x == Limiter!Expired(s)
             t == Limiter!Recent(s) IN
         /\ x \in 0..Len(s) /\ t \in Seq(Limiter!Event) /\ Len(t) = Len(s) - x
         /\ \A n \in 1..x : s[n].age = Window
         /\ \A n \in 1..Len(t) : t[n] = s[x + n] /\ t[n].age < Window
         /\ \A n \in 0..Len(t) : Limiter!Tokens(t)[n] = Limiter!Tokens(s)[x + n] - Limiter!Tokens(s)[x]
         /\ Ordered(t)
<1> DEFINE x == Limiter!Expired(s)
           t == Limiter!Recent(s)
<1>1. x \in 0..Len(s) /\ (\A n \in 1..x : s[n].age = Window) /\ (x < Len(s) => s[x + 1].age # Window)
  BY ExpiredIs
<1>2. t = SubSeq(s, x + 1, Len(s))
  BY DEF Limiter!Recent
<1> HIDE DEF x, t
<1>3. /\ t \in Seq(Limiter!Event) /\ Len(t) = Len(s) - x
      /\ \A n \in 1..Len(t) : t[n] = s[x + n]
      /\ \A n \in 0..Len(t) : Limiter!Tokens(t)[n] = Limiter!Tokens(s)[x + n] - Limiter!Tokens(s)[x]
  BY <1>1, <1>2, TokensLeft
<1>4. \A n \in 1..Len(s) : s[n].age \in 0..Window
  BY EventFields
<1>5. ASSUME NEW n \in 1..Len(t) PROVE t[n].age < Window
  <2>1. x < Len(s) /\ x + 1 \in 1..Len(s) /\ x + n \in 1..Len(s) /\ x + 1 <= x + n
    BY <1>1, <1>3
  <2>2. s[x + n].age <= s[x + 1].age
    BY <2>1 DEF Ordered
  <2> QED  BY <1>1, <1>3, <1>4, <2>1, <2>2, LimiterAssumed
<1>6. ASSUME NEW m \in 1..Len(t), NEW n \in 1..Len(t), m <= n PROVE t[n].age <= t[m].age
  <2>1. x + n \in 1..Len(s) /\ x + m \in 1..Len(s) /\ x + m <= x + n
    BY <1>1, <1>3, <1>6
  <2> QED  BY <1>3, <2>1 DEF Ordered
<1> QED  BY <1>1, <1>3, <1>5, <1>6 DEF x, t, Ordered

-----------------------------------------------------------------------------
\* Somebody who sleeps waits for the first n events to leave, the fewest that make room,
\* and is awake when the n-th of them does.
WaitsFor(c, n) ==
  /\ Enough(s1, n, s2[c].tokens)
  /\ \A m \in 0..Len(s1) : m < n => ~ Enough(s1, m, s2[c].tokens)
  /\ n = 0 => s2[c].wait = 0
  /\ n > 0 => s1[n].age + s2[c].wait = Window

Waits ==
  \A c \in Callers :
    /\ s2[c].alone => s2[c].step \in {"asleep", "waiting"}
    /\ s2[c].alone /\ s2[c].tokens <= MaxTokens => \E n \in 0..Len(s1) : WaitsFor(c, n)

LInv ==
  /\ Limiter!TypeOK /\ Ordered(s1) /\ s3 = Limiter!Evicted
  /\ Limiter!WithinBudget /\ Waits

LEMMA EnoughMonotone ==
  ASSUME NEW s \in Seq(Limiter!Event), NEW m \in 0..Len(s), NEW n \in 0..Len(s), m <= n,
         NEW tokens \in Nat, Enough(s, m, tokens)
  PROVE  Enough(s, n, tokens)
<1>1. Limiter!Tokens(s)[m] <= Limiter!Tokens(s)[n] /\ Limiter!Tokens(s)[m] \in Nat /\ Limiter!Tokens(s)[n] \in Nat
  BY TokensGrow
<1>2. Limiter!Total(s) \in Nat
  BY TokensGrow DEF Limiter!Total
<1>3. Len(s) \in Nat
  OBVIOUS
<1> QED  BY <1>1, <1>2, <1>3, LimiterAssumed DEF Enough

\* Room is the same, counted in what is left.
LEMMA EnoughOfRecent ==
  ASSUME NEW s \in Seq(Limiter!Event), Ordered(s), NEW tokens \in Nat,
         NEW n \in 0..Len(Limiter!Recent(s))
  PROVE  /\ Limiter!Expired(s) + n \in 0..Len(s)
         /\ Enough(Limiter!Recent(s), n, tokens) <=> Enough(s, Limiter!Expired(s) + n, tokens)
<1> DEFINE x == Limiter!Expired(s)
           t == Limiter!Recent(s)
<1>1. /\ x \in 0..Len(s) /\ t \in Seq(Limiter!Event) /\ Len(t) = Len(s) - x
      /\ \A k \in 0..Len(t) : Limiter!Tokens(t)[k] = Limiter!Tokens(s)[x + k] - Limiter!Tokens(s)[x]
  BY RecentIs
<1> HIDE DEF x, t
<1>2. Len(t) \in 0..Len(t) /\ n \in 0..Len(t) /\ x + Len(t) = Len(s) /\ x + n \in 0..Len(s)
  BY <1>1 DEF t
<1>3. Limiter!Total(t) = Limiter!Total(s) - Limiter!Tokens(s)[x]
  BY <1>1, <1>2 DEF Limiter!Total
<1>4. Limiter!Total(s) \in Nat /\ \A k \in 0..Len(s) : Limiter!Tokens(s)[k] \in Nat
  BY TokensGrow DEF Limiter!Total
<1>5. Limiter!Total(t) - Limiter!Tokens(t)[n] = Limiter!Total(s) - Limiter!Tokens(s)[x + n]
  BY <1>1, <1>2, <1>3, <1>4
<1>6. Len(t) - n = Len(s) - (x + n)
  BY <1>1, <1>2
<1>7. Enough(t, n, tokens) <=> Enough(s, x + n, tokens)
  BY <1>5, <1>6 DEF Enough
<1> QED  BY <1>2, <1>7 DEF x, t

LEMMA FitsIs ==
  ASSUME Limiter!TypeOK, Ordered(s1), NEW tokens \in Nat
  PROVE  /\ Limiter!Fits(tokens) <=> Enough(Limiter!Evicted, 0, tokens)
         /\ Limiter!Fits(tokens) <=> Enough(s1, Limiter!Expired(s1), tokens)
<1>1. s1 \in Seq(Limiter!Event)
  BY DEF Limiter!TypeOK
<1>2. Limiter!Evicted \in Seq(Limiter!Event)
  BY <1>1, RecentIs DEF Limiter!Evicted
<1>3. Limiter!Tokens(Limiter!Evicted)[0] = 0 /\ Limiter!Total(Limiter!Evicted) \in Nat
  BY <1>2, TokensAre, TokensGrow DEF Limiter!Total
<1>4. Limiter!Fits(tokens) <=> Enough(Limiter!Evicted, 0, tokens)
  BY <1>2, <1>3 DEF Limiter!Fits, Enough
<1>5. 0 \in 0..Len(Limiter!Evicted) /\ Limiter!Expired(s1) + 0 = Limiter!Expired(s1)
  BY <1>1, <1>2, ExpiredIs
<1> QED  BY <1>1, <1>4, <1>5, EnoughOfRecent DEF Limiter!Evicted

\* The sleep that is computed ends when the last of the events leaves that must.
LEMMA SleepIsExact ==
  ASSUME LInv, NEW tokens \in 1..MaxTokens, ~ Limiter!Fits(tokens)
  PROVE  \E n \in 1..Len(Limiter!Evicted) :
           /\ Enough(Limiter!Evicted, n, tokens)
           /\ \A m \in 0..Len(Limiter!Evicted) : m < n => ~ Enough(Limiter!Evicted, m, tokens)
           /\ Limiter!TimeUntilCapacity(tokens) = Window - Limiter!Evicted[n].age
<1> DEFINE t == Limiter!Evicted
           T == {n \in Nat : n <= Len(t) /\ Enough(t, n, tokens)}
           Room(n) == Limiter!Suffices(n, tokens)
<1>1. s1 \in Seq(Limiter!Event) /\ Ordered(s1)
  BY DEF LInv, Limiter!TypeOK
<1>2. t \in Seq(Limiter!Event) /\ Ordered(t) /\ \A n \in 1..Len(t) : t[n].age < Window
  BY <1>1, RecentIs DEF Limiter!Evicted
<1>3. Len(t) <= MaxRequests
  BY DEF LInv, Limiter!WithinBudget
<1> HIDE DEF t
<1>4. \A n \in 1..Len(t) : t[n].age \in 0..Window
  BY <1>2, EventFields
<1>5. \A n \in 0..Len(t) : Enough(t, n, tokens) <=> Len(t) - n < MaxRequests /\ Room(n)
  BY DEF Enough, Limiter!Suffices, t
<1>6. Limiter!Total(t) = Limiter!Tokens(t)[Len(t)] /\ Limiter!Total(t) \in Nat /\ Len(t) \in Nat
  BY <1>2, TokensGrow DEF Limiter!Total
<1>7. Len(t) \in T
  BY <1>6, LimiterAssumed DEF Enough
<1>8. PICK n \in T : \A k \in T : n <= k
  <2> HIDE DEF T
  <2>1. T \subseteq Nat
    BY DEF T
  <2> QED  BY <1>7, <2>1, SmallestMember
<1>9. ~ Enough(t, 0, tokens)
  BY FitsIs DEF LInv, t
<1>10. n \in 1..Len(t) /\ Enough(t, n, tokens)
  BY <1>6, <1>8, <1>9
<1>11. \A m \in 0..Len(t) : m < n => ~ Enough(t, m, tokens)
  BY <1>8, <1>10
<1>12. \A m \in 0..Len(t) : Limiter!Tokens(t)[m] \in Nat
  BY <1>2, TokensGrow
<1>13. Room(0) <=> ~ (Limiter!Total(t) + tokens > MaxTokens)
  <2>1. Limiter!Tokens(t)[0] = 0
    BY <1>2, TokensAre
  <2> QED  BY <2>1, <1>6, LimiterAssumed DEF Limiter!Suffices, t
\* The part of the tokens.
<1>14. CASE Limiter!Total(t) + tokens > MaxTokens
  <2>1. \A m \in 1..n - 1 : ~ Room(m)
    <3>1. ASSUME NEW m \in 1..n - 1 PROVE ~ Room(m)
      <4>1. m \in 0..Len(t) /\ m < n /\ Len(t) - m < Len(t)
        BY <1>6, <1>10
      <4> QED  BY <4>1, <1>3, <1>5, <1>6, <1>11, LimiterAssumed
    <3> QED  BY <3>1
  <2>2. Room(n)
    BY <1>5, <1>10
  <2>3. ASSUME NEW k \in 1..Len(t), Room(k), \A m \in 1..k - 1 : ~ Room(m) PROVE k = n
    <3>1. ~ (k < n)
      BY <2>1, <2>3
    <3>2. ~ (n < k)
      BY <2>2, <2>3, <1>10
    <3> QED  BY <3>1, <3>2, <1>10
  <2> HIDE DEF Room
  <2>4. (CHOOSE k \in 1..Len(t) : Room(k) /\ \A m \in 1..k - 1 : ~ Room(m)) = n
    BY <1>10, <2>1, <2>2, <2>3
  <2>5. Limiter!TokenWait(tokens) = Window - t[n].age
    <3>1. tokens <= MaxTokens /\ ~ (tokens > MaxTokens)
      BY LimiterAssumed
    <3>2. Limiter!TokenWait(tokens) =
            Window - t[CHOOSE k \in 1..Len(t) : Room(k) /\ \A m \in 1..k - 1 : ~ Room(m)].age
      BY <3>1 DEF Limiter!TokenWait, Room, t
    <3> QED  BY <2>4, <3>2
  <2>6. CASE Len(t) >= MaxRequests
    <3>1. Limiter!RequestWait = Window - t[1].age
      BY <1>2, <1>10 DEF Limiter!RequestWait, t
    <3>2. 1 \in 1..Len(t) /\ 1 <= n /\ t[n].age <= t[1].age
      BY <1>2, <1>10 DEF Ordered
    <3>3. Limiter!TimeUntilCapacity(tokens) = Window - t[n].age
      BY <3>1, <3>2, <2>5, <2>6, <1>4, <1>10, <1>14, LimiterAssumed DEF Limiter!TimeUntilCapacity, t
    <3> QED  BY <3>3, <1>4, <1>10, <1>11, LimiterAssumed DEF t
  <2>7. CASE ~ (Len(t) >= MaxRequests)
    <3>1. Limiter!TimeUntilCapacity(tokens) = Window - t[n].age
      BY <2>5, <2>7, <1>4, <1>10, <1>14, LimiterAssumed DEF Limiter!TimeUntilCapacity, t
    <3> QED  BY <3>1, <1>4, <1>10, <1>11, LimiterAssumed DEF t
  <2> QED  BY <2>6, <2>7
\* Only the part of the requests.
<1>15. CASE ~ (Limiter!Total(t) + tokens > MaxTokens)
  <2>1. Len(t) >= MaxRequests
    BY <1>5, <1>6, <1>9, <1>13, <1>15, LimiterAssumed
  <2>2. 1 \in 0..Len(t) /\ 0 \in 0..Len(t) /\ 0 <= 1 /\ Len(t) - 1 < MaxRequests
    BY <1>3, <1>6, <1>10, LimiterAssumed
  <2>3. Room(1)
    <3>1. Limiter!Tokens(t)[0] <= Limiter!Tokens(t)[1]
      BY <1>2, <2>2, TokensGrow
    <3> QED  BY <3>1, <1>6, <1>12, <1>13, <1>15, <2>2, LimiterAssumed DEF Limiter!Suffices, t
  <2>4. n = 1
    BY <2>2, <2>3, <1>5, <1>8, <1>10
  <2>5. Limiter!TimeUntilCapacity(tokens) = Window - t[n].age
    <3>1. Limiter!RequestWait = Window - t[1].age
      BY <1>2, <1>10 DEF Limiter!RequestWait, t
    <3> QED  BY <3>1, <2>1, <2>4, <1>4, <1>10, <1>15, LimiterAssumed DEF Limiter!TimeUntilCapacity, t
  <2> QED  BY <2>5, <1>4, <1>10, <1>11, LimiterAssumed DEF t
<1> QED  BY <1>14, <1>15

\* No sleep is longer than a window.
LEMMA SleepIsBounded ==
  ASSUME LInv, NEW tokens \in Limiter!Sizes, ~ Limiter!Fits(tokens)
  PROVE  Limiter!TimeUntilCapacity(tokens) \in 0..Window
<1>1. s1 \in Seq(Limiter!Event) /\ Ordered(s1)
  BY DEF LInv, Limiter!TypeOK
<1>2. Limiter!Evicted \in Seq(Limiter!Event)
  BY <1>1, RecentIs DEF Limiter!Evicted
<1>3. CASE tokens \in 1..MaxTokens
  <2>1. PICK n \in 1..Len(Limiter!Evicted) :
          Limiter!TimeUntilCapacity(tokens) = Window - Limiter!Evicted[n].age
    BY <1>3, SleepIsExact
  <2>2. Limiter!Evicted[n].age \in 0..Window
    BY <1>2, EventFields
  <2> QED  BY <2>1, <2>2, LimiterAssumed
<1>4. CASE tokens = MaxTokens + 1
  <2>1. Limiter!TokenWait(tokens) = Window
    BY <1>4, LimiterAssumed DEF Limiter!TokenWait
  <2>2. Limiter!Total(Limiter!Evicted) \in Nat
    BY <1>2, TokensGrow DEF Limiter!Total
  <2>3. Len(Limiter!Evicted) >= MaxRequests => Limiter!RequestWait \in 0..Window
    <3>1. SUFFICES ASSUME Len(Limiter!Evicted) >= MaxRequests PROVE Limiter!RequestWait \in 0..Window
      OBVIOUS
    <3>2. 1 \in 1..Len(Limiter!Evicted) /\ Head(Limiter!Evicted) = Limiter!Evicted[1]
      BY <1>2, <3>1, LimiterAssumed
    <3>3. Limiter!Evicted[1].age \in 0..Window
      BY <1>2, <3>2, EventFields
    <3> QED  BY <3>2, <3>3, LimiterAssumed DEF Limiter!RequestWait
  <2> QED  BY <1>4, <2>1, <2>2, <2>3, LimiterAssumed DEF Limiter!TimeUntilCapacity
<1> QED  BY <1>3, <1>4, LimiterAssumed DEF Limiter!Sizes

LEMMA LimiterInit == ASSUME Limiter!Init PROVE LInv
<1>1. s1 = <<>> /\ s3 = <<>> /\ s1 \in Seq(Limiter!Event)
  BY DEF Limiter!Init
<1>2. ASSUME NEW c \in Callers PROVE s2[c] \in Limiter!Caller /\ ~ s2[c].alone
  <2>1. s2[c] \in {[step |-> "idle", tokens |-> t, wait |-> 0, alone |-> FALSE] : t \in Limiter!Sizes}
    BY DEF Limiter!Init
  <2>2. PICK t \in Limiter!Sizes : s2[c] = [step |-> "idle", tokens |-> t, wait |-> 0, alone |-> FALSE]
    BY <2>1
  <2>3. 0 \in 0..Window
    BY LimiterAssumed
  <2> QED  BY <2>2, <2>3 DEF Limiter!Caller
<1>3. Limiter!TypeOK
  BY <1>1, <1>2 DEF Limiter!TypeOK, Limiter!Init
<1>4. Ordered(s1)
  BY <1>1 DEF Ordered
<1>5. Limiter!Evicted = <<>>
  <2>1. Limiter!Evicted \in Seq(Limiter!Event) /\ Len(Limiter!Evicted) = 0 - Limiter!Expired(s1)
        /\ Limiter!Expired(s1) \in 0..0
    BY <1>1, <1>4, RecentIs DEF Limiter!Evicted
  <2> QED  BY <2>1
<1>6. Limiter!WithinBudget
  <2>1. Limiter!Total(s3) = 0
    BY <1>1, TokensAre DEF Limiter!Total
  <2> QED  BY <1>1, <2>1, LimiterAssumed DEF Limiter!WithinBudget
<1>7. Waits
  BY <1>2 DEF Waits
<1> QED  BY <1>1, <1>3, <1>4, <1>5, <1>6, <1>7 DEF LInv

\* A caller that goes on with what it had.
LEMMA CallerStays ==
  ASSUME LInv, NEW c \in Callers, s2' \in [Callers -> Limiter!Caller], s1' = s1, s3' = s3,
         \A d \in Callers : s2'[d].tokens = s2[d].tokens /\ s2'[d].wait = s2[d].wait
                            /\ s2'[d].alone = s2[d].alone,
         \A d \in Callers : s2[d].alone => s2'[d].step \in {"asleep", "waiting"}
  PROVE  LInv'
<1>1. Limiter!TypeOK' /\ Ordered(s1)' /\ (s3 = Limiter!Evicted)' /\ Limiter!WithinBudget'
  BY DEF LInv, Limiter!TypeOK, Limiter!Evicted, Limiter!WithinBudget
<1>2. ASSUME NEW d \in Callers, NEW n PROVE WaitsFor(d, n) => WaitsFor(d, n)'
  BY DEF WaitsFor
<1>3. Waits'
  BY <1>2 DEF LInv, Waits
<1> QED  BY <1>1, <1>3 DEF LInv

LEMMA CallKeeps == ASSUME LInv, NEW c \in Callers, Limiter!Call(c) \/ Limiter!Wake(c) PROVE LInv'
<1>1. /\ s2[c].step \in {"idle", "asleep"} /\ s2' = [s2 EXCEPT ![c].step = "waiting"]
      /\ s1' = s1 /\ s3' = s3
  BY DEF Limiter!Call, Limiter!Wake
<1>2. \A d \in Callers : s2[d] \in Limiter!Caller
  BY DEF LInv, Limiter!TypeOK
<1>3. s2' \in [Callers -> Limiter!Caller]
  BY <1>1, <1>2 DEF LInv, Limiter!TypeOK, Limiter!Caller
<1>4. \A d \in Callers : /\ s2'[d].tokens = s2[d].tokens /\ s2'[d].wait = s2[d].wait
                         /\ s2'[d].alone = s2[d].alone
                         /\ s2'[d].step = IF d = c THEN "waiting" ELSE s2[d].step
  BY <1>1, <1>2 DEF LInv, Limiter!TypeOK, Limiter!Caller
<1>5. \A d \in Callers : s2[d].alone => s2'[d].step \in {"asleep", "waiting"}
  BY <1>4 DEF LInv, Waits
<1> QED  BY <1>1, <1>3, <1>4, <1>5, CallerStays

\* Recent events are all there are.
LEMMA AllRecent ==
  ASSUME NEW s \in Seq(Limiter!Event), Ordered(s), \A n \in 1..Len(s) : s[n].age < Window
  PROVE  Limiter!Recent(s) = s
<1>1. Limiter!Expired(s) = 0
  <2>1. 0 \in 0..Len(s)
    OBVIOUS
  <2>2. 0 < Len(s) => s[0 + 1].age # Window
    <3>1. 0 < Len(s) => 1 \in 1..Len(s)
      OBVIOUS
    <3> QED  BY <3>1, LimiterAssumed
  <2> QED  BY <2>1, <2>2, ExpiredAt
<1> QED  BY <1>1, SubSeqFull DEF Limiter!Recent

LEMMA GrantKeeps == ASSUME LInv, NEW c \in Callers, Limiter!Grant(c) PROVE LInv'
<1> DEFINE t == Limiter!Evicted
           e == [age |-> 0, tokens |-> s2[c].tokens]
<1>1. s1 \in Seq(Limiter!Event) /\ Ordered(s1) /\ s3 = t
  BY DEF LInv, Limiter!TypeOK
<1>2. t \in Seq(Limiter!Event) /\ Ordered(t) /\ \A n \in 1..Len(t) : t[n].age < Window
  BY <1>1, RecentIs DEF Limiter!Evicted
<1>3. Limiter!Fits(s2[c].tokens) /\ s1' = Append(t, e) /\ s3' = Append(t, e)
  BY <1>1 DEF Limiter!Grant
<1>4. \A d \in Callers : s2[d] \in Limiter!Caller
  BY DEF LInv, Limiter!TypeOK
<1>5. s2[c].tokens \in 1..MaxTokens + 1
  BY <1>4 DEF Limiter!Caller, Limiter!Sizes
<1>6. Limiter!Total(t) \in Nat /\ Len(t) < MaxRequests /\ Limiter!Total(t) + s2[c].tokens <= MaxTokens
  BY <1>2, <1>3, TokensGrow DEF Limiter!Total, Limiter!Fits
<1>7. e \in Limiter!Event
  BY <1>5, <1>6, LimiterAssumed DEF Limiter!Event
<1> HIDE DEF t
<1>8. Append(t, e) \in Seq(Limiter!Event) /\ Len(Append(t, e)) = Len(t) + 1
      /\ (\A n \in 1..Len(t) : Append(t, e)[n] = t[n]) /\ Append(t, e)[Len(t) + 1] = e
  BY <1>2, <1>7
<1>9. \A n \in 1..Len(t) : t[n].age \in 0..Window
  BY <1>2, EventFields
<1>10. Ordered(Append(t, e)) /\ \A n \in 1..Len(Append(t, e)) : Append(t, e)[n].age < Window
  BY <1>2, <1>8, <1>9, LimiterAssumed DEF Ordered
<1>11. Limiter!Total(Append(t, e)) = Limiter!Total(t) + s2[c].tokens
  <2>1. \A n \in 0..Len(t) : Limiter!Tokens(t)[n] = Limiter!Tokens(Append(t, e))[n]
    <3>1. Len(t) <= Len(Append(t, e)) /\ \A n \in 1..Len(t) : t[n].tokens = Append(t, e)[n].tokens
      BY <1>2, <1>8
    <3> HIDE DEF e
    <3> QED  BY <1>2, <1>8, <3>1, SameTokens
  <2>2. Len(t) \in 0..Len(t) /\ Len(t) + 1 \in 1..Len(Append(t, e)) /\ (Len(t) + 1) - 1 = Len(t)
    BY <1>2, <1>8
  <2>3. Limiter!Tokens(Append(t, e))[Len(t) + 1] = Limiter!Tokens(Append(t, e))[Len(t)] + e.tokens
    BY <1>8, <2>2, TokensAre
  <2> QED  BY <1>8, <2>1, <2>2, <2>3 DEF Limiter!Total
<1>12. s2' \in [Callers -> Limiter!Caller] /\ \A d \in Callers : ~ s2'[d].alone
  <2>1. s2' = [d \in Callers |->
                IF d = c THEN [s2[c] EXCEPT !.step = "done", !.wait = 0, !.alone = FALSE]
                ELSE [s2[d] EXCEPT !.alone = FALSE]]
    BY DEF Limiter!Grant
  <2>2. 0 \in 0..Window
    BY LimiterAssumed
  <2>3. ASSUME NEW d \in Callers PROVE s2'[d] \in Limiter!Caller /\ ~ s2'[d].alone
    <3>1. s2[d] \in Limiter!Caller
      BY <1>4
    <3> QED  BY <2>1, <2>2, <3>1 DEF Limiter!Caller
  <2> QED  BY <2>1, <2>3
<1>13. Limiter!TypeOK'
  BY <1>3, <1>8, <1>12 DEF Limiter!TypeOK
<1>14. (s3 = Limiter!Evicted)'
  BY <1>3, <1>8, <1>10, AllRecent DEF Limiter!Evicted
<1>15. Limiter!WithinBudget'
  BY <1>3, <1>6, <1>8, <1>11, <1>2, LimiterAssumed DEF Limiter!WithinBudget
<1>16. Waits'
  BY <1>12 DEF Waits
<1> QED  BY <1>3, <1>10, <1>13, <1>14, <1>15, <1>16 DEF LInv

LEMMA SleepKeeps == ASSUME LInv, NEW c \in Callers, Limiter!Sleep(c) PROVE LInv'
<1> DEFINE t == Limiter!Evicted
           x == Limiter!Expired(s1)
<1>1. s1 \in Seq(Limiter!Event) /\ Ordered(s1) /\ s3 = t
  BY DEF LInv, Limiter!TypeOK
<1>2. /\ t \in Seq(Limiter!Event) /\ Ordered(t) /\ x \in 0..Len(s1) /\ Len(t) = Len(s1) - x
      /\ \A n \in 1..x : s1[n].age = Window
      /\ \A n \in 1..Len(t) : t[n] = s1[x + n] /\ t[n].age < Window
  BY <1>1, RecentIs DEF Limiter!Evicted
<1>3. /\ ~ Limiter!Fits(s2[c].tokens) /\ s1' = t /\ s3' = s3
      /\ s2' = [s2 EXCEPT ![c].step = "asleep", ![c].alone = TRUE,
                          ![c].wait = Limiter!TimeUntilCapacity(s2[c].tokens)]
  BY DEF Limiter!Sleep
<1>4. \A d \in Callers : s2[d] \in Limiter!Caller
  BY DEF LInv, Limiter!TypeOK
<1>5. \A d \in Callers : s2[d].tokens \in Nat /\ s2[d].tokens \in Limiter!Sizes /\ s2[d].wait \in 0..Window
  BY <1>4, LimiterAssumed DEF Limiter!Caller, Limiter!Sizes
<1>6. Limiter!TimeUntilCapacity(s2[c].tokens) \in 0..Window
  BY <1>3, <1>5, SleepIsBounded
<1>7. /\ s2' \in [Callers -> Limiter!Caller]
      /\ s2'[c].tokens = s2[c].tokens /\ s2'[c].wait = Limiter!TimeUntilCapacity(s2[c].tokens)
      /\ s2'[c].step = "asleep"
      /\ \A d \in Callers \ {c} : s2'[d] = s2[d]
  BY <1>3, <1>4, <1>6 DEF LInv, Limiter!TypeOK, Limiter!Caller
<1>8. Limiter!TypeOK' /\ Ordered(s1)' /\ Limiter!WithinBudget'
  BY <1>1, <1>2, <1>3, <1>7 DEF LInv, Limiter!TypeOK, Limiter!WithinBudget, Ordered
<1>9. (s3 = Limiter!Evicted)'
  <2>1. Limiter!Recent(t) = t
    <3> HIDE DEF t
    <3> QED  BY <1>2, AllRecent
  <2>2. Limiter!Evicted' = Limiter!Recent(t)
    BY <1>3 DEF Limiter!Evicted
  <2> HIDE DEF t
  <2> QED  BY <1>1, <1>3, <2>1, <2>2
<1>10. ASSUME NEW d \in Callers, s2'[d].alone, s2'[d].tokens <= MaxTokens
       PROVE  \E n \in 0..Len(s1') : WaitsFor(d, n)'
  <2> HIDE DEF t, x
  <2>1. CASE d = c
    <3>1. s2[c].tokens \in 1..MaxTokens
      BY <1>5, <1>7, <1>10, <2>1, LimiterAssumed DEF Limiter!Sizes
    <3>2. PICK n \in 1..Len(t) :
             /\ Enough(t, n, s2[c].tokens)
             /\ \A m \in 0..Len(t) : m < n => ~ Enough(t, m, s2[c].tokens)
             /\ Limiter!TimeUntilCapacity(s2[c].tokens) = Window - t[n].age
      BY <1>3, <3>1, SleepIsExact DEF t
    <3>3. t[n].age \in 0..Window /\ n \in 0..Len(t) /\ n > 0
      BY <1>2, EventFields
    <3>4. t[n].age + s2'[c].wait = Window
      BY <1>7, <3>2, <3>3, LimiterAssumed
    <3>5. /\ Enough(t, n, s2'[c].tokens)
          /\ \A m \in 0..Len(t) : m < n => ~ Enough(t, m, s2'[c].tokens)
      BY <1>7, <3>2
    <3> QED  BY <1>3, <2>1, <3>3, <3>4, <3>5 DEF WaitsFor, Enough
  <2>2. CASE d # c
    <3>1. s2'[d] = s2[d]
      BY <1>7, <2>2
    <3>2. PICK n \in 0..Len(s1) : WaitsFor(d, n)
      BY <1>10, <3>1 DEF LInv, Waits
    <3>3. \A m \in 0..Len(t) : x + m \in 0..Len(s1) /\
             (Enough(t, m, s2[d].tokens) <=> Enough(s1, x + m, s2[d].tokens))
      BY <1>1, <1>5, EnoughOfRecent DEF t, x, Limiter!Evicted
    <3>4. CASE n <= x
      <4>1. Enough(s1, x, s2[d].tokens)
        BY <1>1, <1>2, <1>5, <3>2, <3>4, EnoughMonotone DEF WaitsFor
      <4>2. 0 \in 0..Len(t) /\ x + 0 = x
        BY <1>2
      <4>3. Enough(t, 0, s2[d].tokens)
        BY <3>3, <4>1, <4>2
      <4>4. s2[d].wait = 0
        <5>1. CASE n = 0
          BY <3>2, <5>1 DEF WaitsFor
        <5>2. CASE n > 0
          <6>1. n \in 1..x
            BY <3>4, <5>2, <1>2
          <6>2. s1[n].age = Window /\ s1[n].age + s2[d].wait = Window
            BY <6>1, <1>2, <3>2, <5>2 DEF WaitsFor
          <6> QED  BY <6>2, <1>5, LimiterAssumed
        <5> QED  BY <5>1, <5>2
      <4>5. \A m \in 0..Len(t) : ~ (m < 0)
        OBVIOUS
      <4> QED  BY <1>3, <3>1, <4>2, <4>3, <4>4, <4>5 DEF WaitsFor, Enough
    <3>5. CASE n > x
      <4>1. n - x \in 1..Len(t) /\ n - x \in 0..Len(t) /\ x + (n - x) = n /\ n > 0
        BY <1>2, <3>5
      <4>2. Enough(t, n - x, s2[d].tokens)
        BY <3>2, <3>3, <4>1 DEF WaitsFor
      <4>3. ASSUME NEW m \in 0..Len(t), m < n - x PROVE ~ Enough(t, m, s2[d].tokens)
        <5>1. x + m \in 0..Len(s1) /\ x + m < n
          BY <1>2, <3>3, <3>5, <4>3
        <5> QED  BY <3>2, <3>3, <5>1 DEF WaitsFor
      <4>4. t[n - x].age + s2[d].wait = Window
        BY <1>2, <3>2, <4>1 DEF WaitsFor
      <4>5. n - x # 0
        BY <4>1
      <4> QED  BY <1>3, <3>1, <4>1, <4>2, <4>3, <4>4, <4>5 DEF WaitsFor, Enough
    <3> QED  BY <3>4, <3>5, <1>2
  <2> QED  BY <2>1, <2>2
<1>11. \A d \in Callers : s2'[d].alone => s2'[d].step \in {"asleep", "waiting"}
  BY <1>7 DEF LInv, Waits
<1>12. Waits'
  BY <1>10, <1>11 DEF Waits
<1> QED  BY <1>8, <1>9, <1>12 DEF LInv

\* A tick makes events older, in their order and with their tokens.
LEMMA OlderIs ==
  ASSUME NEW s \in Seq(Limiter!Event), Ordered(s)
  PROVE  LET t == Limiter!Older(s) IN
         /\ t \in Seq(Limiter!Event) /\ Len(t) = Len(s) /\ Ordered(t)
         /\ \A n \in 1..Len(s) : /\ t[n].age = IF s[n].age < Window THEN s[n].age + 1 ELSE s[n].age
                                 /\ t[n].tokens = s[n].tokens
         /\ \A n \in 0..Len(s) : Limiter!Tokens(t)[n] = Limiter!Tokens(s)[n]
<1> DEFINE t == Limiter!Older(s)
<1>1. \A n \in 1..Len(s) : s[n] \in Limiter!Event /\ s[n].age \in 0..Window /\ s[n].tokens \in 1..MaxTokens
  BY EventFields
<1>2. /\ t = [i \in 1..Len(s) |-> [s[i] EXCEPT !.age = IF @ < Window THEN @ + 1 ELSE @]]
  BY DEF Limiter!Older
<1> HIDE DEF t
<1>3. \A n \in 1..Len(s) : /\ t[n].age = IF s[n].age < Window THEN s[n].age + 1 ELSE s[n].age
                           /\ t[n].tokens = s[n].tokens /\ t[n] \in Limiter!Event
  <2>1. ASSUME NEW n \in 1..Len(s)
        PROVE  /\ t[n].age = IF s[n].age < Window THEN s[n].age + 1 ELSE s[n].age
               /\ t[n].tokens = s[n].tokens /\ t[n] \in Limiter!Event
    <3>1. t[n] = [s[n] EXCEPT !.age = IF s[n].age < Window THEN s[n].age + 1 ELSE s[n].age]
      BY <1>2
    <3>2. (IF s[n].age < Window THEN s[n].age + 1 ELSE s[n].age) \in 0..Window
      BY <1>1, LimiterAssumed
    <3>3. s[n] \in Limiter!Event
      BY <1>1
    <3> QED  BY <3>1, <3>2, <3>3 DEF Limiter!Event
  <2> QED  BY <2>1
<1>4. t \in Seq(Limiter!Event) /\ Len(t) = Len(s)
  <2>1. Len(s) \in Nat /\ t \in [1..Len(s) -> Limiter!Event]
    BY <1>2, <1>3
  <2> QED  BY <2>1
<1>5. Ordered(t)
  BY <1>1, <1>3, <1>4, LimiterAssumed DEF Ordered
<1>6. \A n \in 0..Len(s) : Limiter!Tokens(s)[n] = Limiter!Tokens(t)[n]
  <2>1. Len(s) <= Len(t) /\ \A n \in 1..Len(s) : s[n].tokens = t[n].tokens
    BY <1>3, <1>4
  <2> QED  BY <1>4, <2>1, SameTokens
<1> QED  BY <1>3, <1>4, <1>5, <1>6 DEF t

\* Who is recent after a tick was recent before.
LEMMA RecentOfOlder ==
  ASSUME NEW s \in Seq(Limiter!Event), Ordered(s)
  PROVE  Limiter!Recent(Limiter!Older(Limiter!Recent(s))) = Limiter!Recent(Limiter!Older(s))
<1> DEFINE t == Limiter!Recent(s)
           o == Limiter!Older(s)
           p == Limiter!Older(t)
           x == Limiter!Expired(s)
           z == Limiter!Expired(p)
<1>1. /\ x \in 0..Len(s) /\ t \in Seq(Limiter!Event) /\ Len(t) = Len(s) - x /\ Ordered(t)
      /\ \A n \in 1..x : s[n].age = Window
      /\ \A n \in 1..Len(t) : t[n] = s[x + n]
  BY RecentIs
<1>2. /\ o \in Seq(Limiter!Event) /\ Len(o) = Len(s) /\ Ordered(o)
      /\ \A n \in 1..Len(s) : o[n].age = IF s[n].age < Window THEN s[n].age + 1 ELSE s[n].age
      /\ \A n \in 1..Len(s) : o[n] = [s[n] EXCEPT !.age = IF @ < Window THEN @ + 1 ELSE @]
  BY OlderIs DEF Limiter!Older
<1> HIDE DEF t
<1>3. /\ p \in Seq(Limiter!Event) /\ Len(p) = Len(t) /\ Ordered(p)
      /\ \A n \in 1..Len(t) : p[n] = [t[n] EXCEPT !.age = IF @ < Window THEN @ + 1 ELSE @]
  BY <1>1, OlderIs DEF Limiter!Older
<1> HIDE DEF p
<1>4. z \in 0..Len(p) /\ (\A n \in 1..z : p[n].age = Window) /\ (z < Len(p) => p[z + 1].age # Window)
  BY <1>3, ExpiredIs
<1> HIDE DEF o, x, z
<1>5. \A n \in 1..Len(p) : x + n \in 1..Len(o) /\ p[n] = o[x + n]
  BY <1>1, <1>2, <1>3
<1>6. x + z \in 0..Len(o)
  BY <1>1, <1>2, <1>3, <1>4
<1>7. x + z > 0 => o[x + z].age = Window
  <2>1. CASE z > 0
    <3>1. z \in 1..z /\ z \in 1..Len(p)
      BY <1>4, <2>1
    <3> QED  BY <3>1, <1>4, <1>5
  <2>2. CASE z = 0 /\ x > 0
    <3>1. x \in 1..x /\ x \in 1..Len(s) /\ x + z = x
      BY <1>1, <2>2
    <3> QED  BY <3>1, <1>1, <1>2, LimiterAssumed
  <2> QED  BY <2>1, <2>2, <1>1, <1>4
<1>8. x + z < Len(o) => o[x + z + 1].age # Window
  <2> SUFFICES ASSUME x + z < Len(o) PROVE o[x + z + 1].age # Window
    OBVIOUS
  <2>1. z < Len(p) /\ z + 1 \in 1..Len(p) /\ x + (z + 1) = x + z + 1
    BY <1>1, <1>2, <1>3, <1>4
  <2> QED  BY <2>1, <1>4, <1>5
<1>9. Limiter!Expired(o) = x + z
  BY <1>2, <1>6, <1>7, <1>8, ExpiredAt
<1>10. /\ Limiter!Recent(o) \in Seq(Limiter!Event) /\ Len(Limiter!Recent(o)) = Len(o) - (x + z)
       /\ \A n \in 1..Len(Limiter!Recent(o)) : Limiter!Recent(o)[n] = o[x + z + n]
  BY <1>2, <1>9, RecentIs
<1>11. /\ Limiter!Recent(p) \in Seq(Limiter!Event) /\ Len(Limiter!Recent(p)) = Len(p) - z
       /\ \A n \in 1..Len(Limiter!Recent(p)) : Limiter!Recent(p)[n] = p[z + n]
  BY <1>3, RecentIs DEF z
<1>12. Len(Limiter!Recent(p)) = Len(Limiter!Recent(o))
  BY <1>1, <1>2, <1>3, <1>4, <1>10, <1>11
<1>13. ASSUME NEW n \in 1..Len(Limiter!Recent(p)) PROVE Limiter!Recent(p)[n] = Limiter!Recent(o)[n]
  <2>1. z + n \in 1..Len(p) /\ x + (z + n) = x + z + n
    BY <1>1, <1>4, <1>3, <1>11
  <2> QED  BY <2>1, <1>5, <1>10, <1>11, <1>12
<1>14. Limiter!Recent(p) = Limiter!Recent(o)
  BY <1>10, <1>11, <1>12, <1>13, SeqEqual
<1> QED  BY <1>14 DEF p, o, t

LEMMA LimiterTick == ASSUME LInv, Limiter!Tick PROVE LInv'
<1>1. s1 \in Seq(Limiter!Event) /\ Ordered(s1) /\ s3 = Limiter!Recent(s1)
  BY DEF LInv, Limiter!TypeOK, Limiter!Evicted
<1>2. /\ s1' = Limiter!Older(s1) /\ s3' = Limiter!Recent(Limiter!Older(s3))
      /\ s2' = [c \in Callers |-> [s2[c] EXCEPT !.wait = IF @ > 0 THEN @ - 1 ELSE 0]]
  BY DEF Limiter!Tick
<1>3. /\ s1' \in Seq(Limiter!Event) /\ Len(s1') = Len(s1) /\ Ordered(s1')
      /\ \A n \in 1..Len(s1) : s1'[n].age = IF s1[n].age < Window THEN s1[n].age + 1 ELSE s1[n].age
      /\ \A n \in 0..Len(s1) : Limiter!Tokens(s1')[n] = Limiter!Tokens(s1)[n]
  BY <1>1, <1>2, OlderIs
<1>4. s3' = Limiter!Recent(s1')
  BY <1>1, <1>2, RecentOfOlder
<1>5. s3' \in Seq(Limiter!Event)
  BY <1>3, <1>4, RecentIs
<1>6. \A c \in Callers : s2[c] \in Limiter!Caller
  BY DEF LInv, Limiter!TypeOK
<1>7. ASSUME NEW c \in Callers
      PROVE  /\ s2'[c] \in Limiter!Caller /\ s2'[c].tokens = s2[c].tokens /\ s2'[c].step = s2[c].step
             /\ s2'[c].alone = s2[c].alone /\ s2[c].wait \in 0..Window
             /\ s2'[c].wait = IF s2[c].wait > 0 THEN s2[c].wait - 1 ELSE 0
  <2>1. s2'[c] = [s2[c] EXCEPT !.wait = IF s2[c].wait > 0 THEN s2[c].wait - 1 ELSE 0]
    BY <1>2
  <2>2. s2[c] \in Limiter!Caller /\ s2[c].wait \in 0..Window
    BY <1>6 DEF Limiter!Caller
  <2>3. (IF s2[c].wait > 0 THEN s2[c].wait - 1 ELSE 0) \in 0..Window
    BY <2>2, LimiterAssumed
  <2> QED  BY <2>1, <2>2, <2>3 DEF Limiter!Caller
<1>8. Limiter!TypeOK'
  BY <1>2, <1>3, <1>5, <1>7 DEF Limiter!TypeOK
<1>9. Limiter!WithinBudget'
  <2> DEFINE p == Limiter!Older(s3)
             z == Limiter!Expired(p)
  <2>1. s3 \in Seq(Limiter!Event) /\ Ordered(s3)
    BY <1>1, RecentIs
  <2>2. /\ p \in Seq(Limiter!Event) /\ Len(p) = Len(s3) /\ Ordered(p)
        /\ \A n \in 0..Len(s3) : Limiter!Tokens(p)[n] = Limiter!Tokens(s3)[n]
    BY <2>1, OlderIs
  <2>3. s3' = Limiter!Recent(p)
    BY <1>2
  <2> HIDE DEF p
  <2>4. /\ z \in 0..Len(p) /\ s3' \in Seq(Limiter!Event) /\ Len(s3') = Len(p) - z
        /\ \A n \in 0..Len(s3') : Limiter!Tokens(s3')[n] = Limiter!Tokens(p)[z + n] - Limiter!Tokens(p)[z]
    BY <2>2, <2>3, RecentIs
  <2> HIDE DEF z
  <2>5. Limiter!Tokens(s3)[Len(s3)] <= MaxTokens /\ Len(s3) <= MaxRequests
    BY DEF LInv, Limiter!WithinBudget, Limiter!Total
  <2>6. \A n \in 0..Len(s3) : Limiter!Tokens(s3)[n] \in Nat
    BY <2>1, TokensGrow
  <2>7. Len(s3') \in 0..Len(s3') /\ z + Len(s3') = Len(s3) /\ Len(s3) \in 0..Len(s3) /\ z \in 0..Len(s3)
    BY <2>2, <2>4
  <2>8. Limiter!Tokens(s3')[Len(s3')] = Limiter!Tokens(s3)[Len(s3)] - Limiter!Tokens(s3)[z]
    BY <2>2, <2>4, <2>7
  <2> QED  BY <2>2, <2>4, <2>5, <2>6, <2>7, <2>8, LimiterAssumed DEF Limiter!WithinBudget, Limiter!Total
<1>10. \A tokens : \A n \in 0..Len(s1) : Enough(s1', n, tokens) <=> Enough(s1, n, tokens)
  <2>1. Len(s1) \in 0..Len(s1)
    BY <1>1
  <2> QED  BY <2>1, <1>3 DEF Enough, Limiter!Total
<1>11. ASSUME NEW c \in Callers, NEW n \in 0..Len(s1), WaitsFor(c, n) PROVE WaitsFor(c, n)'
  <2>1. /\ Enough(s1', n, s2'[c].tokens)
        /\ \A m \in 0..Len(s1') : m < n => ~ Enough(s1', m, s2'[c].tokens)
    BY <1>3, <1>7, <1>10, <1>11 DEF WaitsFor
  <2>2. n = 0 => s2'[c].wait = 0
    BY <1>7, <1>11 DEF WaitsFor
  <2>3. n > 0 => s1'[n].age + s2'[c].wait = Window
    <3>1. SUFFICES ASSUME n > 0 PROVE s1'[n].age + s2'[c].wait = Window
      OBVIOUS
    <3>2. n \in 1..Len(s1) /\ s1[n].age + s2[c].wait = Window
      BY <1>11, <3>1 DEF WaitsFor
    <3>3. s1[n].age \in 0..Window
      BY <1>1, <3>2, EventFields
    <3> QED  BY <1>3, <1>7, <3>2, <3>3, LimiterAssumed
  <2> QED  BY <2>1, <2>2, <2>3 DEF WaitsFor, Enough
<1>12. Waits'
  BY <1>3, <1>7, <1>11 DEF LInv, Waits
<1> QED  BY <1>3, <1>4, <1>8, <1>9, <1>12 DEF LInv, Limiter!Evicted, Ordered

LEMMA LimiterNext == ASSUME LInv, [Limiter!Next]_(Limiter!vars) PROVE LInv'
<1>1. ASSUME UNCHANGED Limiter!vars PROVE LInv'
  <2>1. s1' = s1 /\ s2' = s2 /\ s3' = s3
    BY <1>1 DEF Limiter!vars
  <2>2. ASSUME NEW c \in Callers, NEW n PROVE WaitsFor(c, n) => WaitsFor(c, n)'
    BY <2>1 DEF WaitsFor, Enough
  <2> QED  BY <2>1, <2>2 DEF LInv, Limiter!TypeOK, Limiter!WithinBudget, Limiter!Evicted, Ordered, Waits
<1> QED  BY <1>1, CallKeeps, GrantKeeps, SleepKeeps, LimiterTick DEF Limiter!Next

\* Who waits for events to leave finds room exactly when they have.
LEMMA LimiterWaits == ASSUME LInv PROVE Limiter!WaitIsExact
<1>1. SUFFICES ASSUME NEW c \in Callers, s2[c].alone, s2[c].tokens <= MaxTokens
               PROVE  s2[c].wait = 0 <=> Limiter!Fits(s2[c].tokens)
  BY DEF Limiter!WaitIsExact
<1> DEFINE x == Limiter!Expired(s1)
<1>2. s1 \in Seq(Limiter!Event) /\ Ordered(s1) /\ s2[c] \in Limiter!Caller
  BY DEF LInv, Limiter!TypeOK
<1>3. s2[c].tokens \in Nat /\ s2[c].wait \in 0..Window
  BY <1>2, LimiterAssumed DEF Limiter!Caller, Limiter!Sizes
<1>4. PICK n \in 0..Len(s1) : WaitsFor(c, n)
  BY <1>1 DEF LInv, Waits
<1>5. Limiter!Fits(s2[c].tokens) <=> Enough(s1, x, s2[c].tokens)
  BY <1>3, FitsIs DEF LInv
<1>6. x \in 0..Len(s1) /\ (\A i \in 1..x : s1[i].age = Window) /\ (x < Len(s1) => s1[x + 1].age # Window)
  BY <1>2, ExpiredIs
<1>7. \A i \in 1..Len(s1) : s1[i].age \in 0..Window
  BY <1>2, EventFields
<1> HIDE DEF x
<1>8. CASE n <= x
  <2>1. Enough(s1, x, s2[c].tokens)
    BY <1>2, <1>3, <1>4, <1>6, <1>8, EnoughMonotone DEF WaitsFor
  <2>2. n > 0 => n \in 1..x
    BY <1>6, <1>8
  <2>3. s2[c].wait = 0
    BY <2>2, <1>3, <1>4, <1>6, LimiterAssumed DEF WaitsFor
  <2> QED  BY <2>1, <2>3, <1>5
<1>9. CASE n > x
  <2>1. ~ Enough(s1, x, s2[c].tokens)
    BY <1>4, <1>6, <1>9 DEF WaitsFor
  <2>2. n \in 1..Len(s1) /\ x + 1 \in 1..Len(s1) /\ x + 1 <= n /\ x < Len(s1) /\ n > 0
    BY <1>6, <1>9
  <2>3. s1[n].age <= s1[x + 1].age /\ s1[x + 1].age # Window
    BY <2>2, <1>2, <1>6 DEF Ordered
  <2>4. s1[n].age + s2[c].wait = Window
    BY <2>2, <1>4 DEF WaitsFor
  <2>5. s2[c].wait # 0
    BY <2>2, <2>3, <2>4, <1>3, <1>7, LimiterAssumed
  <2> QED  BY <2>1, <2>5, <1>5
<1> QED  BY <1>6, <1>8, <1>9

-----------------------------------------------------------------------------
(* ConnectorHttp.  (s1 is request, s2 asked, s3 breaker, s4 sent.)          *)

\* The client knows when a host was last asked.
AskedIsSent == s2 = s4

\* Whoever sleeps has the lock.
OneSleeper ==
  \A r, q \in Requests : s1[r].step = "asleep" /\ s1[q].step = "asleep" => r = q

\* At the end of its sleep the host was left alone for the whole interval.
SleepsLongEnough ==
  \A r \in Requests : s1[r].step = "asleep" => s2[s1[r].host] + s1[r].wait >= MinInterval

\* A request backs off when it has attempts left.
AttemptsLeft == \A r \in Requests : s1[r].step = "backoff" => s1[r].attempt < MaxRetries

HInv == Http!TypeOK /\ AskedIsSent /\ OneSleeper /\ SleepsLongEnough /\ AttemptsLeft

LEMMA HttpAssumption ==
  /\ MaxConcurrency \in Nat \ {0} /\ MaxRetries \in Nat /\ MaxRedirects \in Nat
  /\ MinInterval \in Nat /\ HostThreshold \in Nat \ {0} /\ Cooldown \in Nat \ {0}
BY ServicesAssumption DEF Http!ClientAssumption

\* At the start everyone is idle and every host may be asked.
LEMMA HttpInit == ASSUME Http!Init PROVE HInv
<1>1. s1 \in [Requests -> Http!Request]
  BY HttpAssumption DEF Http!Init, Http!Request, Http!Steps
<1>2. Http!TypeOK /\ AskedIsSent
  BY <1>1, HttpAssumption DEF Http!Init, Http!TypeOK, Http!Breaker, AskedIsSent
<1>3. \A r \in Requests : s1[r].step = "idle"
  BY DEF Http!Init
<1> QED  BY <1>2, <1>3 DEF HInv, OneSleeper, SleepsLongEnough, AttemptsLeft

\* One request takes a step that is not to sleep, and no host is asked.
LEMMA RequestMoves ==
  ASSUME HInv, NEW r \in Requests, NEW t \in Http!Request,
         s1' = [s1 EXCEPT ![r] = t], UNCHANGED <<s2, s4>>, s3' \in [Hosts -> Http!Breaker],
         t.step # "asleep", t.step = "backoff" => t.attempt < MaxRetries
  PROVE  HInv'
<1>1. s1 \in [Requests -> Http!Request] /\ s1' \in [Requests -> Http!Request]
  BY DEF HInv, Http!TypeOK
<1>2. Http!TypeOK' /\ AskedIsSent'
  BY <1>1 DEF HInv, Http!TypeOK, AskedIsSent
<1>3. \A q \in Requests : s1'[q].step = "asleep" => s1'[q] = s1[q]
  BY <1>1
<1>4. AttemptsLeft'
  BY <1>1 DEF HInv, AttemptsLeft
<1> QED  BY <1>2, <1>3, <1>4 DEF HInv, OneSleeper, SleepsLongEnough

\* What the breakers' records become.
LEMMA BreakerTypes ==
  ASSUME Http!TypeOK, NEW h \in Hosts
  PROVE  /\ Http!RecordSuccess(h) \in [Hosts -> Http!Breaker]
         /\ Http!RecordFailure(h) \in [Hosts -> Http!Breaker]
<1>1. s3[h] \in Http!Breaker /\ s3 \in [Hosts -> Http!Breaker]
  BY DEF Http!TypeOK
<1>2. [failures |-> 0, open |-> FALSE, cold |-> 0] \in Http!Breaker
  BY HttpAssumption DEF Http!Breaker
<1>3. Http!Counted(s3[h].failures) \in 0..HostThreshold
  BY <1>1, HttpAssumption DEF Http!Counted, Http!Breaker
<1>4. [failures |-> Http!Counted(s3[h].failures), open |-> TRUE, cold |-> 0] \in Http!Breaker
  BY <1>3, HttpAssumption DEF Http!Breaker
<1>5. [s3[h] EXCEPT !.failures = Http!Counted(s3[h].failures)] \in Http!Breaker
  BY <1>1, <1>3 DEF Http!Breaker
<1> QED  BY <1>1, <1>2, <1>4, <1>5 DEF Http!RecordSuccess, Http!RecordFailure

\* Everything but sleeping, sending and the clock.
LEMMA HttpMoves ==
  ASSUME HInv, NEW r \in Requests,
         \/ Http!Start(r) \/ Http!Check(r) \/ Http!TakeSlot(r) \/ Http!Answer(r)
         \/ (\E h \in Hosts : Http!Redirect(r, h)) \/ Http!Fail(r) \/ Http!Retry(r) \/ Http!Raise(r)
  PROVE  HInv'
<1>1. /\ s1[r] \in Http!Request /\ s1 \in [Requests -> Http!Request]
      /\ s3 \in [Hosts -> Http!Breaker] /\ s1[r].host \in Hosts
  BY DEF HInv, Http!TypeOK, Http!Request
<1>2. ASSUME NEW step \in Http!Steps \ {"asleep"}, Http!Step(r, step),
             UNCHANGED <<s2, s4>>, s3' \in [Hosts -> Http!Breaker],
             step = "backoff" => s1[r].attempt < MaxRetries
      PROVE  HInv'
  <2>1. /\ [s1[r] EXCEPT !.step = step] \in Http!Request
        /\ [s1[r] EXCEPT !.step = step].step = step
        /\ [s1[r] EXCEPT !.step = step].attempt = s1[r].attempt
    BY <1>1 DEF Http!Request
  <2>2. s1' = [s1 EXCEPT ![r] = [s1[r] EXCEPT !.step = step]]
    BY <1>2 DEF Http!Step
  <2> QED  BY <1>2, <2>1, <2>2, RequestMoves
<1>3. CASE Http!Start(r) \/ Http!TakeSlot(r)
  <2>1. UNCHANGED <<s2, s3, s4>> /\ (Http!Step(r, "check") \/ Http!Step(r, "lock"))
    BY <1>3 DEF Http!Start, Http!TakeSlot
  <2> QED  BY <1>1, <1>2, <2>1 DEF Http!Steps
<1>4. CASE Http!Check(r)
  <2>1. [failures |-> HostThreshold - 1, open |-> FALSE, cold |-> 0] \in Http!Breaker
    BY HttpAssumption DEF Http!Breaker
  <2>2. s3' \in [Hosts -> Http!Breaker]
    BY <1>1, <1>4, <2>1 DEF Http!Check
  <2>3. UNCHANGED <<s2, s4>> /\ (Http!Step(r, "done") \/ Http!Step(r, "slot"))
    BY <1>4 DEF Http!Check
  <2> QED  BY <1>2, <2>2, <2>3 DEF Http!Steps
<1>5. CASE Http!Answer(r)
  <2>1. UNCHANGED <<s2, s4>> /\ Http!Step(r, "done") /\ s3' = Http!RecordSuccess(s1[r].host)
    BY <1>5 DEF Http!Answer
  <2> QED  BY <1>1, <1>2, <2>1, BreakerTypes DEF Http!Steps, HInv
<1>6. CASE Http!Fail(r)
  <2>1. UNCHANGED <<s2, s4>> /\ s3' = Http!RecordFailure(s1[r].host)
    BY <1>6 DEF Http!Fail
  <2>2. s3' \in [Hosts -> Http!Breaker]
    BY <1>1, <2>1, BreakerTypes DEF HInv
  <2>3. \/ Http!Step(r, "done")
        \/ Http!Step(r, "backoff") /\ s1[r].attempt < MaxRetries
    BY <1>1, <1>6, HttpAssumption DEF Http!Fail, Http!Request
  <2> QED  BY <1>2, <2>1, <2>2, <2>3 DEF Http!Steps
<1>7. ASSUME NEW h \in Hosts, Http!Redirect(r, h) PROVE HInv'
  <2> DEFINE hop == Http!NextHop(r, h)
  <2>1. hop \in Nat
    BY <1>1, HttpAssumption DEF Http!NextHop, Http!Request
  <2>2. UNCHANGED <<s2, s4>> /\ s3' = Http!RecordSuccess(s1[r].host)
    BY <1>7 DEF Http!Redirect
  <2>3. s3' \in [Hosts -> Http!Breaker]
    BY <1>1, <2>2, BreakerTypes DEF HInv
  <2>4. CASE hop > MaxRedirects
    <3>1. s1' = [s1 EXCEPT ![r] = [s1[r] EXCEPT !.step = "done"]]
      BY <1>7, <2>4 DEF Http!Redirect
    <3>2. /\ [s1[r] EXCEPT !.step = "done"] \in Http!Request
          /\ [s1[r] EXCEPT !.step = "done"].step = "done"
      BY <1>1 DEF Http!Request, Http!Steps
    <3> QED  BY <2>2, <2>3, <3>1, <3>2, RequestMoves
  <2>5. CASE ~(hop > MaxRedirects)
    <3> DEFINE t == [s1[r] EXCEPT !.step = "check", !.host = h, !.attempt = 0, !.hop = hop]
    <3>1. s1' = [s1 EXCEPT ![r] = t]
      BY <1>7, <2>5 DEF Http!Redirect
    <3>2. hop \in 0..MaxRedirects /\ 0 \in 0..MaxRetries
      BY <2>1, <2>5, HttpAssumption
    <3> HIDE DEF hop
    <3>3. t \in Http!Request /\ t.step = "check"
      BY <1>1, <3>2 DEF Http!Request, Http!Steps
    <3> QED  BY <2>2, <2>3, <3>1, <3>3, RequestMoves
  <2> QED  BY <2>4, <2>5
<1>8. CASE Http!Retry(r)
  <2> DEFINE t == [s1[r] EXCEPT !.step = "check", !.attempt = s1[r].attempt + 1]
  <2>1. s1' = [s1 EXCEPT ![r] = t] /\ UNCHANGED <<s2, s3, s4>>
    BY <1>1, <1>8 DEF Http!Retry
  <2>2. s1[r].attempt + 1 \in 0..MaxRetries
    <3>1. s1[r].attempt < MaxRetries
      BY <1>8 DEF Http!Retry, HInv, AttemptsLeft
    <3> QED  BY <1>1, <3>1, HttpAssumption DEF Http!Request
  <2>3. t \in Http!Request /\ t.step = "check"
    BY <1>1, <2>2 DEF Http!Request, Http!Steps
  <2> QED  BY <1>1, <2>1, <2>3, RequestMoves
<1>9. CASE Http!Raise(r)
  <2> DEFINE t == [s1[r] EXCEPT !.step = "done", !.wait = 0]
  <2>1. s1' = [s1 EXCEPT ![r] = t] /\ UNCHANGED <<s2, s3, s4>>
    BY <1>1, <1>9 DEF Http!Raise
  <2>2. 0 \in 0..MinInterval
    BY HttpAssumption
  <2>3. t \in Http!Request /\ t.step = "done"
    BY <1>1, <2>2 DEF Http!Request, Http!Steps
  <2> QED  BY <1>1, <2>1, <2>3, RequestMoves
<1> QED  BY <1>3, <1>4, <1>5, <1>6, <1>7, <1>8, <1>9

\* A request that has the lock computes how long to sleep.
LEMMA ThrottleMoves == ASSUME HInv, NEW r \in Requests, Http!Throttle(r) PROVE HInv'
<1> DEFINE h == s1[r].host
           wait == MinInterval - s2[h]
<1>1. /\ s1[r] \in Http!Request /\ s1 \in [Requests -> Http!Request] /\ h \in Hosts
      /\ s2[h] \in 0..MinInterval
  BY DEF HInv, Http!TypeOK, Http!Request
<1>2. wait \in 0..MinInterval /\ s2[h] + wait >= MinInterval
  BY <1>1, HttpAssumption
<1>3. s1' = [s1 EXCEPT ![r] = [s1[r] EXCEPT !.step = "asleep", !.wait = wait]]
      /\ UNCHANGED <<s2, s3, s4>>
  BY <1>1 DEF Http!Throttle
<1>4. \A q \in Requests : s1[q].step # "asleep"
  BY DEF Http!Throttle, Http!LockFree
<1> HIDE DEF wait
<1>5. /\ [s1[r] EXCEPT !.step = "asleep", !.wait = wait] \in Http!Request
      /\ s1'[r].step = "asleep" /\ s1'[r].host = h /\ s1'[r].wait = wait
  BY <1>1, <1>2, <1>3 DEF Http!Request, Http!Steps
<1>6. \A q \in Requests \ {r} : s1'[q] = s1[q]
  BY <1>1, <1>3
<1>7. s1' \in [Requests -> Http!Request]
  BY <1>1, <1>3, <1>5
<1>8. Http!TypeOK' /\ AskedIsSent'
  BY <1>3, <1>7 DEF HInv, Http!TypeOK, AskedIsSent
<1>9. OneSleeper' /\ SleepsLongEnough' /\ AttemptsLeft'
  BY <1>2, <1>3, <1>4, <1>5, <1>6 DEF HInv, OneSleeper, SleepsLongEnough, AttemptsLeft
<1> QED  BY <1>8, <1>9 DEF HInv

\* It goes out when its host was left alone, and nobody else sleeps then.
LEMMA SendMoves ==
  ASSUME HInv, NEW r \in Requests, Http!Send(r)
  PROVE  HInv' /\ s4[s1[r].host] >= MinInterval
<1> DEFINE h == s1[r].host
<1>1. /\ s1[r] \in Http!Request /\ s1 \in [Requests -> Http!Request] /\ h \in Hosts
      /\ s2[h] \in 0..MinInterval /\ 0 \in 0..MinInterval
  BY HttpAssumption DEF HInv, Http!TypeOK, Http!Request
<1>2. s4[h] >= MinInterval
  BY <1>1, HttpAssumption DEF Http!Send, HInv, AskedIsSent, SleepsLongEnough
<1>3. /\ s1' = [s1 EXCEPT ![r] = [s1[r] EXCEPT !.step = "sent"]]
      /\ s2' = [s2 EXCEPT ![h] = 0] /\ s4' = [s4 EXCEPT ![h] = 0] /\ UNCHANGED s3
  BY DEF Http!Send, Http!Step
<1>4. [s1[r] EXCEPT !.step = "sent"] \in Http!Request /\ s1'[r].step = "sent"
  BY <1>1, <1>3 DEF Http!Request, Http!Steps
<1>5. \A q \in Requests \ {r} : s1'[q] = s1[q] /\ s1[q].step # "asleep"
  BY <1>1, <1>3 DEF Http!Send, HInv, OneSleeper
<1>6. s1' \in [Requests -> Http!Request]
  BY <1>1, <1>3, <1>4
<1>7. Http!TypeOK' /\ AskedIsSent'
  BY <1>1, <1>3, <1>6 DEF HInv, Http!TypeOK, AskedIsSent
<1>8. OneSleeper' /\ SleepsLongEnough' /\ AttemptsLeft'
  BY <1>4, <1>5 DEF HInv, OneSleeper, SleepsLongEnough, AttemptsLeft
<1> QED  BY <1>2, <1>7, <1>8 DEF HInv

\* A tick shortens the sleep by what it adds to the host's rest.
LEMMA HttpTick == ASSUME HInv, Http!Tick PROVE HInv'
<1>1. /\ s1 \in [Requests -> Http!Request] /\ s2 \in [Hosts -> 0..MinInterval]
      /\ s3 \in [Hosts -> Http!Breaker] /\ s4 \in [Hosts -> 0..MinInterval]
  BY DEF HInv, Http!TypeOK
<1>2. \A r \in Requests :
        /\ s1'[r] \in Http!Request /\ s1'[r].step = s1[r].step /\ s1'[r].host = s1[r].host
        /\ s1'[r].attempt = s1[r].attempt
        /\ s1'[r].wait = IF s1[r].wait > 0 THEN s1[r].wait - 1 ELSE 0
  <2> SUFFICES ASSUME NEW r \in Requests
      PROVE  /\ s1'[r] \in Http!Request /\ s1'[r].step = s1[r].step /\ s1'[r].host = s1[r].host
             /\ s1'[r].attempt = s1[r].attempt
             /\ s1'[r].wait = IF s1[r].wait > 0 THEN s1[r].wait - 1 ELSE 0
    OBVIOUS
  <2> DEFINE wait == IF s1[r].wait > 0 THEN s1[r].wait - 1 ELSE 0
  <2>1. s1[r] \in Http!Request
    BY <1>1
  <2>2. wait \in 0..MinInterval
    BY <2>1, HttpAssumption DEF Http!Request
  <2>3. s1'[r] = [s1[r] EXCEPT !.wait = wait]
    BY <2>1 DEF Http!Tick
  <2> HIDE DEF wait
  <2>4. /\ s1'[r] \in Http!Request /\ s1'[r].step = s1[r].step /\ s1'[r].host = s1[r].host
        /\ s1'[r].attempt = s1[r].attempt /\ s1'[r].wait = wait
    BY <2>1, <2>2, <2>3 DEF Http!Request
  <2> QED  BY <2>4 DEF wait
<1>3. s1' \in [Requests -> Http!Request]
  BY <1>2 DEF Http!Tick
<1>4. \A h \in Hosts : /\ s2'[h] = IF s2[h] < MinInterval THEN s2[h] + 1 ELSE s2[h]
                       /\ s2'[h] \in 0..MinInterval
  BY <1>1, HttpAssumption DEF Http!Tick, Http!Older
<1>5. s2' \in [Hosts -> 0..MinInterval] /\ s4' = s2'
  BY <1>1, <1>4 DEF Http!Tick, HInv, AskedIsSent
<1>6. s3' \in [Hosts -> Http!Breaker]
  <2>1. ASSUME NEW h \in Hosts
        PROVE  [s3[h] EXCEPT !.cold = Http!Older(s3[h].cold, Cooldown)] \in Http!Breaker
    <3>1. s3[h] \in Http!Breaker
      BY <1>1
    <3>2. Http!Older(s3[h].cold, Cooldown) \in 0..Cooldown
      BY <3>1, HttpAssumption DEF Http!Older, Http!Breaker
    <3> QED  BY <3>1, <3>2 DEF Http!Breaker
  <2> QED  BY <1>1, <2>1 DEF Http!Tick
<1>7. Http!TypeOK' /\ AskedIsSent'
  BY <1>3, <1>5, <1>6 DEF Http!TypeOK, AskedIsSent
<1>8. OneSleeper' /\ AttemptsLeft'
  BY <1>2 DEF HInv, OneSleeper, AttemptsLeft
<1>9. SleepsLongEnough'
  <2> SUFFICES ASSUME NEW r \in Requests, s1[r].step = "asleep"
               PROVE  s2'[s1[r].host] + s1'[r].wait >= MinInterval
    BY <1>2 DEF SleepsLongEnough
  <2>1. s1[r] \in Http!Request
    BY <1>1
  <2>2. s1[r].host \in Hosts /\ s1[r].wait \in 0..MinInterval
    BY <2>1 DEF Http!Request
  <2>3. s2[s1[r].host] + s1[r].wait >= MinInterval /\ s2[s1[r].host] \in 0..MinInterval
    BY <1>1, <2>2 DEF HInv, SleepsLongEnough
  <2> QED  BY <1>2, <1>4, <2>2, <2>3, HttpAssumption
<1> QED  BY <1>7, <1>8, <1>9 DEF HInv

LEMMA HttpNext == ASSUME HInv, [Http!Next]_(Http!vars) PROVE HInv'
<1>1. ASSUME UNCHANGED Http!vars PROVE HInv'
  BY <1>1 DEF Http!vars, HInv, Http!TypeOK, AskedIsSent, OneSleeper, SleepsLongEnough, AttemptsLeft
<1> QED
  BY <1>1, HttpMoves, ThrottleMoves, SendMoves, HttpTick DEF Http!Next, Http!Progress

\* Nothing but Send sends.
LEMMA HttpDistance == ASSUME HInv, [Http!Next]_(Http!vars) PROVE Http!KeepsDistance
<1> SUFFICES ASSUME NEW r \in Requests, s1[r].step # "sent", s1'[r].step = "sent"
             PROVE  s4[s1[r].host] >= MinInterval
  BY DEF Http!KeepsDistance
<1>1. s1 \in [Requests -> Http!Request] /\ s1[r] \in Http!Request
  BY DEF HInv, Http!TypeOK
<1>2. CASE Http!Send(r)
  BY <1>2, SendMoves
<1>3. ASSUME NEW q \in Requests \ {r}, Http!Start(q) \/ Http!Progress(q) \/ Http!Raise(q)
      PROVE  s1'[r] = s1[r]
  BY <1>1, <1>3 DEF Http!Start, Http!Progress, Http!Check, Http!TakeSlot, Http!Throttle, Http!Send,
     Http!Answer, Http!Redirect, Http!Fail, Http!Retry, Http!Raise, Http!Step
<1>4. ASSUME Http!Tick PROVE s1'[r].step = s1[r].step
  BY <1>1, <1>4 DEF Http!Tick, Http!Request
<1>5. ASSUME \/ Http!Start(r) \/ Http!Check(r) \/ Http!TakeSlot(r) \/ Http!Answer(r) \/ Http!Fail(r)
             \/ (\E h \in Hosts : Http!Redirect(r, h)) \/ Http!Retry(r) \/ Http!Raise(r)
             \/ Http!Throttle(r)
      PROVE  s1'[r].step # "sent"
  <2>1. ASSUME NEW step \in Http!Steps, Http!Step(r, step) PROVE s1'[r].step = step
    BY <1>1, <2>1 DEF Http!Step, Http!Request
  <2>2. CASE Http!Start(r) \/ Http!Check(r) \/ Http!TakeSlot(r)
    BY <2>1, <2>2 DEF Http!Start, Http!Check, Http!TakeSlot, Http!Steps
  <2>3. CASE Http!Answer(r) \/ Http!Fail(r)
    BY <2>1, <2>3 DEF Http!Answer, Http!Fail, Http!Steps
  <2>4. CASE Http!Retry(r) \/ Http!Raise(r) \/ Http!Throttle(r)
    BY <1>1, <2>4 DEF Http!Retry, Http!Raise, Http!Throttle, Http!Request
  <2>5. CASE \E h \in Hosts : Http!Redirect(r, h)
    BY <1>1, <2>5 DEF Http!Redirect, Http!Request
  <2> QED  BY <1>5, <2>2, <2>3, <2>4, <2>5
<1> QED  BY <1>2, <1>3, <1>4, <1>5 DEF Http!Next, Http!Progress, Http!vars

-----------------------------------------------------------------------------
(* WebCrawl.  (s1 is page, s2 queue, s3 queued, s4 found, s5 crawl.)        *)

\* The queue is in order of distance, and what was found is not further than what it has.
InOrder ==
  /\ \A i, j \in 1..Len(s2) : i <= j => s2[i].depth <= s2[j].depth /\ s2[j].depth <= s2[i].depth + 1
  /\ \A i \in 1..Len(s4), j \in 1..Len(s2) : s4[i].depth <= s2[j].depth

\* A URL is queued once, and then requested, or left out for good.
Waiting(u) == \E i \in 1..Len(s2) : s2[i].url = u
QueuedOnce ==
  /\ \A i, j \in 1..Len(s2) : s2[i].url = s2[j].url => i = j
  /\ \A i \in 1..Len(s2) : s2[i].url \in s3
  /\ \A u \in Urls : s1[u].answer # "none" <=> u \in s3 \ Outside /\ ~ Waiting(u)
  /\ \A i \in 1..Len(s4) : s1[s4[i].url].answer # "none"

\* Everything is where it is because there is no shorter way to it.
At(x) == x.url \in Crawl!Within[x.depth] /\ (x.depth > 0 => x.url \notin Crawl!Within[x.depth - 1])
AtDistance ==
  /\ \A i \in 1..Len(s2) : At(s2[i])
  /\ \A i \in 1..Len(s4) : At(s4[i])

\* What is in reach has been queued, and nothing else.
ReachIsQueued == Crawl!Within[MaxDepth] = s3

\* A crawl ends with nothing left to do, or with all it may find.
CrawlEnds == s5 = "complete" => s2 = <<>> \/ Len(s4) >= Limit

WInv == Crawl!TypeOK /\ InOrder /\ QueuedOnce /\ AtDistance /\ ReachIsQueued /\ CrawlEnds

LEMMA CrawlAssumed ==
  /\ Outside \subseteq Urls /\ Seeds \in Seq(Urls) /\ \A i, j \in 1..Len(Seeds) : Seeds[i] = Seeds[j] => i = j
  /\ Earlier \union Aliases \subseteq Urls \ Outside
  /\ MaxDepth \in Nat /\ Limit \in Nat \ {0} /\ Nothing \notin Pages
<1>1. Crawl!CrawlAssumption
  BY ServicesAssumption
<1>2. Seeds \in Seq(Urls)
  BY <1>1 DEF Crawl!CrawlAssumption
<1>3. DOMAIN Seeds = 1..Len(Seeds)
  BY <1>2
<1> QED  BY <1>1, <1>3 DEF Crawl!CrawlAssumption

LEMMA StartsAre == Crawl!ToSet(Seeds) = {Seeds[i] : i \in 1..Len(Seeds)} /\ Crawl!ToSet(Seeds) \subseteq Urls
<1>1. Seeds \in Seq(Urls)
  BY CrawlAssumed
<1>2. DOMAIN Seeds = 1..Len(Seeds) /\ \A i \in 1..Len(Seeds) : Seeds[i] \in Urls
  BY <1>1
<1> QED  BY <1>2 DEF Crawl!ToSet

\* What Reach computes: the starts, then one link more at a time.
LEMMA ReachIs ==
  ASSUME NEW L
  PROVE  /\ Crawl!Reach(L)[0] = Crawl!ToSet(Seeds)
         /\ \A n \in Nat : n < MaxDepth =>
              Crawl!Reach(L)[n + 1] = Crawl!Reach(L)[n] \union UNION {L[u] : u \in Crawl!Reach(L)[n]}
<1> DEFINE Step(f, k) == IF k = 0 THEN Crawl!ToSet(Seeds)
                         ELSE f[k - 1] \union UNION {L[u] : u \in f[k - 1]}
           Reached(f, n) == f = [k \in 0..n |-> Step(f, k)]
           S == {n \in Nat : \E f : Reached(f, n)}
<1>1. 0 \in S
  <2>1. Reached([k \in {0} |-> Crawl!ToSet(Seeds)], 0)
    OBVIOUS
  <2> QED  BY <2>1
<1>2. ASSUME NEW n \in Nat, n \in S PROVE n + 1 \in S
  <2>1. PICK f : Reached(f, n)
    BY <1>2
  <2> DEFINE g == [k \in 0..n + 1 |-> IF k = n + 1 THEN Step(f, k) ELSE f[k]]
  <2>2. ASSUME NEW k \in 0..n + 1 PROVE g[k] = Step(g, k)
    <3>1. CASE k = 0
      BY <2>1, <3>1
    <3>2. CASE k \in 1..n
      <4>1. k \in 0..n /\ k - 1 \in 0..n /\ k # 0 /\ k # n + 1 /\ k - 1 # n + 1
        BY <3>2
      <4>2. f[k] = Step(f, k)
        BY <2>1, <4>1
      <4>3. g[k] = f[k] /\ g[k - 1] = f[k - 1]
        BY <4>1
      <4> HIDE DEF g
      <4> QED  BY <4>1, <4>2, <4>3
    <3>3. CASE k = n + 1
      <4>1. k # 0 /\ k - 1 \in 0..n /\ k - 1 # n + 1
        BY <3>3
      <4>2. g[k] = Step(f, k) /\ g[k - 1] = f[k - 1]
        BY <3>3, <4>1
      <4> HIDE DEF g
      <4> QED  BY <4>1, <4>2
    <3> QED  BY <3>1, <3>2, <3>3
  <2>3. Reached(g, n + 1)
    BY <2>2
  <2> HIDE DEF g, Reached
  <2> QED  BY <2>3
<1> HIDE DEF S
<1>3. MaxDepth \in Nat /\ MaxDepth \in S
  BY <1>1, <1>2, Induct, CrawlAssumed
<1> USE DEF S
<1> DEFINE f == CHOOSE f : Reached(f, MaxDepth)
<1>4. Reached(f, MaxDepth)
  BY <1>3
<1>5. Crawl!Reach(L) = f
  BY DEF Crawl!Reach
<1> HIDE DEF f, S
<1>6. f[0] = Crawl!ToSet(Seeds)
  BY <1>3, <1>4
<1>7. ASSUME NEW n \in Nat, n < MaxDepth
      PROVE  f[n + 1] = f[n] \union UNION {L[u] : u \in f[n]}
  <2>1. n + 1 \in 0..MaxDepth /\ n + 1 # 0 /\ (n + 1) - 1 = n
    BY <1>3, <1>7
  <2>2. f[n + 1] = Step(f, n + 1)
    BY <1>4, <2>1
  <2> QED  BY <2>1, <2>2
<1> QED  BY <1>5, <1>6, <1>7

LEMMA ReachGrows ==
  ASSUME NEW L, NEW m \in Nat, NEW n \in Nat, m <= n, n <= MaxDepth
  PROVE  Crawl!Reach(L)[m] \subseteq Crawl!Reach(L)[n]
<1> DEFINE S == {k \in Nat : m + k <= MaxDepth => Crawl!Reach(L)[m] \subseteq Crawl!Reach(L)[m + k]}
<1>1. 0 \in S
  OBVIOUS
<1>2. ASSUME NEW k \in Nat, k \in S PROVE k + 1 \in S
  <2>1. m + (k + 1) = (m + k) + 1 /\ m + k \in Nat /\ MaxDepth \in Nat
    BY CrawlAssumed
  <2>2. m + k < MaxDepth => Crawl!Reach(L)[m + k] \subseteq Crawl!Reach(L)[(m + k) + 1]
    BY <2>1, ReachIs
  <2>3. m + (k + 1) <= MaxDepth => m + k < MaxDepth /\ m + k <= MaxDepth
    BY <2>1
  <2> QED  BY <1>2, <2>1, <2>2, <2>3
<1> HIDE DEF S
<1>3. n - m \in Nat /\ m + (n - m) = n
  OBVIOUS
<1>4. n - m \in S
  BY <1>1, <1>2, <1>3, Induct
<1> QED  BY <1>3, <1>4 DEF S

\* A set that has the starts, and whatever is linked from anywhere, has all of it.
LEMMA ReachWithin ==
  ASSUME NEW L \in [Urls -> SUBSET Urls], NEW Q \in SUBSET Urls, Crawl!ToSet(Seeds) \subseteq Q,
         \A u \in Urls : L[u] \subseteq Q,
         NEW n \in Nat, n <= MaxDepth
  PROVE  Crawl!Reach(L)[n] \subseteq Q
<1> DEFINE S == {k \in Nat : k <= MaxDepth => Crawl!Reach(L)[k] \subseteq Q}
<1>1. 0 \in S
  BY ReachIs
<1>2. ASSUME NEW k \in Nat, k \in S PROVE k + 1 \in S
  <2>1. k + 1 <= MaxDepth => k < MaxDepth /\ k <= MaxDepth
    BY CrawlAssumed
  <2>2. k < MaxDepth => Crawl!Reach(L)[k + 1] = Crawl!Reach(L)[k] \union UNION {L[u] : u \in Crawl!Reach(L)[k]}
    BY ReachIs
  <2> QED  BY <1>2, <2>1, <2>2
<1> HIDE DEF S
<1>3. n \in S
  BY <1>1, <1>2, Induct
<1> QED  BY <1>3 DEF S

LEMMA ReachInUrls ==
  ASSUME NEW L \in [Urls -> SUBSET Urls], NEW n \in Nat, n <= MaxDepth
  PROVE  Crawl!Reach(L)[n] \subseteq Urls
<1>1. \A u \in Urls : L[u] \subseteq Urls
  OBVIOUS
<1> QED  BY <1>1, ReachWithin, StartsAre

\* More links reach more.
LEMMA ReachMonotone ==
  ASSUME NEW L \in [Urls -> SUBSET Urls], NEW M \in [Urls -> SUBSET Urls],
         \A u \in Urls : L[u] \subseteq M[u],
         NEW n \in Nat, n <= MaxDepth
  PROVE  Crawl!Reach(L)[n] \subseteq Crawl!Reach(M)[n]
<1> DEFINE S == {k \in Nat : k <= MaxDepth => Crawl!Reach(L)[k] \subseteq Crawl!Reach(M)[k]}
<1>1. 0 \in S
  BY ReachIs
<1>2. ASSUME NEW k \in Nat, k \in S PROVE k + 1 \in S
  <2>1. k + 1 <= MaxDepth => k < MaxDepth /\ k <= MaxDepth
    BY CrawlAssumed
  <2>2. k < MaxDepth =>
          /\ Crawl!Reach(L)[k + 1] = Crawl!Reach(L)[k] \union UNION {L[u] : u \in Crawl!Reach(L)[k]}
          /\ Crawl!Reach(M)[k + 1] = Crawl!Reach(M)[k] \union UNION {M[u] : u \in Crawl!Reach(M)[k]}
          /\ Crawl!Reach(L)[k] \subseteq Urls
    <3>1. k < MaxDepth => k <= MaxDepth
      BY CrawlAssumed
    <3>2. k <= MaxDepth => Crawl!Reach(L)[k] \subseteq Urls
      BY ReachInUrls
    <3> QED  BY <3>1, <3>2, ReachIs
  <2> QED  BY <1>2, <2>1, <2>2
<1> HIDE DEF S
<1>3. n \in S
  BY <1>1, <1>2, Induct
<1> QED  BY <1>3 DEF S

\* The links of a page change nothing at its own distance or nearer.
LEMMA ReachLocal ==
  ASSUME NEW L \in [Urls -> SUBSET Urls], NEW M \in [Urls -> SUBSET Urls], NEW u \in Urls,
         \A v \in Urls \ {u} : L[v] = M[v],
         NEW d \in Nat, d <= MaxDepth, d > 0 => u \notin Crawl!Reach(L)[d - 1],
         NEW n \in Nat, n <= d
  PROVE  Crawl!Reach(M)[n] = Crawl!Reach(L)[n]
<1> DEFINE S == {k \in Nat : k <= d => Crawl!Reach(M)[k] = Crawl!Reach(L)[k]}
<1>1. 0 \in S
  BY ReachIs
<1>2. ASSUME NEW k \in Nat, k \in S PROVE k + 1 \in S
  <2>1. SUFFICES ASSUME k + 1 <= d PROVE Crawl!Reach(M)[k + 1] = Crawl!Reach(L)[k + 1]
    OBVIOUS
  <2>2. k <= d /\ k < MaxDepth /\ k <= MaxDepth /\ d > 0 /\ k <= d - 1 /\ d - 1 <= MaxDepth /\ d - 1 \in Nat
    BY <2>1, CrawlAssumed
  <2>3. Crawl!Reach(M)[k] = Crawl!Reach(L)[k]
    BY <1>2, <2>2
  <2>4. /\ Crawl!Reach(L)[k + 1] = Crawl!Reach(L)[k] \union UNION {L[v] : v \in Crawl!Reach(L)[k]}
        /\ Crawl!Reach(M)[k + 1] = Crawl!Reach(M)[k] \union UNION {M[v] : v \in Crawl!Reach(M)[k]}
        /\ Crawl!Reach(L)[k] \subseteq Urls
    BY <2>2, ReachIs, ReachInUrls
  <2>5. u \notin Crawl!Reach(L)[k]
    BY <2>2, ReachGrows
  <2> QED  BY <2>3, <2>4, <2>5
<1> HIDE DEF S
<1>3. n \in S
  BY <1>1, <1>2, Induct
<1> QED  BY <1>3 DEF S

-----------------------------------------------------------------------------
\* What the types say, element by element.
LEMMA CrawlTypes ==
  ASSUME Crawl!TypeOK
  PROVE  /\ s1 \in [Urls -> Crawl!Page] /\ s2 \in Seq(Crawl!Queued) /\ s3 \subseteq Urls /\ s4 \in Seq(Crawl!Found)
         /\ \A i \in 1..Len(s2) : s2[i].url \in Urls /\ s2[i].depth \in 0..MaxDepth
         /\ \A i \in 1..Len(s4) : s4[i].url \in Urls /\ s4[i].depth \in 0..MaxDepth
         /\ \A u \in Urls : s1[u].links \subseteq Urls
         /\ DOMAIN s4 = 1..Len(s4)
<1>1. s1 \in [Urls -> Crawl!Page] /\ s2 \in Seq(Crawl!Queued) /\ s3 \subseteq Urls /\ s4 \in Seq(Crawl!Found)
  BY DEF Crawl!TypeOK
<1>2. \A i \in 1..Len(s2) : s2[i] \in Crawl!Queued
  BY <1>1
<1>3. \A i \in 1..Len(s4) : s4[i] \in Crawl!Found
  BY <1>1
<1>4. \A u \in Urls : s1[u] \in Crawl!Page
  BY <1>1
<1>5. \A i \in 1..Len(s2) : s2[i].url \in Urls /\ s2[i].depth \in 0..MaxDepth
  BY <1>2 DEF Crawl!Queued
<1>6. \A i \in 1..Len(s4) : s4[i].url \in Urls /\ s4[i].depth \in 0..MaxDepth
  BY <1>3 DEF Crawl!Found
<1>7. \A u \in Urls : s1[u].links \subseteq Urls
  BY <1>4 DEF Crawl!Page
<1> QED  BY <1>1, <1>5, <1>6, <1>7

LEMMA LinksAre ==
  ASSUME Crawl!TypeOK
  PROVE  /\ Crawl!Links \in [Urls -> SUBSET Urls]
         /\ \A u \in Urls : Crawl!Links[u] =
              IF \E i \in 1..Len(s4) : s4[i].url = u THEN s1[u].links ELSE {}
<1>1. Crawl!Expanded = {s4[i].url : i \in 1..Len(s4)}
  BY CrawlTypes DEF Crawl!Expanded
<1>2. \A u \in Urls : (u \in Crawl!Expanded) <=> \E i \in 1..Len(s4) : s4[i].url = u
  BY <1>1
<1>3. \A u \in Urls : (IF u \in Crawl!Expanded THEN s1[u].links ELSE {}) \in SUBSET Urls
  BY CrawlTypes
<1> QED  BY <1>2, <1>3 DEF Crawl!Links

LEMMA CrawlInit == ASSUME Crawl!Init PROVE WInv
<1>1. /\ s1 = [u \in Urls |-> [answer |-> "none", says |-> Nothing, id |-> u, links |-> {}]]
      /\ s2 = [i \in 1..Len(Seeds) |-> [url |-> Seeds[i], depth |-> 0]]
      /\ s3 = Crawl!ToSet(Seeds) /\ s4 = <<>> /\ s5 = "running"
  BY DEF Crawl!Init
<1>2. /\ Seeds \in Seq(Urls) /\ Len(Seeds) \in Nat /\ \A i \in 1..Len(Seeds) : Seeds[i] \in Urls
      /\ 0 \in 0..MaxDepth /\ MaxDepth \in Nat
  BY CrawlAssumed
<1>3. s1 \in [Urls -> Crawl!Page]
  BY <1>1 DEF Crawl!Page, Crawl!Answers
<1>4. /\ s2 \in Seq(Crawl!Queued) /\ Len(s2) = Len(Seeds)
      /\ \A i \in 1..Len(s2) : s2[i].url = Seeds[i] /\ s2[i].depth = 0
  <2>1. s2 \in [1..Len(Seeds) -> Crawl!Queued]
    BY <1>1, <1>2 DEF Crawl!Queued
  <2>2. s2 \in Seq(Crawl!Queued) /\ Len(s2) = Len(Seeds)
    BY <1>2, <2>1
  <2> QED  BY <1>1, <2>2
<1>5. Crawl!TypeOK
  BY <1>1, <1>3, <1>4, StartsAre DEF Crawl!TypeOK
<1>6. Len(s4) = 0
  BY <1>1
<1>7. InOrder
  BY <1>4, <1>6 DEF InOrder
<1>8. QueuedOnce
  <2>1. \A u \in Urls : s1[u].answer = "none"
    BY <1>1
  <2>2. \A u \in s3 : Waiting(u)
    BY <1>1, <1>4, StartsAre DEF Waiting
  <2>3. \A i \in 1..Len(s2) : s2[i].url \in s3
    BY <1>1, <1>4, StartsAre
  <2> QED  BY <1>4, <1>6, <2>1, <2>2, <2>3, CrawlAssumed DEF QueuedOnce
<1>9. Crawl!Within[0] = s3
  BY <1>1, ReachIs DEF Crawl!Within
<1>10. AtDistance
  BY <1>1, <1>4, <1>6, <1>9, StartsAre DEF AtDistance, At
<1>11. ReachIsQueued
  <2>1. \A u \in Urls : Crawl!Links[u] = {}
    BY <1>5, <1>6, LinksAre
  <2>2. Crawl!Links \in [Urls -> SUBSET Urls]
    BY <1>5, LinksAre
  <2>3. Crawl!Within[MaxDepth] \subseteq s3
    <3>1. s3 \in SUBSET Urls /\ Crawl!ToSet(Seeds) \subseteq s3 /\ \A u \in Urls : Crawl!Links[u] \subseteq s3
      BY <1>1, <2>1, StartsAre
    <3>2. MaxDepth <= MaxDepth
      BY <1>2
    <3> QED  BY <1>2, <2>2, <3>1, <3>2, ReachWithin DEF Crawl!Within
  <2>4. Crawl!Within[0] \subseteq Crawl!Within[MaxDepth]
    BY <1>2, ReachGrows DEF Crawl!Within
  <2> QED  BY <1>9, <2>3, <2>4 DEF ReachIsQueued
<1>12. CrawlEnds
  BY <1>1 DEF CrawlEnds
<1> QED  BY <1>5, <1>7, <1>8, <1>10, <1>11, <1>12 DEF WInv

\* The next one, and the queue behind it.
LEMMA TakenIs ==
  ASSUME Crawl!TypeOK, Crawl!Goes
  PROVE  /\ Crawl!Taken.next = s2[1] /\ 1 \in 1..Len(s2)
         /\ Crawl!Taken.next.url \in Urls /\ Crawl!Taken.next.depth \in 0..MaxDepth
         /\ Crawl!Taken.rest \in Seq(Crawl!Queued) /\ Len(Crawl!Taken.rest) = Len(s2) - 1 /\ Len(s2) \in Nat
         /\ \A i \in 1..Len(Crawl!Taken.rest) : i + 1 \in 1..Len(s2) /\ Crawl!Taken.rest[i] = s2[i + 1]
<1>1. s2 \in Seq(Crawl!Queued) /\ s2 # <<>>
  BY DEF Crawl!TypeOK, Crawl!Goes
<1>2. /\ Head(s2) = s2[1] /\ Tail(s2) \in Seq(Crawl!Queued) /\ Len(Tail(s2)) = Len(s2) - 1
      /\ \A i \in 1..Len(Tail(s2)) : Tail(s2)[i] = s2[i + 1]
  BY <1>1, HeadTailProperties
<1>3. Len(s2) \in Nat /\ Len(s2) > 0
  BY <1>1, EmptySeq
<1>4. Crawl!Taken.next = Head(s2) /\ Crawl!Taken.rest = Tail(s2)
  BY DEF Crawl!Taken
<1>5. 1 \in 1..Len(s2) /\ \A i \in 1..Len(Tail(s2)) : i + 1 \in 1..Len(s2)
  BY <1>2, <1>3
<1> QED  BY <1>2, <1>3, <1>4, <1>5, CrawlTypes

\* A waiting URL was not requested yet, and not found.
LEMMA WaitingIsNew ==
  ASSUME WInv, NEW u \in Urls, Waiting(u)
  PROVE  /\ s1[u].answer = "none" /\ \A i \in 1..Len(s4) : s4[i].url # u
         /\ u \in s3
<1>1. s1[u].answer = "none"
  BY DEF WInv, QueuedOnce
<1> QED  BY <1>1 DEF WInv, QueuedOnce, Waiting

\* The next one is left out, or it is no document: its place in the queue is all it had.
LEMMA RestKeeps ==
  ASSUME WInv, Crawl!Goes, s2' = Crawl!Taken.rest, s3' = s3, s4' = s4, s5' = s5,
         s1' \in [Urls -> Crawl!Page],
         \A v \in Urls : v # Crawl!Taken.next.url => s1'[v] = s1[v],
         IF Crawl!Taken.next.url \in Outside THEN s1' = s1
         ELSE s1'[Crawl!Taken.next.url].answer # "none"
  PROVE  WInv'
<1> DEFINE u == Crawl!Taken.next.url
           rest == Crawl!Taken.rest
<1>1. Crawl!TypeOK
  BY DEF WInv
<1>2. /\ 1 \in 1..Len(s2) /\ u = s2[1].url /\ u \in Urls /\ rest \in Seq(Crawl!Queued)
      /\ Len(rest) = Len(s2) - 1 /\ Len(s2) \in Nat
      /\ \A i \in 1..Len(rest) : i + 1 \in 1..Len(s2) /\ rest[i] = s2[i + 1]
  BY <1>1, TakenIs
<1>3. /\ s2' = rest /\ \A v \in Urls : v # u => s1'[v] = s1[v]
      /\ IF u \in Outside THEN s1' = s1 ELSE s1'[u].answer # "none"
  OBVIOUS
<1> HIDE DEF u, rest
<1>4. Waiting(u) /\ s1[u].answer = "none" /\ u \in s3 /\ \A i \in 1..Len(s4) : s4[i].url # u
  <2>1. Waiting(u)
    BY <1>2 DEF Waiting
  <2> QED  BY <2>1, <1>2, WaitingIsNew
<1>5. Crawl!TypeOK'
  BY <1>1, <1>2, <1>3 DEF Crawl!TypeOK
<1>6. Crawl!Links' = Crawl!Links
  <2>1. Crawl!Expanded' = Crawl!Expanded
    BY DEF Crawl!Expanded
  <2>2. u \notin Crawl!Expanded
    BY <1>1, <1>4, CrawlTypes DEF Crawl!Expanded
  <2> QED  BY <1>3, <2>1, <2>2 DEF Crawl!Links
<1>7. Crawl!Within' = Crawl!Within
  BY <1>6 DEF Crawl!Within
<1>8. InOrder'
  <2>1. \A i \in 1..Len(rest) : i + 1 \in 1..Len(s2) /\ rest[i].depth = s2[i + 1].depth /\ i \in Nat
    BY <1>2
  <2>2. \A i, j \in 1..Len(rest) : i <= j => rest[i].depth <= rest[j].depth /\ rest[j].depth <= rest[i].depth + 1
    <3>1. \A i, j \in 1..Len(rest) : i <= j => i + 1 <= j + 1
      OBVIOUS
    <3> QED  BY <2>1, <3>1 DEF WInv, InOrder
  <2>3. \A i \in 1..Len(s4), j \in 1..Len(rest) : s4[i].depth <= rest[j].depth
    BY <2>1 DEF WInv, InOrder
  <2> QED  BY <1>3, <2>2, <2>3 DEF InOrder
<1>9. \A v \in Urls : Waiting(v)' <=> Waiting(v) /\ v # u
  <2>1. ASSUME NEW v \in Urls, NEW i \in 1..Len(rest), rest[i].url = v PROVE Waiting(v) /\ v # u
    <3>1. i + 1 \in 1..Len(s2) /\ s2[i + 1].url = v /\ i + 1 # 1
      BY <1>2, <2>1
    <3> QED  BY <1>2, <3>1 DEF Waiting, WInv, QueuedOnce
  <2>2. ASSUME NEW v \in Urls, NEW i \in 1..Len(s2), s2[i].url = v, v # u
        PROVE  \E j \in 1..Len(rest) : rest[j].url = v
    <3>1. i # 1
      BY <1>2, <2>2
    <3>2. i - 1 \in 1..Len(rest) /\ (i - 1) + 1 = i
      BY <1>2, <3>1
    <3> QED  BY <1>2, <2>2, <3>2
  <2> QED  BY <1>3, <2>1, <2>2 DEF Waiting
<1>10. QueuedOnce'
  <2>1. \A i, j \in 1..Len(rest) : rest[i].url = rest[j].url => i = j
    <3>1. ASSUME NEW i \in 1..Len(rest), NEW j \in 1..Len(rest), rest[i].url = rest[j].url PROVE i = j
      <4>1. i + 1 = j + 1
        BY <1>2, <3>1 DEF WInv, QueuedOnce
      <4> QED  BY <4>1
    <3> QED  BY <3>1
  <2>2. \A i \in 1..Len(rest) : rest[i].url \in s3
    BY <1>2 DEF WInv, QueuedOnce
  <2>3. \A v \in Urls : s1'[v].answer # "none" <=> v \in s3 \ Outside /\ ~ Waiting(v)'
    BY <1>3, <1>4, <1>9 DEF WInv, QueuedOnce
  <2>4. \A i \in 1..Len(s4) : s1'[s4[i].url].answer # "none"
    BY <1>1, <1>3, <1>4, CrawlTypes DEF WInv, QueuedOnce
  <2> QED  BY <1>3, <2>1, <2>2, <2>3, <2>4 DEF QueuedOnce
<1>11. AtDistance'
  <2>1. \A x : At(x)' <=> At(x)
    BY <1>7 DEF At
  <2>2. \A i \in 1..Len(rest) : At(rest[i])
    BY <1>2 DEF WInv, AtDistance
  <2>3. \A i \in 1..Len(s4) : At(s4[i])
    BY DEF WInv, AtDistance
  <2> QED  BY <1>3, <1>7, <2>2, <2>3 DEF AtDistance, At
<1>12. ReachIsQueued'
  BY <1>7 DEF WInv, ReachIsQueued
<1>13. CrawlEnds'
  BY DEF WInv, CrawlEnds, Crawl!Goes
<1> QED  BY <1>5, <1>8, <1>10, <1>11, <1>12, <1>13 DEF WInv

\* Links in page order: each of them once.
LEMMA InPageOrder ==
  ASSUME NEW S, IsFiniteSet(S), NEW q \in Crawl!SetToSeqs(S)
  PROVE  /\ q \in Seq(S) /\ Len(q) \in Nat
         /\ \A i, j \in 1..Len(q) : q[i] = q[j] => i = j
         /\ \A i \in 1..Len(q) : q[i] \in S
         /\ \A x \in S : \E i \in 1..Len(q) : q[i] = x
<1> DEFINE n == Cardinality(S)
<1>1. n \in Nat
  BY FS_CardinalityType
<1>2. q \in [1..n -> S] /\ \A i, j \in 1..n : i # j => q[i] # q[j]
  BY DEF Crawl!SetToSeqs, Crawl!Cardinality, Cardinality
<1>3. q \in Seq(S) /\ Len(q) = n
  BY <1>1, <1>2
<1>4. q \in Injection(1..n, S)
  BY <1>2 DEF Injection, IsInjective
<1>5. Cardinality(1..n) = n
  BY <1>1, FS_Interval
<1>6. q \in Surjection(1..n, S)
  BY <1>4, <1>5, FS_Injection
<1> HIDE DEF n
<1> QED  BY <1>1, <1>2, <1>3, <1>6 DEF Surjection

\* The queue with its head gone and the new links of a page at depth d behind it.
LEMMA QueueGrows ==
  ASSUME Crawl!TypeOK, Crawl!Goes, NEW d \in Nat, NEW S \in SUBSET Urls, NEW q \in Seq(S),
         d < MaxDepth \/ S = {},
         s2' = Crawl!Taken.rest \o [i \in 1..Len(q) |-> [url |-> q[i], depth |-> d + 1]]
  PROVE  LET k == Len(Crawl!Taken.rest) IN
         /\ s2' \in Seq(Crawl!Queued) /\ Len(s2') = k + Len(q) /\ k \in Nat /\ Len(q) \in Nat
         /\ \A i \in 1..k : s2'[i] = Crawl!Taken.rest[i]
         /\ \A i \in 1..Len(q) : s2'[k + i].url = q[i] /\ s2'[k + i].depth = d + 1
<1> DEFINE rest == Crawl!Taken.rest
           add == [i \in 1..Len(q) |-> [url |-> q[i], depth |-> d + 1]]
<1>1. rest \in Seq(Crawl!Queued) /\ Len(rest) \in Nat
  BY TakenIs
<1>2. Len(q) \in Nat /\ \A i \in 1..Len(q) : q[i] \in Urls
  OBVIOUS
<1>3. \A i \in 1..Len(q) : d + 1 \in 0..MaxDepth
  BY CrawlAssumed
<1>4. add \in Seq(Crawl!Queued) /\ Len(add) = Len(q)
  <2>1. add \in [1..Len(q) -> Crawl!Queued]
    BY <1>2, <1>3 DEF Crawl!Queued
  <2> HIDE DEF add
  <2>2. add \in Seq(Crawl!Queued)
    BY <1>2, <2>1
  <2> QED  BY <1>2, <2>1, <2>2
<1>5. \A i \in 1..Len(q) : add[i].url = q[i] /\ add[i].depth = d + 1
  OBVIOUS
<1>6. s2' = rest \o add
  OBVIOUS
<1> HIDE DEF rest, add
<1>7. /\ rest \o add \in Seq(Crawl!Queued) /\ Len(rest \o add) = Len(rest) + Len(q)
      /\ \A i \in 1..Len(rest) : (rest \o add)[i] = rest[i]
      /\ \A i \in 1..Len(q) : (rest \o add)[Len(rest) + i] = add[i]
  <2>1. /\ rest \o add \in Seq(Crawl!Queued) /\ Len(rest \o add) = Len(rest) + Len(add)
        /\ \A i \in 1..Len(rest) + Len(add) : (rest \o add)[i] = IF i <= Len(rest) THEN rest[i] ELSE add[i - Len(rest)]
    BY <1>1, <1>4, ConcatProperties
  <2>2. ASSUME NEW i \in 1..Len(rest) PROVE (rest \o add)[i] = rest[i]
    <3>1. i \in 1..Len(rest) + Len(add) /\ i <= Len(rest)
      BY <1>1, <1>2, <1>4
    <3> QED  BY <2>1, <3>1
  <2>3. ASSUME NEW i \in 1..Len(q) PROVE (rest \o add)[Len(rest) + i] = add[i]
    <3>1. Len(rest) + i \in 1..Len(rest) + Len(add) /\ ~ (Len(rest) + i <= Len(rest)) /\ (Len(rest) + i) - Len(rest) = i
      BY <1>1, <1>2, <1>4
    <3> QED  BY <2>1, <3>1
  <2> QED  BY <1>4, <2>1, <2>2, <2>3
<1> QED  BY <1>1, <1>2, <1>5, <1>6, <1>7 DEF rest

\* The queue without its head, and new URLs behind it.
QueuedBehind(new, d, k) ==
  /\ k \in Nat /\ k = Len(s2) - 1 /\ Len(s2') \in Nat /\ k <= Len(s2')
  /\ \A i \in 1..Len(s2') : i <= k => i + 1 \in 1..Len(s2) /\ s2'[i] = s2[i + 1]
  /\ \A i \in 1..Len(s2') : i > k => s2'[i].url \in new /\ s2'[i].depth = d + 1
  /\ \A i, j \in 1..Len(s2') : i > k /\ j > k /\ s2'[i].url = s2'[j].url => i = j
  /\ \A v \in new : \E i \in 1..Len(s2') : s2'[i].url = v

\* The same, by positions: q are the new URLs.
AppendedAs(q, new, d, k) ==
  /\ k \in Nat /\ Len(q) \in Nat /\ Len(s2) \in Nat /\ k = Len(s2) - 1 /\ Len(s2') = k + Len(q)
  /\ \A i, j \in 1..Len(q) : q[i] = q[j] => i = j
  /\ \A i \in 1..Len(q) : q[i] \in new
  /\ \A x \in new : \E i \in 1..Len(q) : q[i] = x
  /\ \A i \in 1..k : i + 1 \in 1..Len(s2) /\ s2'[i] = s2[i + 1]
  /\ \A i \in 1..Len(q) : s2'[k + i].url = q[i] /\ s2'[k + i].depth = d + 1

LEMMA AppendedIsBehind ==
  ASSUME NEW q, NEW new, NEW d, NEW k, AppendedAs(q, new, d, k) PROVE QueuedBehind(new, d, k)
<1> USE DEF AppendedAs
<1>1. Len(s2') \in Nat /\ k <= Len(s2')
  OBVIOUS
<1>2. ASSUME NEW i \in 1..Len(s2'), i <= k PROVE i + 1 \in 1..Len(s2) /\ s2'[i] = s2[i + 1]
  <2>1. i \in 1..k
    BY <1>2
  <2> QED  BY <2>1
<1>3. ASSUME NEW i \in 1..Len(s2'), i > k
      PROVE  i - k \in 1..Len(q) /\ s2'[i].url = q[i - k] /\ s2'[i].depth = d + 1
  <2>1. i - k \in 1..Len(q) /\ k + (i - k) = i
    BY <1>3
  <2> QED  BY <2>1
<1>4. ASSUME NEW i \in 1..Len(s2'), NEW j \in 1..Len(s2'), i > k, j > k, s2'[i].url = s2'[j].url
      PROVE  i = j
  <2>1. i - k \in 1..Len(q) /\ j - k \in 1..Len(q) /\ q[i - k] = q[j - k]
    BY <1>3, <1>4
  <2>2. i - k = j - k
    BY <2>1
  <2> QED  BY <2>2
<1>5. ASSUME NEW v \in new PROVE \E i \in 1..Len(s2') : s2'[i].url = v
  <2>1. PICK i \in 1..Len(q) : q[i] = v
    OBVIOUS
  <2>2. k + i \in 1..Len(s2')
    OBVIOUS
  <2> QED  BY <2>1, <2>2
<1>6. \A i \in 1..Len(s2') : i > k => s2'[i].url \in new /\ s2'[i].depth = d + 1
  BY <1>3
<1> QED  BY <1>1, <1>2, <1>4, <1>5, <1>6 DEF QueuedBehind

LEMMA LinksAreQueued ==
  ASSUME Crawl!TypeOK, Crawl!Goes, NEW d \in Nat, NEW new \in SUBSET Urls, IsFiniteSet(new),
         d < MaxDepth \/ new = {}, NEW q \in Crawl!SetToSeqs(new),
         s2' = Crawl!Taken.rest \o [i \in 1..Len(q) |-> [url |-> q[i], depth |-> d + 1]]
  PROVE  s2' \in Seq(Crawl!Queued) /\ QueuedBehind(new, d, Len(Crawl!Taken.rest))
<1> DEFINE rest == Crawl!Taken.rest
           k == Len(rest)
<1>1. /\ q \in Seq(new) /\ Len(q) \in Nat
      /\ \A i, j \in 1..Len(q) : q[i] = q[j] => i = j
      /\ \A i \in 1..Len(q) : q[i] \in new
      /\ \A x \in new : \E i \in 1..Len(q) : q[i] = x
  BY InPageOrder
<1>2. /\ k = Len(s2) - 1 /\ Len(s2) \in Nat
      /\ \A i \in 1..k : i + 1 \in 1..Len(s2) /\ rest[i] = s2[i + 1]
  BY TakenIs
<1>3. /\ s2' \in Seq(Crawl!Queued) /\ Len(s2') = k + Len(q) /\ k \in Nat /\ Len(q) \in Nat
      /\ \A i \in 1..k : s2'[i] = rest[i]
      /\ \A i \in 1..Len(q) : s2'[k + i].url = q[i] /\ s2'[k + i].depth = d + 1
  BY <1>1, QueueGrows, Zenon
<1> HIDE DEF k, rest
<1>4. \A i \in 1..k : i + 1 \in 1..Len(s2) /\ s2'[i] = s2[i + 1]
  BY <1>2, <1>3, Zenon
<1>5. QueuedBehind(new, d, k)
  <2>1. k = Len(s2) - 1 /\ Len(s2') = k + Len(q) /\ k \in Nat /\ Len(s2) \in Nat /\ Len(q) \in Nat
    BY <1>2, <1>3, Zenon
  <2>2. \A i \in 1..Len(q) : s2'[k + i].url = q[i] /\ s2'[k + i].depth = d + 1
    BY <1>3, Zenon
  <2>3. AppendedAs(q, new, d, k)
    BY <1>1, <1>4, <2>1, <2>2, Zenon DEF AppendedAs
  <2> QED  BY <2>3, AppendedIsBehind, Zenon
<1> QED  BY <1>3, <1>5 DEF k, rest

\* What the next one being a document does to the queue and to what was found.
FoundAtOnce(u, d, links, new, k) ==
  /\ 1 \in 1..Len(s2) /\ u = s2[1].url /\ d = s2[1].depth /\ u \in Urls \ Outside
  /\ d \in Nat /\ d <= MaxDepth
  /\ links \subseteq Urls /\ new \subseteq links /\ \A v \in new : v \notin s3
  /\ d < MaxDepth => links \subseteq s3 \union new
  /\ d >= MaxDepth => new = {}
  /\ s3' = s3 \union new
  /\ QueuedBehind(new \ Outside, d, k)
  /\ Len(s4) \in Nat /\ Len(s4') = Len(s4) + 1 /\ s4'[Len(s4) + 1].url = u /\ s4'[Len(s4) + 1].depth = d
  /\ \A i \in 1..Len(s4) : s4'[i] = s4[i]
  /\ s1'[u].answer # "none" /\ s1'[u].links = links
  /\ \A v \in Urls : v # u => s1'[v] = s1[v]
  /\ Crawl!TypeOK' /\ CrawlEnds'

LEMMA DocumentIsFound ==
  ASSUME WInv, Crawl!Goes, NEW p \in Crawl!Page, p.answer # "none", IsFiniteSet(p.links),
         NEW u, u = Crawl!Taken.next.url, u \notin Outside,
         NEW d, d = Crawl!Taken.next.depth,
         s1' = [s1 EXCEPT ![u] = p],
         s4' = Append(s4, [url |-> u, depth |-> d, id |-> p.id, says |-> p.says]),
         s3' = s3 \union Crawl!NewLinks(p, d),
         NEW q \in Crawl!SetToSeqs(Crawl!NewLinks(p, d) \ Outside),
         s2' = Crawl!Taken.rest \o [i \in 1..Len(q) |-> [url |-> q[i], depth |-> d + 1]],
         s5' = s5
  PROVE  FoundAtOnce(u, d, p.links, Crawl!NewLinks(p, d), Len(Crawl!Taken.rest))
<1> DEFINE new == Crawl!NewLinks(p, d)
           f == [url |-> u, depth |-> d, id |-> p.id, says |-> p.says]
<1>1. Crawl!TypeOK
  BY DEF WInv
<1>2. /\ 1 \in 1..Len(s2) /\ u = s2[1].url /\ d = s2[1].depth /\ u \in Urls /\ d \in 0..MaxDepth
  BY <1>1, TakenIs
<1>3. /\ p.links \subseteq Urls /\ new \subseteq p.links /\ new \intersect s3 = {}
      /\ d < MaxDepth => p.links \subseteq s3 \union new
      /\ d >= MaxDepth => new = {}
      /\ IsFiniteSet(new \ Outside) /\ new \ Outside \in SUBSET Urls
      /\ d \in Nat /\ MaxDepth \in Nat /\ d <= MaxDepth
  <2>1. p.links \subseteq Urls
    BY DEF Crawl!Page
  <2>2. /\ new \subseteq p.links /\ new \intersect s3 = {}
        /\ d < MaxDepth => p.links \subseteq s3 \union new
        /\ d >= MaxDepth => new = {}
    BY <1>2, CrawlAssumed DEF Crawl!NewLinks
  <2> HIDE DEF new
  <2>3. IsFiniteSet(new \ Outside)
    BY <2>2, FS_Subset
  <2> QED  BY <1>2, <2>1, <2>2, <2>3, CrawlAssumed
<1>4. q \in Crawl!SetToSeqs(new \ Outside) /\ s3' = s3 \union new
  OBVIOUS
<1> HIDE DEF new
<1>5. s2' \in Seq(Crawl!Queued) /\ QueuedBehind(new \ Outside, d, Len(Crawl!Taken.rest))
  <2>1. d < MaxDepth \/ new \ Outside = {}
    BY <1>3
  <2> QED  BY <1>1, <1>3, <1>4, <2>1, LinksAreQueued
<1>9. /\ s4' \in Seq(Crawl!Found) /\ Len(s4') = Len(s4) + 1 /\ Len(s4) \in Nat
      /\ s4'[Len(s4) + 1] = f /\ \A i \in 1..Len(s4) : s4'[i] = s4[i]
  <2>1. f \in Crawl!Found
    BY <1>2 DEF Crawl!Found, Crawl!Page
  <2>2. s4 \in Seq(Crawl!Found) /\ s4' = Append(s4, f)
    BY <1>1, CrawlTypes
  <2> HIDE DEF f
  <2> QED  BY <2>1, <2>2
<1>10. f.url = u /\ f.depth = d
  OBVIOUS
<1> HIDE DEF f
<1>11. /\ s1' \in [Urls -> Crawl!Page] /\ s1'[u] = p /\ \A v \in Urls : v # u => s1'[v] = s1[v]
  BY <1>1, <1>2 DEF Crawl!TypeOK
<1>12. Crawl!TypeOK'
  BY <1>1, <1>3, <1>4, <1>5, <1>9, <1>11 DEF Crawl!TypeOK
<1>13. CrawlEnds'
  BY DEF Crawl!Goes, CrawlEnds
<1> QED  BY <1>2, <1>3, <1>4, <1>5, <1>9, <1>10, <1>11, <1>12, <1>13 DEF FoundAtOnce, new

\* Its links become reachable, and are queued.
LEMMA FoundKeeps ==
  ASSUME WInv, NEW u, NEW d, NEW links, NEW new, NEW k, FoundAtOnce(u, d, links, new, k) PROVE WInv'
<1>1. Crawl!TypeOK /\ Crawl!TypeOK' /\ CrawlEnds'
  BY DEF WInv, FoundAtOnce
<1>2. /\ 1 \in 1..Len(s2) /\ u = s2[1].url /\ d = s2[1].depth /\ u \in Urls \ Outside
      /\ k \in Nat /\ k = Len(s2) - 1
  BY DEF FoundAtOnce, QueuedBehind
<1>3. /\ d \in Nat /\ d <= MaxDepth /\ MaxDepth \in Nat
  BY CrawlAssumed DEF FoundAtOnce
<1>4. /\ links \subseteq Urls /\ new \subseteq links /\ \A v \in new : v \notin s3
      /\ d < MaxDepth => links \subseteq s3 \union new
      /\ d >= MaxDepth => new = {}
      /\ s3' = s3 \union new
  BY DEF FoundAtOnce
<1>5. /\ Len(s2') \in Nat /\ k <= Len(s2')
      /\ \A i \in 1..Len(s2') : i <= k => i + 1 \in 1..Len(s2) /\ s2'[i] = s2[i + 1]
  BY DEF FoundAtOnce, QueuedBehind
<1>6. /\ \A i \in 1..Len(s2') : i > k => s2'[i].url \in new \ Outside /\ s2'[i].depth = d + 1
      /\ \A i, j \in 1..Len(s2') : i > k /\ j > k /\ s2'[i].url = s2'[j].url => i = j
      /\ \A v \in new \ Outside : \E i \in 1..Len(s2') : s2'[i].url = v
  BY DEF FoundAtOnce, QueuedBehind
<1> DEFINE f == s4'[Len(s4) + 1]
<1>7. /\ Len(s4) \in Nat /\ Len(s4') = Len(s4) + 1 /\ f.url = u /\ f.depth = d
      /\ \A i \in 1..Len(s4) : s4'[i] = s4[i]
  BY DEF FoundAtOnce
<1>9. /\ s1'[u].answer # "none" /\ s1'[u].links = links
      /\ \A v \in Urls : v # u => s1'[v] = s1[v]
  BY DEF FoundAtOnce
<1>8. Waiting(u) /\ s1[u].answer = "none" /\ u \in s3 /\ \A i \in 1..Len(s4) : s4[i].url # u
  <2>1. Waiting(u)
    BY <1>2 DEF Waiting
  <2> QED  BY <2>1, <1>2, WaitingIsNew
<1>10. ASSUME NEW i \in 1..Len(s4')
       PROVE  (i \in 1..Len(s4) /\ s4'[i] = s4[i]) \/ s4'[i] = f
  <2>1. i \in 1..Len(s4) \/ i = Len(s4) + 1
    BY <1>7
  <2> QED  BY <1>7, <2>1
<1>11. Len(s4) + 1 \in 1..Len(s4') /\ \A i \in 1..Len(s4) : i \in 1..Len(s4')
  BY <1>7
<1>12. s4'[Len(s4) + 1] = f
  OBVIOUS
<1> HIDE DEF f
<1> DEFINE L == Crawl!Links
           M == Crawl!Links'
<1>13. Crawl!Within = Crawl!Reach(L) /\ Crawl!Within' = Crawl!Reach(M)
  BY DEF Crawl!Within
<1>14. /\ L \in [Urls -> SUBSET Urls] /\ M \in [Urls -> SUBSET Urls]
       /\ \A v \in Urls : L[v] = IF \E i \in 1..Len(s4) : s4[i].url = v THEN s1[v].links ELSE {}
       /\ \A v \in Urls : M[v] = IF \E i \in 1..Len(s4') : s4'[i].url = v THEN s1'[v].links ELSE {}
  <2>1. /\ Crawl!Expanded = {s4[i].url : i \in 1..Len(s4)}
        /\ Crawl!Expanded' = {s4'[i].url : i \in 1..Len(s4')}
    <3>1. DOMAIN s4 = 1..Len(s4)
      BY <1>1, CrawlTypes
    <3>2. DOMAIN s4' = 1..Len(s4')
      <4>1. s4' \in Seq(Crawl!Found)
        BY <1>1 DEF Crawl!TypeOK
      <4> QED  BY <4>1
    <3> QED  BY <3>1, <3>2 DEF Crawl!Expanded
  <2>2. /\ L = [v \in Urls |-> IF v \in Crawl!Expanded THEN s1[v].links ELSE {}]
        /\ M = [v \in Urls |-> IF v \in Crawl!Expanded' THEN s1'[v].links ELSE {}]
    BY DEF Crawl!Links
  <2>3. \A v \in Urls : s1[v].links \subseteq Urls /\ s1'[v].links \subseteq Urls
    BY <1>1, <1>4, <1>9, CrawlTypes
  <2> HIDE DEF L, M
  <2>4. /\ \A v \in Urls : L[v] = IF \E i \in 1..Len(s4) : s4[i].url = v THEN s1[v].links ELSE {}
        /\ \A v \in Urls : M[v] = IF \E i \in 1..Len(s4') : s4'[i].url = v THEN s1'[v].links ELSE {}
    BY <2>1, <2>2
  <2>5. L \in [Urls -> SUBSET Urls] /\ M \in [Urls -> SUBSET Urls]
    BY <2>2, <2>3
  <2> QED  BY <2>4, <2>5
<1> HIDE DEF L, M
<1>15. M[u] = links /\ L[u] = {}
  BY <1>2, <1>7, <1>8, <1>9, <1>11, <1>12, <1>14
<1>16. ASSUME NEW v \in Urls \ {u} PROVE L[v] = M[v]
  <2>1. (\E i \in 1..Len(s4) : s4[i].url = v) <=> \E i \in 1..Len(s4') : s4'[i].url = v
    BY <1>7, <1>10, <1>11
  <2>2. s1'[v].links = s1[v].links
    BY <1>9
  <2>3. CASE \E i \in 1..Len(s4) : s4[i].url = v
    BY <1>14, <2>1, <2>2, <2>3
  <2>4. CASE ~ \E i \in 1..Len(s4) : s4[i].url = v
    BY <1>14, <2>1, <2>4
  <2> QED  BY <2>3, <2>4
<1>17. \A v \in Urls : L[v] \subseteq M[v]
  BY <1>15, <1>16
<1>18. /\ u \in Crawl!Reach(L)[d] /\ (d > 0 => u \notin Crawl!Reach(L)[d - 1])
       /\ Crawl!Reach(L)[MaxDepth] = s3
  BY <1>2, <1>13 DEF WInv, AtDistance, At, ReachIsQueued
<1>19. ASSUME NEW n \in Nat, n <= d PROVE Crawl!Reach(M)[n] = Crawl!Reach(L)[n]
  <2>1. u \in Urls
    BY <1>2
  <2>2. d > 0 => u \notin Crawl!Reach(L)[d - 1]
    BY <1>18
  <2> QED  BY <1>3, <1>14, <1>16, <1>19, <2>1, <2>2, ReachLocal
<1>20. \A n \in Nat : n <= MaxDepth => Crawl!Reach(L)[n] \subseteq Crawl!Reach(M)[n]
  BY <1>14, <1>17, ReachMonotone
<1> DEFINE AtNow(x) == x.url \in Crawl!Reach(M)[x.depth] /\ (x.depth > 0 => x.url \notin Crawl!Reach(M)[x.depth - 1])
<1>21. ASSUME NEW x, x.depth \in 0..MaxDepth, x.depth <= d + 1, At(x) PROVE AtNow(x)
  <2>1. x.depth \in Nat /\ x.depth <= MaxDepth
    BY <1>3, <1>21
  <2>2. x.url \in Crawl!Reach(M)[x.depth]
    BY <1>13, <1>20, <1>21, <2>1 DEF At
  <2>3. ASSUME x.depth > 0 PROVE x.url \notin Crawl!Reach(M)[x.depth - 1]
    <3>1. x.depth - 1 \in Nat /\ x.depth - 1 <= d
      BY <1>3, <1>21, <2>1, <2>3
    <3> QED  BY <1>13, <1>19, <1>21, <2>3, <3>1 DEF At
  <2> QED  BY <2>2, <2>3
<1>22. ASSUME d < MaxDepth, NEW x \in links PROVE x \in Crawl!Reach(M)[d + 1]
  <2>1. u \in Crawl!Reach(M)[d]
    BY <1>3, <1>18, <1>19
  <2>2. Crawl!Reach(M)[d + 1] = Crawl!Reach(M)[d] \union UNION {M[v] : v \in Crawl!Reach(M)[d]}
    BY <1>3, <1>22, ReachIs
  <2> QED  BY <1>15, <1>22, <2>1, <2>2
<1>23. \A i \in 1..Len(s2) : d <= s2[i].depth /\ s2[i].depth <= d + 1 /\ s2[i].depth \in 0..MaxDepth
  <2>1. \A i \in 1..Len(s2) : 1 <= i
    OBVIOUS
  <2> QED  BY <1>1, <1>2, <2>1, CrawlTypes DEF WInv, InOrder
<1>24. \A i \in 1..Len(s4) : s4[i].depth <= d /\ s4[i].depth \in 0..MaxDepth
  BY <1>1, <1>2, CrawlTypes DEF WInv, InOrder
<1>25. InOrder'
  <2>1. ASSUME NEW i \in 1..Len(s2'), NEW j \in 1..Len(s2'), i <= j
        PROVE  s2'[i].depth <= s2'[j].depth /\ s2'[j].depth <= s2'[i].depth + 1
    <3>1. CASE i > k /\ j > k
      BY <1>3, <1>6, <3>1
    <3>2. CASE i <= k /\ j > k
      <4>1. i + 1 \in 1..Len(s2) /\ s2'[i] = s2[i + 1] /\ s2'[j].depth = d + 1
        BY <1>5, <1>6, <3>2
      <4> QED  BY <1>3, <1>23, <4>1
    <3>3. CASE i <= k /\ j <= k
      <4>1. /\ i + 1 \in 1..Len(s2) /\ s2'[i] = s2[i + 1] /\ j + 1 \in 1..Len(s2) /\ s2'[j] = s2[j + 1]
            /\ i + 1 <= j + 1
        BY <1>5, <2>1, <3>3
      <4> QED  BY <4>1 DEF WInv, InOrder
    <3> QED  BY <1>2, <2>1, <3>1, <3>2, <3>3
  <2>2. ASSUME NEW j \in 1..Len(s2') PROVE d <= s2'[j].depth /\ s2'[j].depth \in Nat
    <3>1. CASE j <= k
      BY <1>3, <1>5, <1>23, <3>1
    <3>2. CASE j > k
      BY <1>3, <1>6, <3>2
    <3> QED  BY <1>2, <3>1, <3>2
  <2>3. ASSUME NEW i \in 1..Len(s4') PROVE s4'[i].depth <= d /\ s4'[i].depth \in Nat
    BY <1>3, <1>7, <1>10, <1>24
  <2>4. \A i \in 1..Len(s4'), j \in 1..Len(s2') : s4'[i].depth <= s2'[j].depth
    BY <1>3, <2>2, <2>3
  <2> QED  BY <2>1, <2>4 DEF InOrder
<1>26. ASSUME NEW v \in Urls PROVE Waiting(v)' <=> (Waiting(v) /\ v # u) \/ v \in new \ Outside
  <2>1. ASSUME NEW i \in 1..Len(s2'), s2'[i].url = v PROVE (Waiting(v) /\ v # u) \/ v \in new \ Outside
    <3>1. CASE i > k
      BY <1>6, <2>1, <3>1
    <3>2. CASE i <= k
      <4>1. i + 1 \in 1..Len(s2) /\ s2[i + 1].url = v /\ i + 1 # 1
        BY <1>5, <2>1, <3>2
      <4> QED  BY <1>2, <4>1 DEF Waiting, WInv, QueuedOnce
    <3> QED  BY <1>2, <3>1, <3>2
  <2>2. ASSUME NEW i \in 1..Len(s2), s2[i].url = v, v # u PROVE \E j \in 1..Len(s2') : s2'[j].url = v
    <3>1. i # 1
      BY <1>2, <2>2
    <3>2. i - 1 <= k /\ (i - 1) + 1 = i /\ i - 1 \in 1..Len(s2')
      BY <1>2, <1>5, <3>1
    <3>3. s2'[i - 1] = s2[i]
      BY <1>5, <3>2
    <3> QED  BY <2>2, <3>2, <3>3
  <2> QED  BY <1>6, <2>1, <2>2 DEF Waiting
<1>27. QueuedOnce'
  <2>1. ASSUME NEW i \in 1..Len(s2'), NEW j \in 1..Len(s2'), s2'[i].url = s2'[j].url PROVE i = j
    <3>1. \A a \in 1..Len(s2') : a <= k => s2'[a].url \in s3 /\ a + 1 \in 1..Len(s2) /\ s2'[a] = s2[a + 1]
      BY <1>5 DEF WInv, QueuedOnce
    <3>2. \A a \in 1..Len(s2') : a > k => s2'[a].url \notin s3
      BY <1>4, <1>6
    <3>3. CASE i <= k /\ j <= k
      <4>1. i + 1 = j + 1
        BY <2>1, <3>1, <3>3 DEF WInv, QueuedOnce
      <4> QED  BY <4>1
    <3>4. CASE i > k /\ j > k
      BY <1>6, <2>1, <3>4
    <3> QED  BY <1>2, <2>1, <3>1, <3>2, <3>3, <3>4
  <2>2. ASSUME NEW i \in 1..Len(s2') PROVE s2'[i].url \in s3'
    <3>1. CASE i <= k
      BY <1>4, <1>5, <3>1 DEF WInv, QueuedOnce
    <3>2. CASE i > k
      BY <1>4, <1>6, <3>2
    <3> QED  BY <1>2, <3>1, <3>2
  <2>3. ASSUME NEW v \in Urls PROVE s1'[v].answer # "none" <=> v \in s3' \ Outside /\ ~ Waiting(v)'
    <3>1. s1[v].answer # "none" <=> v \in s3 \ Outside /\ ~ Waiting(v)
      BY DEF WInv, QueuedOnce
    <3>2. CASE v = u
      BY <1>2, <1>4, <1>8, <1>9, <1>26, <3>2
    <3>3. CASE v # u
      BY <1>4, <1>9, <1>26, <3>1, <3>3
    <3> QED  BY <3>2, <3>3
  <2>4. \A i \in 1..Len(s4) : s4[i].url \in Urls /\ s1[s4[i].url].answer # "none"
    BY <1>1, CrawlTypes DEF WInv, QueuedOnce
  <2>5. \A i \in 1..Len(s4') : s1'[s4'[i].url].answer # "none"
    BY <1>7, <1>9, <1>10, <2>4
  <2> QED  BY <2>1, <2>2, <2>3, <2>5 DEF QueuedOnce
<1>28. AtDistance'
  <2>1. ASSUME NEW i \in 1..Len(s2') PROVE AtNow(s2'[i])
    <3>1. CASE i <= k
      <4>1. i + 1 \in 1..Len(s2) /\ s2'[i] = s2[i + 1]
        BY <1>5, <3>1
      <4>2. At(s2[i + 1]) /\ s2[i + 1].depth <= d + 1 /\ s2[i + 1].depth \in 0..MaxDepth
        BY <1>23, <4>1 DEF WInv, AtDistance
      <4>3. AtNow(s2[i + 1])
        BY <1>21, <4>2
      <4> HIDE DEF AtNow
      <4> QED  BY <4>1, <4>3
    <3>2. CASE i > k
      <4>1. s2'[i].url \in new /\ s2'[i].depth = d + 1 /\ (d + 1) - 1 = d
        BY <1>3, <1>6, <3>2
      <4>2. d < MaxDepth
        BY <1>3, <1>4, <4>1
      <4>3. s2'[i].url \in Crawl!Reach(M)[d + 1]
        BY <1>4, <1>22, <4>1, <4>2
      <4>4. s2'[i].url \notin Crawl!Reach(M)[d]
        <5>1. Crawl!Reach(L)[d] \subseteq s3
          BY <1>3, <1>18, ReachGrows
        <5>2. Crawl!Reach(M)[d] = Crawl!Reach(L)[d]
          BY <1>3, <1>19
        <5> QED  BY <1>4, <4>1, <5>1, <5>2
      <4> QED  BY <4>1, <4>3, <4>4
    <3> QED  BY <1>2, <3>1, <3>2
  <2>2. ASSUME NEW i \in 1..Len(s4') PROVE AtNow(s4'[i])
    <3>1. CASE i \in 1..Len(s4) /\ s4'[i] = s4[i]
      <4>1. At(s4[i]) /\ s4[i].depth <= d + 1 /\ s4[i].depth \in 0..MaxDepth
        BY <1>3, <1>24, <3>1 DEF WInv, AtDistance
      <4>2. AtNow(s4[i])
        BY <1>21, <4>1
      <4> HIDE DEF AtNow
      <4> QED  BY <3>1, <4>2
    <3>2. CASE s4'[i] = f
      <4>1. u \in Crawl!Reach(M)[d]
        BY <1>3, <1>18, <1>19
      <4>2. ASSUME d > 0 PROVE u \notin Crawl!Reach(M)[d - 1]
        <5>1. d - 1 \in Nat /\ d - 1 <= d
          BY <1>3, <4>2
        <5> QED  BY <1>18, <1>19, <4>2, <5>1
      <4> QED  BY <1>7, <3>2, <4>1, <4>2
    <3> QED  BY <1>10, <3>1, <3>2
  <2> QED  BY <1>13, <2>1, <2>2 DEF AtDistance, At
<1>29. ReachIsQueued'
  <2>1. CASE d = MaxDepth
    <3>1. Crawl!Reach(M)[d] = Crawl!Reach(L)[d]
      BY <1>3, <1>19
    <3>2. new = {}
      BY <1>3, <1>4, <2>1
    <3> QED  BY <1>4, <1>13, <1>18, <2>1, <3>1, <3>2 DEF ReachIsQueued
  <2>2. CASE d < MaxDepth
    <3>1. s3 \subseteq Crawl!Reach(M)[MaxDepth]
      <4>1. MaxDepth <= MaxDepth
        BY <1>3
      <4> QED  BY <1>3, <1>18, <1>20, <4>1
    <3>2. new \subseteq Crawl!Reach(M)[MaxDepth]
      <4>1. d + 1 \in Nat /\ d + 1 <= MaxDepth /\ MaxDepth <= MaxDepth
        BY <1>3, <2>2
      <4>2. Crawl!Reach(M)[d + 1] \subseteq Crawl!Reach(M)[MaxDepth]
        BY <1>3, <4>1, ReachGrows
      <4> QED  BY <1>4, <1>22, <2>2, <4>2
    <3>3. ASSUME NEW v \in Urls PROVE M[v] \subseteq s3'
      <4>1. CASE v = u
        BY <1>4, <1>15, <2>2, <4>1
      <4>2. CASE v # u
        <5>1. M[v] = L[v]
          BY <1>16, <4>2
        <5>2. CASE L[v] = {}
          BY <5>1, <5>2
        <5>3. CASE L[v] # {}
          <6>1. PICK i \in 1..Len(s4) : s4[i].url = v
            BY <1>14, <5>3
          <6>2. s4[i].depth \in Nat /\ s4[i].depth < MaxDepth
            BY <1>3, <1>24, <2>2
          <6>3. v \in Crawl!Reach(L)[s4[i].depth]
            BY <1>13, <6>1 DEF WInv, AtDistance, At
          <6>4. Crawl!Reach(L)[s4[i].depth + 1] =
                  Crawl!Reach(L)[s4[i].depth] \union UNION {L[w] : w \in Crawl!Reach(L)[s4[i].depth]}
            BY <6>2, ReachIs
          <6>5. Crawl!Reach(L)[s4[i].depth + 1] \subseteq Crawl!Reach(L)[MaxDepth]
            <7>1. s4[i].depth + 1 \in Nat /\ s4[i].depth + 1 <= MaxDepth /\ MaxDepth <= MaxDepth
              BY <1>3, <6>2
            <7> QED  BY <1>3, <7>1, ReachGrows
          <6> QED  BY <1>4, <1>18, <5>1, <6>3, <6>4, <6>5
        <5> QED  BY <5>2, <5>3
      <4> QED  BY <4>1, <4>2
    <3>4. s3' \in SUBSET Urls /\ Crawl!ToSet(Seeds) \subseteq s3'
      <4>1. s3' \in SUBSET Urls
        BY <1>1, <1>4, CrawlTypes
      <4>2. Crawl!Reach(L)[0] \subseteq s3
        <5>1. 0 <= MaxDepth /\ MaxDepth <= MaxDepth
          BY <1>3
        <5> QED  BY <1>3, <1>18, <5>1, ReachGrows
      <4> QED  BY <1>4, <4>1, <4>2, ReachIs
    <3>5. Crawl!Reach(M)[MaxDepth] \subseteq s3'
      <4>1. MaxDepth <= MaxDepth
        BY <1>3
      <4> QED  BY <1>3, <1>14, <3>3, <3>4, <4>1, ReachWithin
    <3> QED  BY <1>4, <1>13, <3>1, <3>2, <3>5 DEF ReachIsQueued
  <2> QED  BY <1>3, <2>1, <2>2
<1> QED  BY <1>1, <1>25, <1>27, <1>28, <1>29 DEF WInv

\* _crawl_one and the rest of the loop's body.
LEMMA VisitKeeps == ASSUME WInv, Crawl!Visit PROVE WInv'
<1> DEFINE u == Crawl!Taken.next.url
           d == Crawl!Taken.next.depth
<1>1. PICK p \in Crawl!Responses(u) :
        /\ Crawl!Goes /\ u \notin Outside /\ s5' = s5
        /\ s1' = [s1 EXCEPT ![u] = p]
        /\ IF ~Crawl!IsDocument(p) \/ Crawl!Repeated(p)
           THEN s2' = Crawl!Taken.rest /\ s3' = s3 /\ s4' = s4
           ELSE /\ s4' = Append(s4, [url |-> u, depth |-> d, id |-> p.id, says |-> p.says])
                /\ s3' = s3 \union Crawl!NewLinks(p, d)
                /\ \E links \in Crawl!SetToSeqs(Crawl!NewLinks(p, d) \ Outside) :
                     s2' = Crawl!Taken.rest \o [i \in 1..Len(links) |-> [url |-> links[i], depth |-> d + 1]]
  BY DEF Crawl!Visit
<1>2. Crawl!TypeOK /\ u \in Urls
  BY <1>1, TakenIs DEF WInv
<1>3. p \in Crawl!Page /\ p.answer # "none" /\ IsFiniteSet(p.links)
  <2>1. \A links \in Crawl!LinkSets : IsFiniteSet(links) /\ links \subseteq Urls
    BY DEF Crawl!LinkSets, Crawl!IsFiniteSet, IsFiniteSet
  <2>2. IsFiniteSet({})
    BY FS_EmptySet
  <2>3. Aliases \subseteq Urls
    BY CrawlAssumed
  <2> HIDE DEF u
  <2> QED  BY <1>1, <1>2, <2>1, <2>2, <2>3 DEF Crawl!Responses, Crawl!Page, Crawl!Answers
<1>4. s1' \in [Urls -> Crawl!Page] /\ s1'[u] = p /\ \A v \in Urls : v # u => s1'[v] = s1[v]
  BY <1>1, <1>2, <1>3 DEF Crawl!TypeOK
<1>5. CASE ~Crawl!IsDocument(p) \/ Crawl!Repeated(p)
  BY <1>1, <1>3, <1>4, <1>5, RestKeeps
<1>6. CASE ~(~Crawl!IsDocument(p) \/ Crawl!Repeated(p))
  <2>1. PICK q \in Crawl!SetToSeqs(Crawl!NewLinks(p, d) \ Outside) :
          s2' = Crawl!Taken.rest \o [i \in 1..Len(q) |-> [url |-> q[i], depth |-> d + 1]]
    BY <1>1, <1>6
  <2>2. FoundAtOnce(u, d, p.links, Crawl!NewLinks(p, d), Len(Crawl!Taken.rest))
    BY <1>1, <1>3, <1>6, <2>1, DocumentIsFound
  <2> QED  BY <2>2, FoundKeeps
<1> QED  BY <1>5, <1>6

LEMMA CrawlNext == ASSUME WInv, [Crawl!Next]_(Crawl!vars) PROVE WInv'
<1>1. ASSUME s1' = s1, s2' = s2, s3' = s3, s4' = s4, s5' \in {"running", "stopped", "complete"}, CrawlEnds'
      PROVE  WInv'
  <2>1. Crawl!TypeOK'
    BY <1>1 DEF WInv, Crawl!TypeOK
  <2>2. Crawl!Within' = Crawl!Within
    BY <1>1 DEF Crawl!Within, Crawl!Links, Crawl!Expanded
  <2> QED  BY <1>1, <2>1, <2>2 DEF WInv, InOrder, QueuedOnce, Waiting, AtDistance, At, ReachIsQueued
<1>2. CASE Crawl!Skip
  <2>1. Crawl!TypeOK
    BY DEF WInv
  <2> QED  BY <1>2, <2>1, RestKeeps DEF Crawl!Skip, Crawl!TypeOK
<1>3. CASE Crawl!Stop
  BY <1>1, <1>3 DEF Crawl!Stop, CrawlEnds
<1>4. CASE Crawl!Finish
  <2>1. s4 \in Seq(Crawl!Found) /\ Limit \in Nat
    BY CrawlTypes, CrawlAssumed DEF WInv
  <2>2. CrawlEnds'
    BY <1>4, <2>1 DEF Crawl!Finish, Crawl!Goes, CrawlEnds
  <2> QED  BY <1>1, <1>4, <2>2 DEF Crawl!Finish
<1>5. CASE UNCHANGED Crawl!vars
  <2>1. CrawlEnds' /\ s5' \in {"running", "stopped", "complete"}
    BY <1>5 DEF Crawl!vars, WInv, CrawlEnds, Crawl!TypeOK
  <2> QED  BY <1>1, <1>5, <2>1 DEF Crawl!vars
<1> QED  BY <1>2, <1>3, <1>4, <1>5, VisitKeeps DEF Crawl!Next

\* What was found is at its distance, and a whole crawl has asked for all of it.
LEMMA CrawlReaches == ASSUME WInv PROVE Crawl!EveryPageInReach
<1>1. Crawl!TypeOK
  BY DEF WInv
<1>2. DOMAIN s4 = 1..Len(s4)
  BY <1>1, CrawlTypes
<1>3. \A i \in DOMAIN s4 : At(s4[i])
  BY <1>2 DEF WInv, AtDistance
<1>4. ASSUME s5 = "complete", Len(s4) < Limit
      PROVE  {u \in Urls : s1[u].answer # "none"} = Crawl!Within[MaxDepth] \ Outside
  <2>1. s2 = <<>>
    <3>1. Len(s4) \in Nat /\ Limit \in Nat
      BY <1>1, CrawlTypes, CrawlAssumed
    <3> QED  BY <1>4, <3>1 DEF WInv, CrawlEnds
  <2>2. \A u : ~ Waiting(u)
    BY <2>1 DEF Waiting
  <2>3. Crawl!Within[MaxDepth] = s3 /\ s3 \subseteq Urls
    BY <1>1, CrawlTypes DEF WInv, ReachIsQueued
  <2> QED  BY <2>2, <2>3 DEF WInv, QueuedOnce
<1> QED  BY <1>3, <1>4 DEF Crawl!EveryPageInReach, At

-----------------------------------------------------------------------------
(* SettingsCache.  (s1 is service, s2 row, s3 cache, s4 lookup, s5 writer,  *)
(* s6 excused.)                                                             *)

CacheTypes ==
  /\ s1 \in {"platform", "retrieval", "flag", "profile"}
  /\ s2 \in Cache!Row
  /\ s3 \in [Processes -> SUBSET Cache!Entry] /\ s4 \in [Processes -> SUBSET Cache!Row]
  /\ s5 \in [Writers -> Cache!Writer] /\ s6 \in [Processes -> SUBSET Cache!Row]

\* Nobody wrote a version that is not there yet.
WrittenBefore == \A w \in Writers : s5[w].version <= s2.version

\* Once a writer has its answer, what its process believes or has read is excused, or
\* no older than what was written.
NoneOlder(w, r) == r.version < s5[w].version => r \in s6[s5[w].at]
ReadsAreExcused ==
  s1 \in {"platform", "retrieval"} =>
    \A w \in Writers : s5[w].step = "done" =>
      /\ \A e \in s3[s5[w].at] : NoneOlder(w, e.row)
      /\ \A r \in s4[s5[w].at] : NoneOlder(w, r)

CInv == CacheTypes /\ WrittenBefore /\ ReadsAreExcused

\* At the start nothing is cached, read or written.
LEMMA CacheInit == ASSUME Cache!Init PROVE CInv
<1>1. (CHOOSE v \in Values : TRUE) \in Values /\ (CHOOSE p \in Processes : TRUE) \in Processes
  BY ServicesAssumption
<1>2. s2 \in Cache!Row /\ s2.version = 0
  BY <1>1 DEF Cache!Init, Cache!Row
<1>3. \A w \in Writers : s5[w].step = "idle" /\ s5[w].version = 0
  BY DEF Cache!Init
<1>4. s5 \in [Writers -> Cache!Writer]
  <2>1. [step |-> "idle", at |-> CHOOSE p \in Processes : TRUE, value |-> s2.value, version |-> 0]
          \in Cache!Writer
    BY <1>1, <1>2 DEF Cache!Row, Cache!Writer, Cache!Steps
  <2> QED  BY <2>1 DEF Cache!Init
<1>5. CacheTypes
  BY <1>2, <1>4 DEF Cache!Init, CacheTypes
<1>6. WrittenBefore
  BY <1>2, <1>3 DEF WrittenBefore
<1> QED  BY <1>3, <1>5, <1>6 DEF CInv, ReadsAreExcused

\* A lookup reads what is there, which no writer's answer is ahead of.
LEMMA LookupKeeps == ASSUME CInv, NEW p \in Processes, Cache!Lookup(p) PROVE CInv'
<1>1. /\ s4' = [s4 EXCEPT ![p] = s4[p] \union {s2}]
      /\ UNCHANGED <<s1, s2, s3, s5, s6>>
  BY DEF Cache!Lookup, CInv, CacheTypes
<1>2. CacheTypes' /\ WrittenBefore'
  BY <1>1 DEF CInv, CacheTypes, WrittenBefore
<1>3. ASSUME NEW w \in Writers PROVE NoneOlder(w, s2)
  <2>1. s5[w].version \in Nat /\ s2.version \in Nat
    BY DEF CInv, CacheTypes, Cache!Writer, Cache!Row
  <2> QED  BY <2>1 DEF CInv, WrittenBefore, NoneOlder
<1>4. \A q \in Processes : \A r \in s4'[q] : r \in s4[q] \/ r = s2
  BY <1>1 DEF CInv, CacheTypes
<1>5. \A w \in Writers : s5[w].at \in Processes
  BY DEF CInv, CacheTypes, Cache!Writer
<1>6. ReadsAreExcused'
  BY <1>1, <1>3, <1>4, <1>5 DEF CInv, ReadsAreExcused, NoneOlder
<1> QED  BY <1>2, <1>6 DEF CInv

\* What it stores it has read.
LEMMA StoreKeeps ==
  ASSUME CInv, NEW p \in Processes, NEW r \in s4[p], Cache!Store(p, r)
  PROVE  CInv'
<1>1. /\ s4' = [s4 EXCEPT ![p] = s4[p] \ {r}]
      /\ s3' = [s3 EXCEPT ![p] = {[row |-> r, age |-> 0]}]
      /\ UNCHANGED <<s1, s2, s5, s6>>
  BY DEF Cache!Store, CInv, CacheTypes
<1>2. [row |-> r, age |-> 0] \in Cache!Entry /\ [row |-> r, age |-> 0].row = r
  BY ServicesAssumption DEF CInv, CacheTypes, Cache!Entry, Cache!CacheAssumption
<1>3. CacheTypes' /\ WrittenBefore'
  BY <1>1, <1>2 DEF CInv, CacheTypes, WrittenBefore
<1>4. \A q \in Processes : /\ s4'[q] \subseteq s4[q]
                           /\ \A e \in s3'[q] : e \in s3[q] \/ (q = p /\ e.row = r)
  BY <1>1, <1>2 DEF CInv, CacheTypes
<1>5. \A w \in Writers : s5[w].at \in Processes
  BY DEF CInv, CacheTypes, Cache!Writer
<1>6. ReadsAreExcused'
  BY <1>1, <1>4, <1>5 DEF CInv, ReadsAreExcused, NoneOlder
<1> QED  BY <1>3, <1>6 DEF CInv

\* Entries expire.
LEMMA CacheTick == ASSUME CInv, Cache!Tick PROVE CInv'
<1>1. /\ \A q \in Processes : s3'[q] = Cache!Aged(s3[q])
      /\ s3' = [q \in Processes |-> Cache!Aged(s3[q])]
      /\ UNCHANGED <<s1, s2, s4, s5, s6>>
  BY DEF Cache!Tick
<1>2. ASSUME NEW q \in Processes
      PROVE  /\ Cache!Aged(s3[q]) \subseteq Cache!Entry
             /\ \A e \in Cache!Aged(s3[q]) : \E f \in s3[q] : e.row = f.row
  <2> SUFFICES ASSUME NEW f \in s3[q], f.age + 1 < TTL
               PROVE  /\ [row |-> f.row, age |-> f.age + 1] \in Cache!Entry
                      /\ [row |-> f.row, age |-> f.age + 1].row = f.row
    BY DEF Cache!Aged
  <2>1. f \in Cache!Entry
    BY DEF CInv, CacheTypes
  <2>2. f.row \in Cache!Row /\ f.age + 1 \in 0..TTL - 1
    BY <2>1, ServicesAssumption DEF Cache!Entry, Cache!CacheAssumption
  <2> QED  BY <2>2 DEF Cache!Entry
<1>3. CacheTypes' /\ WrittenBefore'
  BY <1>1, <1>2 DEF CInv, CacheTypes, WrittenBefore
<1>4. \A w \in Writers : s5[w].at \in Processes
  BY DEF CInv, CacheTypes, Cache!Writer
<1>5. ReadsAreExcused'
  <2> SUFFICES ASSUME s1 \in {"platform", "retrieval"}, NEW w \in Writers, s5[w].step = "done"
               PROVE  /\ \A e \in s3'[s5[w].at] : NoneOlder(w, e.row)
                      /\ \A r \in s4[s5[w].at] : NoneOlder(w, r)
    BY <1>1 DEF ReadsAreExcused, NoneOlder
  <2> QED  BY <1>1, <1>2, <1>4 DEF CInv, ReadsAreExcused
<1> QED  BY <1>3, <1>5 DEF CInv

\* A request that is asked for, or has its row flushed or committed, has no answer yet.
LEMMA WriteKeeps ==
  ASSUME CInv, NEW w \in Writers, Cache!Ask(w) \/ Cache!Flush(w) \/ Cache!Commit(w)
  PROVE  CInv'
<1>1. s5[w] \in Cache!Writer /\ s5 \in [Writers -> Cache!Writer] /\ s2 \in Cache!Row /\ s2.version \in Nat
  BY DEF CInv, CacheTypes, Cache!Row
<1>2. CASE Cache!Ask(w)
  <2>1. PICK p \in Processes, v \in Values :
          s5' = [s5 EXCEPT ![w] = [s5[w] EXCEPT !.step = "asked", !.at = p, !.value = v]]
    BY <1>1, <1>2 DEF Cache!Ask
  <2>2. UNCHANGED <<s1, s2, s3, s4, s6>>
    BY <1>2 DEF Cache!Ask
  <2>3. /\ [s5[w] EXCEPT !.step = "asked", !.at = p, !.value = v] \in Cache!Writer
        /\ s5'[w].step = "asked" /\ s5'[w].version = s5[w].version
        /\ \A u \in Writers \ {w} : s5'[u] = s5[u]
    BY <1>1, <2>1 DEF Cache!Writer, Cache!Steps
  <2>4. CacheTypes' /\ WrittenBefore'
    BY <1>1, <2>1, <2>2, <2>3 DEF CInv, CacheTypes, WrittenBefore
  <2>5. ReadsAreExcused'
    BY <2>2, <2>3 DEF CInv, ReadsAreExcused, NoneOlder
  <2> QED  BY <2>4, <2>5 DEF CInv
<1>3. CASE Cache!Flush(w)
  <2>1. s1 = "flag" /\ UNCHANGED <<s1, s2, s4, s6>>
    BY <1>3 DEF Cache!Flush
  <2>2. s5' = [s5 EXCEPT ![w] = [s5[w] EXCEPT !.step = "flushed"]]
    BY <1>1, <1>3 DEF Cache!Flush
  <2>3. [s5[w] EXCEPT !.step = "flushed"] \in Cache!Writer
        /\ [s5[w] EXCEPT !.step = "flushed"].version = s5[w].version
    BY <1>1 DEF Cache!Writer, Cache!Steps
  <2>4. s3' \in [Processes -> SUBSET Cache!Entry]
    BY <1>3 DEF Cache!Flush, Cache!Dropped, CInv, CacheTypes
  <2>5. CacheTypes' /\ WrittenBefore'
    BY <1>1, <2>1, <2>2, <2>3, <2>4 DEF CInv, CacheTypes, WrittenBefore
  <2> QED  BY <2>1, <2>5 DEF CInv, ReadsAreExcused
<1>4. CASE Cache!Commit(w)
  <2> DEFINE step == IF s1 = "flag" THEN "done" ELSE "committed"
             t == [s5[w] EXCEPT !.step = step, !.version = s2.version + 1]
  <2>1. s5' = [s5 EXCEPT ![w] = t] /\ UNCHANGED <<s1, s3, s4, s6>>
    BY <1>1, <1>4 DEF Cache!Commit
  <2>2. s2' = [value |-> s5[w].value, version |-> s2.version + 1]
    BY <1>4 DEF Cache!Commit
  <2>3. step \in Cache!Steps /\ (s1 # "flag" => step = "committed") /\ s2.version + 1 \in Nat
    BY <1>1 DEF Cache!Steps
  <2> HIDE DEF step
  <2>4. t \in Cache!Writer /\ t.step = step /\ t.version = s2.version + 1
    BY <1>1, <2>3 DEF Cache!Writer
  <2> HIDE DEF t
  <2>5. s2' \in Cache!Row /\ s2'.version = s2.version + 1
    BY <1>1, <2>2 DEF Cache!Row, Cache!Writer
  <2>6. s5' \in [Writers -> Cache!Writer] /\ s5'[w] = t /\ \A u \in Writers \ {w} : s5'[u] = s5[u]
    BY <1>1, <2>1, <2>4
  <2>7. CacheTypes'
    BY <2>1, <2>5, <2>6 DEF CInv, CacheTypes
  <2>8. WrittenBefore'
    <3>1. \A u \in Writers : s5[u].version \in Nat /\ s5[u].version <= s2.version
      BY <1>1 DEF CInv, WrittenBefore, Cache!Writer
    <3> QED  BY <1>1, <2>4, <2>5, <2>6, <3>1 DEF WrittenBefore
  <2>9. ReadsAreExcused'
    BY <2>1, <2>3, <2>4, <2>6 DEF CInv, ReadsAreExcused, NoneOlder
  <2> QED  BY <2>7, <2>8, <2>9 DEF CInv
<1> QED  BY <1>2, <1>3, <1>4

\* With the answer the entry is dropped, and the lookups under way are the excused ones.
LEMMA RespondKeeps == ASSUME CInv, NEW w \in Writers, Cache!Respond(w) PROVE CInv'
<1> DEFINE p == s5[w].at
<1>1. /\ s5[w] \in Cache!Writer /\ s5 \in [Writers -> Cache!Writer] /\ p \in Processes
      /\ s3 \in [Processes -> SUBSET Cache!Entry] /\ s6 \in [Processes -> SUBSET Cache!Row]
      /\ s4 \in [Processes -> SUBSET Cache!Row]
  BY DEF CInv, CacheTypes, Cache!Writer
<1>2. /\ s5' = [s5 EXCEPT ![w] = [s5[w] EXCEPT !.step = "done"]]
      /\ s6' = [s6 EXCEPT ![p] = s4[p]] /\ UNCHANGED <<s1, s2, s4>>
      /\ s3' \in {s3, [s3 EXCEPT ![p] = {}]}
      /\ s1 \in {"platform", "retrieval"} => s3' = [s3 EXCEPT ![p] = {}]
  BY <1>1 DEF Cache!Respond, Cache!Dropped, Cache!DropsAfter
<1>3. /\ s5' \in [Writers -> Cache!Writer] /\ s5'[w].at = p /\ s5'[w].version = s5[w].version
      /\ \A u \in Writers \ {w} : s5'[u] = s5[u]
  BY <1>1, <1>2 DEF Cache!Writer, Cache!Steps
<1>4. CacheTypes' /\ WrittenBefore'
  BY <1>1, <1>2, <1>3 DEF CInv, CacheTypes, WrittenBefore
<1>5. ReadsAreExcused'
  <2> SUFFICES ASSUME s1 \in {"platform", "retrieval"}, NEW u \in Writers, s5'[u].step = "done"
               PROVE  /\ \A e \in s3'[s5'[u].at] : NoneOlder(u, e.row)'
                      /\ \A r \in s4[s5'[u].at] : NoneOlder(u, r)'
    BY <1>2 DEF ReadsAreExcused, NoneOlder
  <2>1. s5'[u].at \in Processes
    BY <1>3 DEF Cache!Writer
  <2>2. CASE s5'[u].at = p
    <3>1. s3'[p] = {} /\ s6'[p] = s4[p]
      BY <1>1, <1>2
    <3> QED  BY <2>2, <3>1 DEF NoneOlder
  <2>3. CASE s5'[u].at # p
    <3>1. u # w /\ s5'[u] = s5[u]
      BY <1>3, <2>3
    <3>2. s3'[s5[u].at] = s3[s5[u].at] /\ s6'[s5[u].at] = s6[s5[u].at]
      BY <1>1, <1>2, <2>1, <2>3, <3>1
    <3> QED  BY <3>1, <3>2 DEF CInv, ReadsAreExcused, NoneOlder
  <2> QED  BY <2>2, <2>3
<1> QED  BY <1>4, <1>5 DEF CInv

LEMMA CacheNext == ASSUME CInv, [Cache!Next]_(Cache!vars) PROVE CInv'
<1>1. ASSUME UNCHANGED Cache!vars PROVE CInv'
  BY <1>1 DEF Cache!vars, CInv, CacheTypes, WrittenBefore, ReadsAreExcused, NoneOlder
<1> QED
  BY <1>1, LookupKeeps, StoreKeeps, CacheTick, WriteKeeps, RespondKeeps DEF Cache!Next, Cache!Write

LEMMA CacheReads == ASSUME CInv PROVE Cache!ReadsOwnWrite
BY DEF CInv, ReadsAreExcused, NoneOlder, Cache!ReadsOwnWrite, Cache!Served

\* Of a key a process believes one thing.
OneEntry == \A p \in Processes : \A e, f \in s3[p] : e = f

LEMMA OneEntryInit == ASSUME Cache!Init PROVE OneEntry
BY DEF Cache!Init, OneEntry

LEMMA OneEntryKeeps ==
  ASSUME CInv, OneEntry, [Cache!Next]_(Cache!vars) PROVE OneEntry'
<1>1. s3 \in [Processes -> SUBSET Cache!Entry] /\ \A w \in Writers : s5[w].at \in Processes
  BY DEF CInv, CacheTypes, Cache!Writer
<1>2. ASSUME UNCHANGED s3 PROVE OneEntry'
  BY <1>2 DEF OneEntry
<1>3. ASSUME NEW p \in Processes, s3' = [s3 EXCEPT ![p] = {}] PROVE OneEntry'
  BY <1>1, <1>3 DEF OneEntry
<1>4. ASSUME NEW p \in Processes, NEW r \in s4[p], Cache!Store(p, r) PROVE OneEntry'
  <2>1. s3' = [s3 EXCEPT ![p] = {[row |-> r, age |-> 0]}]
    BY <1>4 DEF Cache!Store
  <2> QED  BY <1>1, <2>1 DEF OneEntry
<1>5. ASSUME Cache!Tick PROVE OneEntry'
  <2>1. \A q \in Processes : s3'[q] = Cache!Aged(s3[q])
    BY <1>5 DEF Cache!Tick
  <2>2. ASSUME NEW q \in Processes, NEW e \in s3'[q], NEW f \in s3'[q] PROVE e = f
    <3>1. PICK g \in s3[q] : e = [row |-> g.row, age |-> g.age + 1]
      BY <2>1, <2>2 DEF Cache!Aged
    <3>2. PICK h \in s3[q] : f = [row |-> h.row, age |-> h.age + 1]
      BY <2>1, <2>2 DEF Cache!Aged
    <3> QED  BY <3>1, <3>2 DEF OneEntry
  <2> QED  BY <2>2 DEF OneEntry
<1>6. ASSUME NEW w \in Writers, Cache!Ask(w) \/ Cache!Write(w) PROVE OneEntry'
  <2>1. UNCHANGED s3 \/ s3' = [s3 EXCEPT ![s5[w].at] = {}]
    BY <1>6 DEF Cache!Ask, Cache!Write, Cache!Flush, Cache!Commit, Cache!Respond, Cache!Dropped
  <2> QED  BY <1>1, <1>2, <1>3, <2>1
<1> QED
  BY <1>2, <1>4, <1>5, <1>6 DEF Cache!Next, Cache!Lookup, Cache!vars

LEMMA CacheTypeOK == ASSUME CInv, OneEntry PROVE Cache!TypeOK
<1>1. ASSUME NEW p \in Processes PROVE Cache!Cardinality(s3[p]) <= 1
  <2>1. CASE s3[p] = {}
    BY <2>1, FS_EmptySet DEF Cache!Cardinality, Cardinality
  <2>2. CASE s3[p] # {}
    <3>1. PICK e : e \in s3[p]
      BY <2>2
    <3>2. s3[p] = {e}
      BY <3>1 DEF OneEntry
    <3>3. Cardinality(s3[p]) = 1
      BY <3>2, FS_Singleton
    <3>4. Cache!Cardinality(s3[p]) = Cardinality(s3[p])
      BY DEF Cache!Cardinality, Cardinality
    <3> QED  BY <3>3, <3>4
  <2> QED  BY <2>1, <2>2
<1> QED  BY <1>1 DEF CInv, CacheTypes, Cache!TypeOK

-----------------------------------------------------------------------------
(* AgentGraph.  (s1 is thread, s2 rows, s3 run.)                            *)

LEMMA AgentAssumed ==
  MaxTurns \in Nat /\ MaxCalls \in Nat \ {0} /\ MaxParts \in Nat /\ HistoryLimit \in Nat \ {0}
BY ServicesAssumption DEF Agent!AgentAssumption

LEMMA SameCardinality == \A S : Agent!Cardinality(S) = Cardinality(S)
BY DEF Agent!Cardinality, Cardinality

LEMMA LargestMember ==
  ASSUME NEW n \in Nat, NEW S \in SUBSET (1..n), S # {}
  PROVE  Agent!Max(S) \in S /\ \A k \in S : k <= Agent!Max(S)
<1> DEFINE T == {d \in Nat : \E k \in S : d = n - k}
<1>1. T \in SUBSET Nat /\ T # {}
  <2>1. PICK k \in S : k \in 1..n
    OBVIOUS
  <2>2. n - k \in T
    BY <2>1
  <2> QED  BY <2>2
<1>2. PICK d \in T : \A e \in T : d <= e
  <2> HIDE DEF T
  <2> QED  BY <1>1, SmallestMember
<1>3. PICK m \in S : d = n - m
  BY <1>2
<1>4. ASSUME NEW k \in S PROVE k <= m
  <2>1. n - k \in T
    OBVIOUS
  <2> QED  BY <2>1, <1>2, <1>3
<1>5. \A x \in S : x \in Nat
  OBVIOUS
<1> QED  BY <1>3, <1>4, <1>5 DEF Agent!Max

\* The last question of messages: the one with no question behind it.
LEMMA TurnIs ==
  ASSUME NEW ms \in Seq(Agent!Message), NEW k \in 1..Len(ms), ms[k].kind = "question",
         \A i \in k + 1..Len(ms) : ms[i].kind # "question"
  PROVE  Agent!TurnOf(ms) = ms[k].turn
<1>1. Agent!Questions(ms) \in SUBSET (1..Len(ms)) /\ k \in Agent!Questions(ms) /\ Len(ms) \in Nat
  BY DEF Agent!Questions
<1>2. Agent!Max(Agent!Questions(ms)) \in Agent!Questions(ms) /\ k <= Agent!Max(Agent!Questions(ms))
  BY <1>1, LargestMember
<1>3. Agent!Max(Agent!Questions(ms)) = k
  BY <1>1, <1>2 DEF Agent!Questions
<1> QED  BY <1>1, <1>3 DEF Agent!TurnOf

\* A message that is not a question does not change the turn.
LEMMA TurnStays ==
  ASSUME NEW ms \in Seq(Agent!Message), NEW m \in Agent!Message, m.kind # "question"
  PROVE  Agent!TurnOf(Append(ms, m)) = Agent!TurnOf(ms)
<1>1. Len(ms) \in Nat /\ Len(Append(ms, m)) = Len(ms) + 1 /\ Append(ms, m)[Len(ms) + 1] = m
      /\ \A i \in 1..Len(ms) : Append(ms, m)[i] = ms[i]
  OBVIOUS
<1>2. Agent!Questions(Append(ms, m)) = Agent!Questions(ms)
  BY <1>1 DEF Agent!Questions
<1>3. Agent!Questions(ms) # {} => Agent!Max(Agent!Questions(ms)) \in 1..Len(ms)
  <2>1. Agent!Questions(ms) \in SUBSET (1..Len(ms))
    BY DEF Agent!Questions
  <2> QED  BY <1>1, <2>1, LargestMember
<1> QED  BY <1>1, <1>2, <1>3 DEF Agent!TurnOf

LEMMA TurnIn ==
  ASSUME NEW ms \in Seq(Agent!Message)
  PROVE  /\ Agent!TurnOf(ms) \in Agent!Sometime
         /\ Agent!Questions(ms) # {} => Agent!TurnOf(ms) \in Agent!Turn
<1>1. Agent!Questions(ms) \in SUBSET (1..Len(ms)) /\ Len(ms) \in Nat
  BY DEF Agent!Questions
<1>2. \A i \in 1..Len(ms) : ms[i] \in Agent!Message
  OBVIOUS
<1>3. Agent!Questions(ms) # {} => Agent!TurnOf(ms) \in Agent!Turn
  BY <1>1, <1>2, LargestMember DEF Agent!TurnOf, Agent!Message
<1> QED  BY <1>3, AgentAssumed DEF Agent!TurnOf, Agent!Turn, Agent!Sometime

\* One more call, or one more of anything else.
LEMMA CallsGrow ==
  ASSUME NEW ms \in Seq(Agent!Message), NEW m \in Agent!Message, m.kind # "question",
         m.turn = Agent!TurnOf(ms)
  PROVE  /\ Cardinality(Agent!CallsOf(ms)) \in Nat
         /\ Cardinality(Agent!CallsOf(Append(ms, m))) =
              IF m.kind = "call" THEN Cardinality(Agent!CallsOf(ms)) + 1
              ELSE Cardinality(Agent!CallsOf(ms))
<1>1. Len(ms) \in Nat /\ Len(Append(ms, m)) = Len(ms) + 1 /\ Append(ms, m)[Len(ms) + 1] = m
      /\ \A i \in 1..Len(ms) : Append(ms, m)[i] = ms[i]
  OBVIOUS
<1>2. Agent!TurnOf(Append(ms, m)) = Agent!TurnOf(ms)
  BY TurnStays
<1>3. Agent!CallsOf(Append(ms, m)) =
        IF m.kind = "call" THEN Agent!CallsOf(ms) \union {Len(ms) + 1} ELSE Agent!CallsOf(ms)
  BY <1>1, <1>2 DEF Agent!CallsOf
<1>4. Agent!CallsOf(ms) \in SUBSET (1..Len(ms)) /\ Len(ms) + 1 \notin Agent!CallsOf(ms)
  BY <1>1 DEF Agent!CallsOf
<1>5. IsFiniteSet(Agent!CallsOf(ms))
  <2>1. IsFiniteSet(1..Len(ms))
    BY <1>1, FS_Interval
  <2> QED  BY <1>4, <2>1, FS_Subset
<1>6. Cardinality(Agent!CallsOf(ms) \union {Len(ms) + 1}) = Cardinality(Agent!CallsOf(ms)) + 1
  BY <1>4, <1>5, FS_AddElement
<1> QED  BY <1>3, <1>5, <1>6, FS_CardinalityType

\* What is added comes from the right, behind what was there; also its last message, if
\* it is new.
LEMMA AddedIs ==
  ASSUME NEW left \in Seq(Agent!Message), NEW right \in Seq(Agent!Message)
  PROVE  LET ms == Agent!AddMessages(left, right) IN
         /\ ms \in Seq(Agent!Message) /\ Len(ms) >= Len(left)
         /\ \A i \in 1..Len(left) : ms[i] = left[i]
         /\ \A i \in Len(left) + 1..Len(ms) : \E j \in 1..Len(right) : ms[i] = right[j]
         /\ Len(right) > 0 /\ right[Len(right)] \notin Agent!ToSet(left)
              => Len(ms) > Len(left) /\ ms[Len(ms)] = right[Len(right)]
<1> DEFINE Step(f, k) == IF k = 0 THEN left
                         ELSE IF right[k] \in Agent!ToSet(left) THEN f[k - 1] ELSE Append(f[k - 1], right[k])
           Added(f, n) == f = [k \in 0..n |-> Step(f, k)]
           S == {n \in Nat : \E f : Added(f, n)}
<1>1. 0 \in S
  <2>1. Added([k \in {0} |-> left], 0)
    OBVIOUS
  <2> QED  BY <2>1
<1>2. ASSUME NEW n \in Nat, n \in S PROVE n + 1 \in S
  <2>1. PICK f : Added(f, n)
    BY <1>2
  <2> DEFINE g == [k \in 0..n + 1 |-> IF k = n + 1 THEN Step(f, k) ELSE f[k]]
  <2>2. ASSUME NEW k \in 0..n + 1 PROVE g[k] = Step(g, k)
    <3>1. CASE k = 0
      BY <2>1, <3>1
    <3>2. CASE k \in 1..n
      <4>1. k \in 0..n /\ k - 1 \in 0..n /\ k # 0 /\ k # n + 1 /\ k - 1 # n + 1
        BY <3>2
      <4>2. f[k] = Step(f, k)
        BY <2>1, <4>1
      <4>3. g[k] = f[k] /\ g[k - 1] = f[k - 1]
        BY <4>1
      <4> HIDE DEF g
      <4> QED  BY <4>1, <4>2, <4>3
    <3>3. CASE k = n + 1
      <4>1. k # 0 /\ k - 1 \in 0..n /\ k - 1 # n + 1
        BY <3>3
      <4>2. g[k] = Step(f, k) /\ g[k - 1] = f[k - 1]
        BY <3>3, <4>1
      <4> HIDE DEF g
      <4> QED  BY <4>1, <4>2
    <3> QED  BY <3>1, <3>2, <3>3
  <2>3. Added(g, n + 1)
    BY <2>2
  <2> HIDE DEF g, Added
  <2> QED  BY <2>3
<1> HIDE DEF S
<1>3. Len(right) \in Nat /\ Len(right) \in S
  BY <1>1, <1>2, Induct
<1> USE DEF S
<1> DEFINE f == CHOOSE f : Added(f, Len(right))
<1>4. Added(f, Len(right))
  BY <1>3
<1>5. Agent!AddMessages(left, right) = f[Len(right)]
  BY DEF Agent!AddMessages
<1> HIDE DEF f, S
<1>6. f[0] = left
  BY <1>3, <1>4
<1>7. ASSUME NEW k \in 1..Len(right)
      PROVE  /\ right[k] \in Agent!ToSet(left) => f[k] = f[k - 1]
             /\ right[k] \notin Agent!ToSet(left) => f[k] = Append(f[k - 1], right[k])
  <2>1. k \in 0..Len(right) /\ k # 0
    BY <1>3
  <2>2. f[k] = Step(f, k)
    BY <1>4, <2>1
  <2> QED  BY <2>1, <2>2
<1> HIDE DEF Added, Step
<1> DEFINE Fine(k) ==
             /\ f[k] \in Seq(Agent!Message) /\ Len(f[k]) >= Len(left)
             /\ \A i \in 1..Len(left) : f[k][i] = left[i]
             /\ \A i \in Len(left) + 1..Len(f[k]) : \E j \in 1..Len(right) : f[k][i] = right[j]
           F == {k \in Nat : k <= Len(right) => Fine(k)}
<1>8. 0 \in F
  BY <1>6
<1>9. ASSUME NEW k \in Nat, k \in F PROVE k + 1 \in F
  <2>1. SUFFICES ASSUME k + 1 <= Len(right) PROVE Fine(k + 1)
    OBVIOUS
  <2>2. Fine(k) /\ k + 1 \in 1..Len(right) /\ (k + 1) - 1 = k
    BY <1>3, <1>9, <2>1
  <2>3. CASE right[k + 1] \in Agent!ToSet(left)
    <3>1. f[k + 1] = f[k]
      BY <1>7, <2>2, <2>3
    <3> QED  BY <2>2, <3>1
  <2>4. CASE right[k + 1] \notin Agent!ToSet(left)
    <3>1. f[k + 1] = Append(f[k], right[k + 1])
      BY <1>7, <2>2, <2>4
    <3>5. right[k + 1] \in Agent!Message
      BY <2>2
    <3>2. /\ f[k + 1] \in Seq(Agent!Message) /\ Len(f[k + 1]) = Len(f[k]) + 1 /\ Len(f[k]) \in Nat
          /\ \A i \in 1..Len(f[k]) : f[k + 1][i] = f[k][i]
          /\ f[k + 1][Len(f[k]) + 1] = right[k + 1]
      BY <2>2, <3>1, <3>5
    <3>3. Len(left) \in Nat
      OBVIOUS
    <3>4. ASSUME NEW i \in Len(left) + 1..Len(f[k + 1])
          PROVE  \E j \in 1..Len(right) : f[k + 1][i] = right[j]
      <4>1. i = Len(f[k]) + 1 \/ i \in Len(left) + 1..Len(f[k])
        BY <3>2, <3>3
      <4> QED  BY <4>1, <2>2, <3>2, <3>3
    <3> QED  BY <2>2, <3>2, <3>3, <3>4
  <2> QED  BY <2>3, <2>4
<1> HIDE DEF F, Fine
<1>10. Fine(Len(right))
  <2>1. Len(right) \in F
    BY <1>3, <1>8, <1>9, Induct
  <2> QED  BY <1>3, <2>1 DEF F
<1>11. Len(right) > 0 /\ right[Len(right)] \notin Agent!ToSet(left)
         => Len(f[Len(right)]) > Len(left) /\ f[Len(right)][Len(f[Len(right)])] = right[Len(right)]
  <2>1. SUFFICES ASSUME Len(right) > 0, right[Len(right)] \notin Agent!ToSet(left)
                 PROVE  Len(f[Len(right)]) > Len(left) /\ f[Len(right)][Len(f[Len(right)])] = right[Len(right)]
    OBVIOUS
  <2>2. Len(right) \in 1..Len(right) /\ Len(right) - 1 \in Nat /\ Len(right) - 1 <= Len(right)
    BY <1>3, <2>1
  <2>3. Fine(Len(right) - 1)
    <3>1. Len(right) - 1 \in F
      BY <1>8, <1>9, <2>2, Induct
    <3> QED  BY <2>2, <3>1 DEF F
  <2>4. f[Len(right)] = Append(f[Len(right) - 1], right[Len(right)])
    BY <1>7, <2>1, <2>2
  <2>5. f[Len(right) - 1] \in Seq(Agent!Message) /\ Len(f[Len(right) - 1]) >= Len(left) /\ Len(left) \in Nat
    BY <2>3 DEF Fine
  <2> QED  BY <2>2, <2>4, <2>5
<1> QED  BY <1>5, <1>10, <1>11 DEF Fine

-----------------------------------------------------------------------------
\* The nodes that run before the model is asked.
EarlyStages == {{"planner", "load_memory"}, {"planner"}, {"load_memory"}, {"join"}, {"retrieve"}, {"researcher"}}
Stages == EarlyStages \union {{"llm"}, {"writer"}, {"tool"}, {}}

\* Nothing is about a turn that was not asked for, and a new question is not in the thread.
TurnsAsked ==
  /\ \A i \in 1..Len(s2) : s2[i].turn <= Agent!Asked
  /\ \A i \in 1..Len(s1.messages) : s1.messages[i].turn <= Agent!Asked
  /\ s3.at = "asked" =>
       /\ Len(s2) > 0 /\ s2[Len(s2)].kind = "question" /\ s2[Len(s2)].turn = Agent!Asked
       /\ \A i \in 1..Len(s1.messages) : s1.messages[i].turn < Agent!Asked

\* A thread that has begun is about a turn, and has asked the model so many times.
UsageIsCounted ==
  /\ s1.next # {} \/ s3.at = "graph" \/ s1 # Agent!NewThread => Agent!Questions(s1.messages) # {}
  /\ s3.at = "paused" => s1.next = {"tool"}
  /\ s1.next \in EarlyStages => s1.usage = 0 /\ Agent!Calls = 0
  /\ s1.next \in {{"llm"}, {"writer"}, {"tool"}} => s1.usage = Agent!Calls
  /\ s1.next # {} => Agent!Calls < MaxCalls
  /\ s1.next = {} /\ (s3.at = "graph" \/ s1 # Agent!NewThread) =>
       Len(s1.messages) > 0 /\ s1.messages[Len(s1.messages)].n = s1.usage

GInv == Agent!TypeOK /\ s1.next \in Stages /\ TurnsAsked /\ UsageIsCounted /\ Agent!UsageIsOfTheTurn

\* The model's calls have their results behind them; the last ones wait for theirs, and
\* those a new question discarded get none.
Settled(ms, i) ==
  i < Len(ms) /\ ms[i + 1].kind = "result" /\ ms[i + 1].turn = ms[i].turn /\ ms[i + 1].n = ms[i].n
AllSettled ==
  LET ms == s1.messages IN
  /\ s1.next \in EarlyStages \union {{"llm"}, {"writer"}} =>
       Len(ms) > 0 /\ ms[Len(ms)].turn = Agent!Now /\ ms[Len(ms)].kind \in {"question", "result"}
  /\ s1.next = {"tool"} =>
       Len(ms) > 0 /\ ms[Len(ms)].kind = "call" /\ ms[Len(ms)].turn = Agent!Now /\ ms[Len(ms)].n = Agent!Calls
  /\ \A i \in 1..Len(ms) : ms[i].kind = "call" =>
       Settled(ms, i) \/ ms[i] \in s1.dropped \/ (i = Len(ms) /\ s1.next = {"tool"})

\* What the types say of the thread.
LEMMA ThreadIs ==
  ASSUME Agent!TypeOK
  PROVE  /\ s1 \in Agent!Thread /\ s1.messages \in Seq(Agent!Message) /\ s1.next \subseteq Agent!Nodes
         /\ s1.usage \in Nat /\ s1.retrieval \in Agent!Sometime /\ s1.rewritten \in Agent!Sometime
         /\ s1.parts \in 0..MaxParts /\ s1.unmetered \in Nat /\ s1.dropped \subseteq Agent!Message
         /\ s1.decision \in {"none", "approved", "rejected"}
         /\ Agent!Now \in Agent!Sometime /\ Agent!Calls \in Nat
         /\ Agent!Questions(s1.messages) # {} => Agent!Now \in Agent!Turn
         /\ s3 \in Agent!Run /\ s2 \in Seq(Agent!Row)
         /\ Agent!Calls = Cardinality(Agent!CallsOf(s1.messages))
<1>1. s1 \in Agent!Thread /\ s1.messages \in Seq(Agent!Message)
  BY DEF Agent!TypeOK, Agent!Thread
<1>2. Agent!CallsOf(s1.messages) \in SUBSET (1..Len(s1.messages)) /\ Len(s1.messages) \in Nat
  BY <1>1 DEF Agent!CallsOf
<1>3. IsFiniteSet(Agent!CallsOf(s1.messages))
  <2>1. IsFiniteSet(1..Len(s1.messages))
    BY <1>2, FS_Interval
  <2> QED  BY <1>2, <2>1, FS_Subset
<1>4. Agent!Calls = Cardinality(Agent!CallsOf(s1.messages)) /\ Agent!Calls \in Nat
  BY <1>3, SameCardinality, FS_CardinalityType DEF Agent!Calls
<1>5. /\ Agent!Now \in Agent!Sometime
      /\ Agent!Questions(s1.messages) # {} => Agent!Now \in Agent!Turn
  BY <1>1, TurnIn DEF Agent!Now
<1> QED  BY <1>1, <1>4, <1>5 DEF Agent!TypeOK, Agent!Thread

\* A node writes the channels it returns, and the step goes on or ends.
LEMMA NodeIs ==
  ASSUME NEW n, NEW t \in Agent!Thread, NEW next \in SUBSET Agent!Nodes, Agent!TypeOK,
         Agent!Node(n, t, next)
  PROVE  /\ s1' \in Agent!Thread /\ s1'.messages = t.messages /\ s1'.usage = t.usage /\ s1'.dropped = t.dropped
         /\ s1'.next = (IF s1.next = {n} THEN next ELSE s1.next \ {n})
         /\ n \in s1.next /\ s3.at = "graph" /\ s2' = s2 /\ s3' = s3
         /\ Agent!TypeOK'
<1>1. /\ s1' = [t EXCEPT !.next = IF s1.next = {n} THEN next ELSE s1.next \ {n}]
      /\ n \in s1.next /\ s3.at = "graph" /\ s2' = s2 /\ s3' = s3
  BY DEF Agent!Node
<1>2. (IF s1.next = {n} THEN next ELSE s1.next \ {n}) \in SUBSET Agent!Nodes
  BY ThreadIs
<1>3. /\ s1' \in Agent!Thread /\ s1'.messages = t.messages /\ s1'.usage = t.usage /\ s1'.dropped = t.dropped
      /\ s1'.next = (IF s1.next = {n} THEN next ELSE s1.next \ {n})
  BY <1>1, <1>2 DEF Agent!Thread
<1> QED  BY <1>1, <1>3 DEF Agent!TypeOK

\* What does not speak: the nodes before the model.
LEMMA QuietNode ==
  ASSUME GInv, NEW n \in {"planner", "load_memory", "join", "retrieve", "researcher"},
         NEW t \in Agent!Thread, NEW next, Agent!Node(n, t, next),
         t.messages = s1.messages, t.dropped = s1.dropped, t.usage = s1.usage \/ t.usage = s1.usage + s1.usage,
         n \in {"planner", "load_memory"} => next = {"join"},
         n = "join" => next \in {{"retrieve"}, {"researcher"}},
         n = "retrieve" => next = {"llm"}, n = "researcher" => next = {"writer"}
  PROVE  GInv' /\ (AllSettled => AllSettled')
<1>1. next \in SUBSET Agent!Nodes
  BY DEF Agent!Nodes
<1>2. Agent!TypeOK
  BY DEF GInv
<1>3. /\ s1' \in Agent!Thread /\ s1'.messages = s1.messages /\ s1'.usage = t.usage /\ s1'.dropped = s1.dropped
      /\ s1'.next = (IF s1.next = {n} THEN next ELSE s1.next \ {n})
      /\ n \in s1.next /\ s3.at = "graph" /\ s2' = s2 /\ s3' = s3
      /\ Agent!TypeOK'
  BY <1>1, <1>2, NodeIs
<1>4. s1.next \in EarlyStages
  BY <1>3 DEF GInv, Stages, EarlyStages
<1>5. s1'.next \in EarlyStages \union {{"llm"}, {"writer"}}
  BY <1>3, <1>4 DEF EarlyStages
<1>6. Agent!Calls' = Agent!Calls /\ Agent!Asked' = Agent!Asked /\ Agent!Now' = Agent!Now
  BY <1>3 DEF Agent!Calls, Agent!Asked, Agent!Now
<1>7. s1.usage = 0 /\ Agent!Calls = 0 /\ s1'.usage = 0
  BY <1>3, <1>4 DEF GInv, UsageIsCounted
<1>8. s1'.next # {} /\ s1'.next # {"tool"} /\ s1'.next \in Stages
  BY <1>5 DEF EarlyStages, Stages
<1>9. TurnsAsked'
  BY <1>3, <1>6 DEF GInv, TurnsAsked
<1>10. UsageIsCounted'
  BY <1>3, <1>4, <1>6, <1>7, <1>8, AgentAssumed DEF GInv, UsageIsCounted, EarlyStages
<1>11. Agent!UsageIsOfTheTurn'
  BY <1>3 DEF GInv, Agent!UsageIsOfTheTurn
<1>12. ASSUME AllSettled PROVE AllSettled'
  BY <1>3, <1>4, <1>5, <1>6, <1>8, <1>12 DEF AllSettled, Settled, EarlyStages
<1> QED  BY <1>3, <1>8, <1>9, <1>10, <1>11, <1>12 DEF GInv

\* The model speaks: an answer ends the turn, calls wait for their approval.
LEMMA ModelSpeaks ==
  ASSUME GInv, NEW n \in {"llm", "writer"}, NEW kind \in {"answer", "call"},
         Agent!Node(n, Agent!Says(kind), IF kind = "call" THEN {"tool"} ELSE {}),
         kind = "call" => Agent!Calls + 1 < MaxCalls
  PROVE  GInv' /\ (AllSettled => AllSettled')
<1> DEFINE ms == s1.messages
           m == [kind |-> kind, turn |-> Agent!Now, n |-> Agent!Calls + 1, row |-> 0]
           next == IF kind = "call" THEN {"tool"} ELSE {}
<1>1. Agent!TypeOK
  BY DEF GInv
<1>2. n \in s1.next
  BY DEF Agent!Node
<1>3. s1.next = {n}
  BY <1>2 DEF GInv, Stages, EarlyStages
<1>4. Agent!Questions(ms) # {} /\ s1.usage = Agent!Calls /\ Agent!Calls < MaxCalls
  BY <1>3 DEF GInv, UsageIsCounted
<1>5. /\ ms \in Seq(Agent!Message) /\ s1 \in Agent!Thread /\ s1.usage \in Nat /\ Agent!Now \in Agent!Turn
      /\ Agent!Calls \in Nat /\ Agent!Calls = Cardinality(Agent!CallsOf(ms))
  BY <1>1, <1>4, ThreadIs
<1>6. m \in Agent!Message
  <2>1. Agent!Calls + 1 \in 0..MaxCalls
    BY <1>4, <1>5, AgentAssumed
  <2> QED  BY <1>5, <2>1 DEF Agent!Message
<1> HIDE DEF ms
<1>7. Agent!Says(kind) = [s1 EXCEPT !.messages = Append(ms, m), !.usage = s1.usage + 1]
  BY DEF Agent!Says, Agent!MergeUsage, ms
<1>8. m.kind = kind /\ m.turn = Agent!Now /\ m.n = Agent!Calls + 1
  OBVIOUS
<1> HIDE DEF m
<1>9. Append(ms, m) \in Seq(Agent!Message) /\ Len(Append(ms, m)) = Len(ms) + 1 /\ Len(ms) \in Nat
      /\ Append(ms, m)[Len(ms) + 1] = m /\ \A i \in 1..Len(ms) : Append(ms, m)[i] = ms[i]
  BY <1>5, <1>6
<1>10. /\ Agent!Says(kind) \in Agent!Thread /\ Agent!Says(kind).messages = Append(ms, m)
       /\ Agent!Says(kind).usage = s1.usage + 1 /\ Agent!Says(kind).dropped = s1.dropped
  <2>1. s1.usage + 1 \in Nat
    BY <1>5
  <2> QED  BY <1>5, <1>7, <1>9, <2>1 DEF Agent!Thread
<1>11. /\ s1'.messages = Append(ms, m) /\ s1'.usage = s1.usage + 1 /\ s1'.next = next
       /\ s1'.dropped = s1.dropped /\ s3.at = "graph" /\ s2' = s2 /\ s3' = s3 /\ Agent!TypeOK'
  <2>1. next \in SUBSET Agent!Nodes
    BY DEF Agent!Nodes
  <2>2. /\ s1'.messages = Agent!Says(kind).messages /\ s1'.usage = Agent!Says(kind).usage
        /\ s1'.dropped = Agent!Says(kind).dropped
        /\ s1'.next = (IF s1.next = {n} THEN next ELSE s1.next \ {n})
        /\ s3.at = "graph" /\ s2' = s2 /\ s3' = s3 /\ Agent!TypeOK'
    BY <1>1, <1>10, <2>1, NodeIs
  <2> QED  BY <1>3, <1>10, <2>2
<1>12. Agent!Asked' = Agent!Asked /\ Agent!Now' = Agent!Now
  BY <1>5, <1>6, <1>8, <1>11, TurnStays DEF Agent!Asked, Agent!Now, ms
<1>13. Agent!Calls' = (IF kind = "call" THEN Agent!Calls + 1 ELSE Agent!Calls)
  <2>1. Agent!Calls' = Cardinality(Agent!CallsOf(Append(ms, m)))
    BY <1>11, SameCardinality DEF Agent!Calls
  <2>2. m.kind # "question" /\ m.turn = Agent!TurnOf(ms)
    BY <1>8 DEF Agent!Now, ms
  <2> QED  BY <2>1, <2>2, <1>5, <1>6, <1>8, CallsGrow
<1>14. s1'.next \in Stages
  BY <1>11 DEF Stages
<1>15. TurnsAsked'
  <2>1. \A i \in 1..Len(ms) : ms[i].turn <= Agent!Asked
    BY DEF GInv, TurnsAsked, ms
  <2>2. Agent!Now <= Agent!Asked
    <3>1. Agent!Max(Agent!Questions(ms)) \in 1..Len(ms)
      <4>1. Agent!Questions(ms) \in SUBSET (1..Len(ms))
        BY <1>5 DEF Agent!Questions
      <4> QED  BY <1>4, <1>9, <4>1, LargestMember
    <3> QED  BY <2>1, <3>1, <1>4 DEF Agent!Now, Agent!TurnOf, ms
  <2>3. \A i \in 1..Len(s1'.messages) : s1'.messages[i].turn <= Agent!Asked
    BY <1>8, <1>9, <1>11, <2>1, <2>2
  <2> QED  BY <1>11, <1>12, <2>3 DEF GInv, TurnsAsked
<1>16. UsageIsCounted'
  <2>1. Agent!Questions(s1'.messages) # {}
    <3>1. PICK i \in 1..Len(ms) : ms[i].kind = "question"
      BY <1>4, <1>5 DEF Agent!Questions
    <3> QED  BY <3>1, <1>9, <1>11 DEF Agent!Questions
  <2>2. s1'.messages[Len(s1'.messages)].n = s1'.usage /\ Len(s1'.messages) > 0
    BY <1>4, <1>8, <1>9, <1>11
  <2>3. s1'.next \notin EarlyStages /\ s1'.next \notin {{"llm"}, {"writer"}}
    BY <1>11 DEF EarlyStages
  <2>4. s1'.next # {} => kind = "call"
    BY <1>11
  <2>5. kind = "call" => s1'.usage = Agent!Calls' /\ Agent!Calls' < MaxCalls
    BY <1>4, <1>11, <1>13
  <2>6. s3'.at # "paused"
    BY <1>11
  <2> QED  BY <2>1, <2>2, <2>3, <2>4, <2>5, <2>6 DEF UsageIsCounted
<1>17. Agent!UsageIsOfTheTurn'
  BY <1>11 DEF GInv, Agent!UsageIsOfTheTurn
<1>18. ASSUME AllSettled PROVE AllSettled'
  <2>1. \A i \in 1..Len(ms) : ms[i].kind = "call" => Settled(ms, i) \/ ms[i] \in s1.dropped
    BY <1>3, <1>18 DEF AllSettled, ms
  <2>2. ASSUME NEW i \in 1..Len(ms), Settled(ms, i) PROVE Settled(Append(ms, m), i)
    BY <1>9, <2>2 DEF Settled
  <2>3. \A i \in 1..Len(s1'.messages) :
          s1'.messages[i].kind = "call" => 
            Settled(s1'.messages, i) \/ s1'.messages[i] \in s1'.dropped \/ (i = Len(s1'.messages) /\ kind = "call")
    BY <1>8, <1>9, <1>11, <2>1, <2>2
  <2>4. s1'.next \notin EarlyStages \union {{"llm"}, {"writer"}}
    BY <1>11 DEF EarlyStages
  <2>5. (s1'.next = {"tool"}) <=> kind = "call"
    BY <1>11
  <2>6. kind = "call" =>
          LET ns == s1'.messages IN
          /\ Len(ns) > 0 /\ ns[Len(ns)].kind = "call" /\ ns[Len(ns)].turn = Agent!Now'
          /\ ns[Len(ns)].n = Agent!Calls'
    BY <1>8, <1>9, <1>11, <1>12, <1>13
  <2> QED  BY <2>3, <2>4, <2>5, <2>6 DEF AllSettled
<1> QED  BY <1>11, <1>14, <1>15, <1>16, <1>17, <1>18 DEF GInv

\* The calls get their results, executed or rejected.
LEMMA ToolAnswers ==
  ASSUME GInv, Agent!Node("tool", Agent!Answered, {"llm"})
  PROVE  GInv' /\ (AllSettled => AllSettled')
<1> DEFINE ms == s1.messages
           m == Agent!Results
<1>1. Agent!TypeOK
  BY DEF GInv
<1>2. "tool" \in s1.next
  BY DEF Agent!Node
<1>3. s1.next = {"tool"}
  BY <1>2 DEF GInv, Stages, EarlyStages
<1>4. Agent!Questions(ms) # {} /\ s1.usage = Agent!Calls /\ Agent!Calls < MaxCalls
  BY <1>3 DEF GInv, UsageIsCounted
<1>5. /\ ms \in Seq(Agent!Message) /\ s1 \in Agent!Thread /\ s1.usage \in Nat /\ Agent!Now \in Agent!Turn
      /\ Agent!Calls \in Nat /\ Agent!Calls = Cardinality(Agent!CallsOf(ms))
  BY <1>1, <1>4, ThreadIs
<1>6. m \in Agent!Message
  <2>1. Agent!Calls \in 0..MaxCalls
    BY <1>4, <1>5, AgentAssumed
  <2> QED  BY <1>5, <2>1 DEF Agent!Message, Agent!Results
<1> HIDE DEF ms
<1>7. Agent!Answered = [s1 EXCEPT !.messages = Append(ms, m), !.decision = "none"]
  BY DEF Agent!Answered, ms
<1>8. m.kind = "result" /\ m.turn = Agent!Now /\ m.n = Agent!Calls
  BY DEF Agent!Results
<1> HIDE DEF m
<1>9. Append(ms, m) \in Seq(Agent!Message) /\ Len(Append(ms, m)) = Len(ms) + 1 /\ Len(ms) \in Nat
      /\ Append(ms, m)[Len(ms) + 1] = m /\ \A i \in 1..Len(ms) : Append(ms, m)[i] = ms[i]
  BY <1>5, <1>6
<1>10. /\ Agent!Answered \in Agent!Thread /\ Agent!Answered.messages = Append(ms, m)
       /\ Agent!Answered.usage = s1.usage /\ Agent!Answered.dropped = s1.dropped
  BY <1>5, <1>7, <1>9 DEF Agent!Thread
<1>11. /\ s1'.messages = Append(ms, m) /\ s1'.usage = s1.usage /\ s1'.next = {"llm"}
       /\ s1'.dropped = s1.dropped /\ s3.at = "graph" /\ s2' = s2 /\ s3' = s3 /\ Agent!TypeOK'
  <2>1. {"llm"} \in SUBSET Agent!Nodes
    BY DEF Agent!Nodes
  <2>2. /\ s1'.messages = Agent!Answered.messages /\ s1'.usage = Agent!Answered.usage
        /\ s1'.dropped = Agent!Answered.dropped
        /\ s1'.next = (IF s1.next = {"tool"} THEN {"llm"} ELSE s1.next \ {"tool"})
        /\ s3.at = "graph" /\ s2' = s2 /\ s3' = s3 /\ Agent!TypeOK'
    BY <1>1, <1>10, <2>1, NodeIs
  <2> QED  BY <1>3, <1>10, <2>2
<1>12. Agent!Asked' = Agent!Asked /\ Agent!Now' = Agent!Now
  BY <1>5, <1>6, <1>8, <1>11, TurnStays DEF Agent!Asked, Agent!Now, ms
<1>13. Agent!Calls' = Agent!Calls
  <2>1. Agent!Calls' = Cardinality(Agent!CallsOf(Append(ms, m)))
    BY <1>11, SameCardinality DEF Agent!Calls
  <2>2. m.kind # "question" /\ m.kind # "call" /\ m.turn = Agent!TurnOf(ms)
    BY <1>8 DEF Agent!Now, ms
  <2> QED  BY <2>1, <2>2, <1>5, <1>6, CallsGrow
<1>14. s1'.next \in Stages /\ s1'.next \notin EarlyStages /\ s1'.next # {} /\ s1'.next # {"tool"}
  BY <1>11 DEF Stages, EarlyStages
<1>15. TurnsAsked'
  <2>1. \A i \in 1..Len(ms) : ms[i].turn <= Agent!Asked
    BY DEF GInv, TurnsAsked, ms
  <2>2. Agent!Now <= Agent!Asked
    <3>1. Agent!Max(Agent!Questions(ms)) \in 1..Len(ms)
      <4>1. Agent!Questions(ms) \in SUBSET (1..Len(ms))
        BY <1>5 DEF Agent!Questions
      <4> QED  BY <1>4, <1>9, <4>1, LargestMember
    <3> QED  BY <2>1, <3>1, <1>4 DEF Agent!Now, Agent!TurnOf, ms
  <2>3. \A i \in 1..Len(s1'.messages) : s1'.messages[i].turn <= Agent!Asked
    BY <1>8, <1>9, <1>11, <2>1, <2>2
  <2> QED  BY <1>11, <1>12, <2>3 DEF GInv, TurnsAsked
<1>16. UsageIsCounted'
  <2>1. Agent!Questions(s1'.messages) # {}
    <3>1. PICK i \in 1..Len(ms) : ms[i].kind = "question"
      BY <1>4, <1>5 DEF Agent!Questions
    <3> QED  BY <3>1, <1>9, <1>11 DEF Agent!Questions
  <2> QED  BY <2>1, <1>4, <1>11, <1>13, <1>14 DEF UsageIsCounted
<1>17. Agent!UsageIsOfTheTurn'
  BY <1>11 DEF GInv, Agent!UsageIsOfTheTurn
<1>18. ASSUME AllSettled PROVE AllSettled'
  <2>1. /\ \A i \in 1..Len(ms) : ms[i].kind = "call" =>
             Settled(ms, i) \/ ms[i] \in s1.dropped \/ i = Len(ms)
        /\ Len(ms) > 0 /\ ms[Len(ms)].turn = Agent!Now /\ ms[Len(ms)].n = Agent!Calls
    BY <1>3, <1>18 DEF AllSettled, ms
  <2>2. ASSUME NEW i \in 1..Len(ms), ms[i].kind = "call"
        PROVE  Settled(Append(ms, m), i) \/ ms[i] \in s1.dropped
    <3>1. CASE Settled(ms, i)
      BY <1>9, <3>1 DEF Settled
    <3>2. CASE i = Len(ms)
      BY <1>8, <1>9, <2>1, <3>2 DEF Settled
    <3> QED  BY <2>1, <2>2, <3>1, <3>2
  <2>3. \A i \in 1..Len(s1'.messages) :
          s1'.messages[i].kind = "call" => Settled(s1'.messages, i) \/ s1'.messages[i] \in s1'.dropped
    BY <1>8, <1>9, <1>11, <2>2
  <2>4. LET ns == s1'.messages IN
          Len(ns) > 0 /\ ns[Len(ns)].turn = Agent!Now' /\ ns[Len(ns)].kind \in {"question", "result"}
    BY <1>8, <1>9, <1>11, <1>12
  <2> QED  BY <2>3, <2>4, <1>11, <1>14 DEF AllSettled
<1> QED  BY <1>11, <1>14, <1>15, <1>16, <1>17, <1>18 DEF GInv

LEMMA NodesKeep == ASSUME GInv, Agent!GraphStep PROVE GInv' /\ (AllSettled => AllSettled')
<1> USE ThreadIs
<1>1. /\ Agent!TypeOK /\ s1 \in Agent!Thread /\ s1.usage \in Nat /\ s1.usage + s1.usage \in Nat
      /\ Agent!Now \in Agent!Sometime
  BY DEF GInv
<1>2. ASSUME Agent!Planner PROVE GInv' /\ (AllSettled => AllSettled')
  <2>1. PICK t \in Agent!Thread :
          /\ t.messages = s1.messages /\ t.usage = s1.usage /\ t.dropped = s1.dropped
          /\ Agent!Node("planner", t, {"join"})
    <3>1. CASE \E k \in 0..MaxParts :
            Agent!Node("planner", [s1 EXCEPT !.rewritten = Agent!Now, !.parts = k, !.unmetered = @ + 1], {"join"})
      <4>1. PICK k \in 0..MaxParts :
              Agent!Node("planner", [s1 EXCEPT !.rewritten = Agent!Now, !.parts = k, !.unmetered = @ + 1], {"join"})
        BY <3>1
      <4> DEFINE t == [s1 EXCEPT !.rewritten = Agent!Now, !.parts = k, !.unmetered = @ + 1]
      <4>2. t \in Agent!Thread /\ t.messages = s1.messages /\ t.usage = s1.usage /\ t.dropped = s1.dropped
        <5>1. s1.unmetered + 1 \in Nat
          BY <1>1
        <5> QED  BY <1>1, <5>1 DEF Agent!Thread
      <4> HIDE DEF t
      <4>3. Agent!Node("planner", t, {"join"})
        BY <4>1 DEF t
      <4> QED  BY <4>2, <4>3
    <3>2. CASE Agent!Node("planner", [s1 EXCEPT !.parts = 0], {"join"})
      <4> DEFINE t == [s1 EXCEPT !.parts = 0]
      <4>1. 0 \in 0..MaxParts
        BY AgentAssumed
      <4>2. t \in Agent!Thread /\ t.messages = s1.messages /\ t.usage = s1.usage /\ t.dropped = s1.dropped
        BY <1>1, <4>1 DEF Agent!Thread
      <4> QED  BY <3>2, <4>2
    <3> QED  BY <1>2, <3>1, <3>2 DEF Agent!Planner
  <2> QED  BY <2>1, QuietNode
<1>3. ASSUME Agent!LoadMemory PROVE GInv' /\ (AllSettled => AllSettled')
  BY <1>1, <1>3, QuietNode DEF Agent!LoadMemory
<1>4. /\ Agent!Whole \in Agent!Thread /\ Agent!Whole.messages = s1.messages
      /\ Agent!Whole.usage = s1.usage + s1.usage /\ Agent!Whole.dropped = s1.dropped
  BY <1>1 DEF Agent!Whole, Agent!MergeUsage, Agent!Thread
<1>5. ASSUME Agent!Join PROVE GInv' /\ (AllSettled => AllSettled')
  BY <1>4, <1>5, QuietNode DEF Agent!Join, Agent!Route
<1>6. ASSUME Agent!Retrieve PROVE GInv' /\ (AllSettled => AllSettled')
  <2>1. PICK t \in Agent!Thread :
          /\ t.messages = s1.messages /\ t.usage = s1.usage + s1.usage /\ t.dropped = s1.dropped
          /\ Agent!Node("retrieve", t, {"llm"})
    BY <1>1, <1>4, <1>6 DEF Agent!Retrieve, Agent!Thread
  <2> QED  BY <2>1, QuietNode
<1>7. ASSUME Agent!Researcher PROVE GInv' /\ (AllSettled => AllSettled')
  <2> DEFINE t == [Agent!Whole EXCEPT !.unmetered = @ + s1.parts]
  <2>1. Agent!Whole.unmetered = s1.unmetered /\ s1.unmetered + s1.parts \in Nat
    BY <1>1, AgentAssumed DEF Agent!Whole, Agent!Thread
  <2>2. /\ t \in Agent!Thread /\ t.messages = s1.messages /\ t.usage = s1.usage + s1.usage
        /\ t.dropped = s1.dropped
    BY <1>4, <2>1 DEF Agent!Thread
  <2>3. Agent!Node("researcher", t, {"writer"})
    BY <1>7 DEF Agent!Researcher
  <2> HIDE DEF t
  <2> QED  BY <2>2, <2>3, QuietNode
<1>8. ASSUME Agent!Writer \/ Agent!Llm PROVE GInv' /\ (AllSettled => AllSettled')
  BY <1>8, ModelSpeaks DEF Agent!Writer, Agent!Llm
<1>9. ASSUME Agent!Pause PROVE GInv' /\ (AllSettled => AllSettled')
  <2>1. /\ s1' = s1 /\ s2' = s2 /\ s3' = [at |-> "paused", stream |-> FALSE]
        /\ s3.at = "graph" /\ s1.next = {"tool"}
    BY <1>9 DEF Agent!Pause
  <2>2. /\ Agent!TypeOK' /\ Agent!Asked' = Agent!Asked /\ Agent!Calls' = Agent!Calls /\ Agent!Now' = Agent!Now
        /\ s3'.at = "paused"
    BY <1>1, <2>1 DEF Agent!TypeOK, Agent!Asked, Agent!Calls, Agent!Now, Agent!Run
  <2>3. GInv'
    BY <2>1, <2>2 DEF GInv, TurnsAsked, UsageIsCounted, Agent!UsageIsOfTheTurn
  <2> QED  BY <2>1, <2>2, <2>3 DEF AllSettled
<1>10. ASSUME Agent!Reject \/ Agent!Execute PROVE GInv' /\ (AllSettled => AllSettled')
  BY <1>10, ToolAnswers DEF Agent!Reject, Agent!Execute
<1> QED
  BY <1>2, <1>3, <1>5, <1>6, <1>7, <1>8, <1>9, <1>10 DEF Agent!GraphStep

-----------------------------------------------------------------------------
\* The questions asked, after one more message is saved.
LEMMA AskedGrows ==
  ASSUME NEW rs \in Seq(Agent!Row), NEW r \in Agent!Row
  PROVE  /\ Cardinality(Agent!Questions(rs)) \in Nat
         /\ Cardinality(Agent!Questions(Append(rs, r))) =
              IF r.kind = "question" THEN Cardinality(Agent!Questions(rs)) + 1
              ELSE Cardinality(Agent!Questions(rs))
<1>1. Len(rs) \in Nat /\ Len(Append(rs, r)) = Len(rs) + 1 /\ Append(rs, r)[Len(rs) + 1] = r
      /\ \A i \in 1..Len(rs) : Append(rs, r)[i] = rs[i]
  OBVIOUS
<1>2. Agent!Questions(Append(rs, r)) =
        IF r.kind = "question" THEN Agent!Questions(rs) \union {Len(rs) + 1} ELSE Agent!Questions(rs)
  BY <1>1 DEF Agent!Questions
<1>3. Agent!Questions(rs) \in SUBSET (1..Len(rs)) /\ Len(rs) + 1 \notin Agent!Questions(rs)
  BY <1>1 DEF Agent!Questions
<1>4. IsFiniteSet(Agent!Questions(rs))
  <2>1. IsFiniteSet(1..Len(rs))
    BY <1>1, FS_Interval
  <2> QED  BY <1>3, <2>1, FS_Subset
<1>5. Cardinality(Agent!Questions(rs) \union {Len(rs) + 1}) = Cardinality(Agent!Questions(rs)) + 1
  BY <1>3, <1>4, FS_AddElement
<1> QED  BY <1>2, <1>4, <1>5, FS_CardinalityType

LEMMA AskedIs ==
  ASSUME Agent!TypeOK
  PROVE  Agent!Asked \in Nat /\ Agent!Asked = Cardinality(Agent!Questions(s2))
<1>1. s2 \in Seq(Agent!Row)
  BY ThreadIs
<1>2. Agent!Questions(s2) \in SUBSET (1..Len(s2)) /\ Len(s2) \in Nat
  BY <1>1 DEF Agent!Questions
<1>3. IsFiniteSet(Agent!Questions(s2))
  <2>1. IsFiniteSet(1..Len(s2))
    BY <1>2, FS_Interval
  <2> QED  BY <1>2, <2>1, FS_Subset
<1> QED  BY <1>3, SameCardinality, FS_CardinalityType DEF Agent!Asked

LEMMA AgentInit == ASSUME Agent!Init PROVE GInv /\ AllSettled
<1>1. s1 = Agent!NewThread /\ s2 = <<>> /\ s3 = Agent!Idle
  BY DEF Agent!Init
<1>2. /\ s1 \in Agent!Thread /\ s1.messages = <<>> /\ s1.next = {} /\ s1.usage = 0
      /\ Agent!NewThread.messages = <<>>
  BY <1>1, AgentAssumed DEF Agent!NewThread, Agent!Thread, Agent!Sometime
<1>3. s3 \in Agent!Run /\ s3.at = "idle"
  BY <1>1 DEF Agent!Idle, Agent!Run
<1>4. Agent!TypeOK
  BY <1>1, <1>2, <1>3 DEF Agent!TypeOK
<1>5. s1.next \in Stages /\ s1.next \notin EarlyStages
  BY <1>2 DEF Stages, EarlyStages
<1>6. TurnsAsked
  BY <1>1, <1>2, <1>3 DEF TurnsAsked
<1>7. UsageIsCounted
  BY <1>1, <1>2, <1>3, <1>5 DEF UsageIsCounted
<1>8. Agent!UsageIsOfTheTurn
  BY <1>1 DEF Agent!UsageIsOfTheTurn
<1>9. AllSettled
  BY <1>2, <1>3, <1>5 DEF AllSettled
<1> QED  BY <1>4, <1>5, <1>6, <1>7, <1>8, <1>9 DEF GInv

\* The next question.
LEMMA AskKeeps ==
  ASSUME GInv, Agent!Ask
  PROVE  GInv' /\ (AllSettled => AllSettled')
<1> DEFINE r == [kind |-> "question", turn |-> Agent!Asked + 1, usage |-> 0, calls |-> 0,
                 unmetered |-> 0, retrieval |-> 0]
<1>1. Agent!TypeOK
  BY DEF GInv
<1>2. /\ s1' = s1 /\ s2' = Append(s2, r) /\ Agent!Asked < MaxTurns
      /\ s3.at \in {"idle", "paused"}
  BY DEF Agent!Ask
<1>3. PICK s \in BOOLEAN : s3' = [at |-> "asked", stream |-> s]
  BY DEF Agent!Ask
<1>4. /\ s2 \in Seq(Agent!Row) /\ Agent!Asked \in Nat /\ Agent!Asked = Cardinality(Agent!Questions(s2))
      /\ s1.messages \in Seq(Agent!Message)
  BY <1>1, AskedIs, ThreadIs
<1>5. r \in Agent!Row
  <2>1. Agent!Asked + 1 \in Agent!Turn /\ 0 \in 0..MaxCalls /\ 0 \in Agent!Sometime
    BY <1>2, <1>4, AgentAssumed DEF Agent!Turn, Agent!Sometime
  <2> QED  BY <2>1 DEF Agent!Row
<1>6. r.kind = "question" /\ r.turn = Agent!Asked + 1
  OBVIOUS
<1> HIDE DEF r
<1>7. /\ s2' \in Seq(Agent!Row) /\ Len(s2') = Len(s2) + 1 /\ Len(s2) \in Nat /\ s2'[Len(s2) + 1] = r
      /\ \A i \in 1..Len(s2) : s2'[i] = s2[i]
  BY <1>2, <1>4, <1>5
<1>8. Agent!Asked' = Agent!Asked + 1
  <2>1. Agent!Asked' = Cardinality(Agent!Questions(s2'))
    BY SameCardinality DEF Agent!Asked
  <2> QED  BY <2>1, <1>2, <1>4, <1>5, <1>6, AskedGrows
<1>9. s3' \in Agent!Run /\ s3'.at = "asked"
  BY <1>3 DEF Agent!Run
<1>10. Agent!TypeOK'
  BY <1>1, <1>2, <1>7, <1>9 DEF Agent!TypeOK
<1>11. Agent!Calls' = Agent!Calls /\ Agent!Now' = Agent!Now
  BY <1>2 DEF Agent!Calls, Agent!Now
<1>12. TurnsAsked'
  <2>1. /\ \A i \in 1..Len(s2) : s2[i].turn <= Agent!Asked /\ s2[i].turn \in Nat
        /\ \A i \in 1..Len(s1.messages) : s1.messages[i].turn <= Agent!Asked /\ s1.messages[i].turn \in Nat
    <3>1. \A i \in 1..Len(s2) : s2[i] \in Agent!Row
      BY <1>4
    <3>2. \A i \in 1..Len(s1.messages) : s1.messages[i] \in Agent!Message
      BY <1>4
    <3> QED  BY <3>1, <3>2, AgentAssumed DEF GInv, TurnsAsked, Agent!Row, Agent!Message, Agent!Turn
  <2>2. \A i \in 1..Len(s2') : s2'[i].turn <= Agent!Asked'
    BY <2>1, <1>4, <1>6, <1>7, <1>8
  <2>3. \A i \in 1..Len(s1'.messages) : s1'.messages[i].turn < Agent!Asked'
    BY <2>1, <1>2, <1>4, <1>8
  <2>4. \A i \in 1..Len(s1'.messages) : s1'.messages[i].turn <= Agent!Asked'
    BY <2>1, <1>2, <1>4, <1>8
  <2> QED  BY <2>2, <2>3, <2>4, <1>6, <1>7, <1>8 DEF TurnsAsked
<1>13. UsageIsCounted'
  BY <1>2, <1>9, <1>11 DEF GInv, UsageIsCounted
<1>14. Agent!UsageIsOfTheTurn'
  <2>1. \A i \in 1..Len(s2) : s2[i].kind = "answer" => s2[i].usage = s2[i].calls
    BY <1>4 DEF GInv, Agent!UsageIsOfTheTurn
  <2>2. \A i \in 1..Len(s2') : s2'[i].kind = "answer" => s2'[i].usage = s2'[i].calls
    BY <2>1, <1>6, <1>7
  <2> QED  BY <1>7, <2>2 DEF Agent!UsageIsOfTheTurn
<1>15. ASSUME AllSettled PROVE AllSettled'
  BY <1>2, <1>9, <1>11, <1>15 DEF AllSettled
<1> QED  BY <1>2, <1>10, <1>12, <1>13, <1>14, <1>15 DEF GInv

\* What the conversation's rows make of messages: the last one is the question.
LEMMA HistoryIs ==
  ASSUME GInv, s3.at = "asked"
  PROVE  /\ Agent!History \in Seq(Agent!Message) /\ Len(Agent!History) > 0
         /\ \A i \in 1..Len(Agent!History) :
              Agent!History[i].kind # "call" /\ Agent!History[i].turn <= Agent!Asked
         /\ Agent!History[Len(Agent!History)].kind = "question"
         /\ Agent!History[Len(Agent!History)].turn = Agent!Asked
<1> DEFINE from == IF Len(s2) > HistoryLimit THEN Len(s2) - HistoryLimit ELSE 0
           h == [i \in 1..(Len(s2) - from) |-> Agent!ToLangchain(from + i)]
<1>1. /\ s2 \in Seq(Agent!Row) /\ Len(s2) \in Nat /\ Len(s2) > 0
      /\ s2[Len(s2)].kind = "question" /\ s2[Len(s2)].turn = Agent!Asked
      /\ \A i \in 1..Len(s2) : s2[i].turn <= Agent!Asked
  <2>1. Agent!TypeOK
    BY DEF GInv
  <2> QED  BY <2>1, ThreadIs DEF GInv, TurnsAsked
<1>2. from \in Nat /\ from < Len(s2)
  BY <1>1, AgentAssumed
<1>3. Agent!History = h
  BY DEF Agent!History
<1> HIDE DEF from
<1>4. ASSUME NEW i \in 1..(Len(s2) - from)
      PROVE  /\ h[i] \in Agent!Message /\ h[i].kind # "call" /\ h[i].turn <= Agent!Asked
             /\ h[i].kind = s2[from + i].kind /\ h[i].turn = s2[from + i].turn
  <2>1. from + i \in 1..Len(s2)
    BY <1>1, <1>2
  <2>2. s2[from + i] \in Agent!Row /\ s2[from + i].turn <= Agent!Asked
    BY <1>1, <2>1
  <2>3. h[i] = [kind |-> s2[from + i].kind, turn |-> s2[from + i].turn, n |-> 0, row |-> from + i]
    BY DEF Agent!ToLangchain
  <2>4. s2[from + i].kind \in {"question", "answer"} /\ s2[from + i].turn \in Agent!Turn
    BY <2>2 DEF Agent!Row
  <2>5. h[i] \in Agent!Message
    <3>1. 0 \in 0..MaxCalls /\ from + i \in Nat
      BY <1>2, AgentAssumed
    <3> HIDE DEF h
    <3> QED  BY <2>3, <2>4, <3>1 DEF Agent!Message
  <2> HIDE DEF h
  <2> QED  BY <2>2, <2>3, <2>4, <2>5
<1>5. Len(s2) - from \in Nat /\ Len(s2) - from > 0 /\ from + (Len(s2) - from) = Len(s2)
  BY <1>1, <1>2
<1>6. h \in Seq(Agent!Message) /\ Len(h) = Len(s2) - from
  <2>1. h \in [1..(Len(s2) - from) -> Agent!Message]
    BY <1>4
  <2> HIDE DEF h
  <2> QED  BY <1>5, <2>1
<1> HIDE DEF h
<1> QED  BY <1>1, <1>3, <1>4, <1>5, <1>6

LEMMA InvokeKeeps ==
  ASSUME GInv, Agent!Invoke PROVE GInv' /\ (AllSettled => AllSettled')
<1> DEFINE ms == s1.messages
           ns == Agent!AddMessages(ms, Agent!History)
           gone == IF s1.next = {"tool"} THEN s1.dropped \union {ms[Len(ms)]} ELSE s1.dropped
<1>1. Agent!TypeOK
  BY DEF GInv
<1>2. s3.at = "asked" /\ s3' = [s3 EXCEPT !.at = "graph"] /\ s2' = s2
      /\ s1' = [s1 EXCEPT !.messages = ns, !.usage = 0, !.next = {"planner", "load_memory"}, !.decision = "none",
                          !.unmetered = 0, !.dropped = gone]
  BY DEF Agent!Invoke, Agent!ResetUsage, Agent!Last
<1>3. /\ s1 \in Agent!Thread /\ ms \in Seq(Agent!Message) /\ s3 \in Agent!Run
      /\ Agent!Asked \in Nat
  BY <1>1, AskedIs, ThreadIs
<1>4. \A i \in 1..Len(ms) : ms[i].turn < Agent!Asked
  BY <1>2 DEF GInv, TurnsAsked
<1>5. /\ Agent!History \in Seq(Agent!Message) /\ Len(Agent!History) > 0
      /\ \A i \in 1..Len(Agent!History) :
           Agent!History[i].kind # "call" /\ Agent!History[i].turn <= Agent!Asked
      /\ Agent!History[Len(Agent!History)].kind = "question"
      /\ Agent!History[Len(Agent!History)].turn = Agent!Asked
  BY <1>2, HistoryIs
<1> HIDE DEF ms
<1>6. Agent!History[Len(Agent!History)] \notin Agent!ToSet(ms)
  BY <1>3, <1>4, <1>5 DEF Agent!ToSet
<1>7. /\ ns \in Seq(Agent!Message) /\ Len(ns) > Len(ms) /\ Len(ms) \in Nat /\ Len(ns) \in Nat
      /\ \A i \in 1..Len(ms) : ns[i] = ms[i]
      /\ \A i \in Len(ms) + 1..Len(ns) : ns[i].kind # "call" /\ ns[i].turn <= Agent!Asked
      /\ ns[Len(ns)].kind = "question" /\ ns[Len(ns)].turn = Agent!Asked
  <2>1. /\ ns \in Seq(Agent!Message) /\ \A i \in 1..Len(ms) : ns[i] = ms[i]
        /\ \A i \in Len(ms) + 1..Len(ns) : \E j \in 1..Len(Agent!History) : ns[i] = Agent!History[j]
        /\ Len(ns) > Len(ms) /\ ns[Len(ns)] = Agent!History[Len(Agent!History)]
    BY <1>3, <1>5, <1>6, AddedIs
  <2> HIDE DEF ns
  <2>2. Len(ms) \in Nat /\ Len(ns) \in Nat
    BY <1>3, <2>1
  <2> QED  BY <2>1, <2>2, <1>5
<1> HIDE DEF ns
<1>20. gone \subseteq Agent!Message
  <2>1. s1.dropped \subseteq Agent!Message
    BY <1>1, ThreadIs
  <2>2. s1.next = {"tool"} => ms[Len(ms)] \in Agent!Message
    <3>1. s1.next = {"tool"} => Agent!Questions(ms) # {}
      BY DEF GInv, UsageIsCounted, ms
    <3>2. Agent!Questions(ms) # {} => Len(ms) \in 1..Len(ms)
      BY <1>7 DEF Agent!Questions
    <3> QED  BY <1>3, <3>1, <3>2
  <2> QED  BY <2>1, <2>2
<1> HIDE DEF gone
<1>8. /\ s1'.dropped = gone
      /\ s1' \in Agent!Thread /\ s1'.messages = ns /\ s1'.usage = 0
      /\ s1'.next = {"planner", "load_memory"}
  BY <1>2, <1>3, <1>7, <1>20 DEF Agent!Thread, Agent!Nodes
<1>9. s3' \in Agent!Run /\ s3'.at = "graph"
  BY <1>2, <1>3 DEF Agent!Run
<1>10. Agent!TypeOK'
  BY <1>1, <1>2, <1>8, <1>9 DEF Agent!TypeOK
<1>11. Agent!Asked' = Agent!Asked
  BY <1>2 DEF Agent!Asked
<1>12. Agent!TurnOf(ns) = Agent!Asked
  <2>1. Len(ns) \in 1..Len(ns) /\ \A i \in Len(ns) + 1..Len(ns) : ns[i].kind # "question"
    BY <1>7
  <2> QED  BY <1>7, <2>1, TurnIs
<1>13. Agent!Now' = Agent!Asked /\ Agent!Calls' = 0
  <2>1. Agent!CallsOf(ns) = {}
    BY <1>3, <1>4, <1>7, <1>12 DEF Agent!CallsOf
  <2>2. Agent!Calls' = Cardinality(Agent!CallsOf(ns))
    BY <1>8, SameCardinality DEF Agent!Calls
  <2> QED  BY <1>8, <1>12, <2>1, <2>2, FS_EmptySet DEF Agent!Now
<1>14. s1'.next \in EarlyStages /\ s1'.next # {} /\ s1'.next \notin {{"llm"}, {"writer"}, {"tool"}}
  BY <1>8 DEF EarlyStages
<1>15. TurnsAsked'
  <2>1. \A i \in 1..Len(ns) : ns[i].turn <= Agent!Asked
    <3>1. \A i \in 1..Len(ms) : ns[i].turn <= Agent!Asked
      <4>1. \A i \in 1..Len(ms) : ms[i] \in Agent!Message
        BY <1>3
      <4> QED  BY <1>3, <1>4, <1>7, <4>1 DEF GInv, TurnsAsked, ms
    <3> QED  BY <1>7, <3>1
  <2> QED  BY <2>1, <1>2, <1>8, <1>9, <1>11 DEF GInv, TurnsAsked
<1>16. UsageIsCounted'
  <2>1. Agent!Questions(s1'.messages) # {}
    BY <1>7, <1>8 DEF Agent!Questions
  <2>2. 0 < MaxCalls
    BY AgentAssumed
  <2> QED  BY <2>1, <2>2, <1>8, <1>9, <1>13, <1>14 DEF UsageIsCounted
<1>17. Agent!UsageIsOfTheTurn'
  BY <1>2 DEF GInv, Agent!UsageIsOfTheTurn
<1>18. ASSUME AllSettled PROVE AllSettled'
  <2>1. \A i \in 1..Len(ms) : ms[i].kind = "call" => Settled(ms, i) \/ ms[i] \in gone
    BY <1>2, <1>18 DEF AllSettled, ms, gone
  <2>2. ASSUME NEW i \in 1..Len(ms), Settled(ms, i) PROVE Settled(ns, i)
    <3>1. i < Len(ms) /\ i + 1 \in 1..Len(ms)
      BY <1>7, <2>2 DEF Settled
    <3> QED  BY <1>7, <2>2, <3>1 DEF Settled
  <2>3. \A i \in 1..Len(ns) : ns[i].kind = "call" => Settled(ns, i) \/ ns[i] \in gone
    BY <1>7, <2>1, <2>2
  <2> QED  BY <2>3, <1>7, <1>8, <1>9, <1>13, <1>14 DEF AllSettled
<1> QED  BY <1>10, <1>14, <1>15, <1>16, <1>17, <1>18 DEF GInv, Stages

\* The approval, recovery, a failure: the thread stays where it is.
LEMMA OthersKeep ==
  ASSUME GInv, Agent!Resume \/ Agent!Recover \/ Agent!Fail
  PROVE  GInv' /\ (AllSettled => AllSettled')
<1>1. Agent!TypeOK
  BY DEF GInv
<1>2. s1 \in Agent!Thread /\ s3 \in Agent!Run
  BY <1>1, ThreadIs
<1>3. /\ s2' = s2 /\ s1' \in Agent!Thread /\ s1'.messages = s1.messages /\ s1'.usage = s1.usage
      /\ s1'.next = s1.next /\ s3' \in Agent!Run
      /\ s1'.dropped = s1.dropped /\ s3'.at \in {"graph", "idle"}
      /\ s3'.at = "graph" \/ s1' # Agent!NewThread
           => s1.next # {} \/ s3.at = "graph" \/ s1 # Agent!NewThread
  <2>1. CASE Agent!Resume
    <3>1. PICK d \in {"none", "approved", "rejected"} : s1' = [s1 EXCEPT !.decision = d]
      <4>1. PICK d \in {"approved", "rejected"} :
              s1' = [s1 EXCEPT !.decision = IF s1.next = {"tool"} THEN d ELSE @]
        BY <2>1 DEF Agent!Resume
      <4>2. s1.decision \in {"none", "approved", "rejected"}
        BY <1>1, ThreadIs
      <4>3. (IF s1.next = {"tool"} THEN d ELSE s1.decision) \in {"none", "approved", "rejected"}
        BY <4>2
      <4> QED  BY <4>1, <4>3
    <3>2. /\ s3.at = "paused" \/ s1 # Agent!NewThread
          /\ s3' = [at |-> "graph", stream |-> FALSE] /\ s2' = s2
      BY <2>1 DEF Agent!Resume
    <3>3. s1.next # {} \/ s1 # Agent!NewThread
      BY <3>2 DEF GInv, UsageIsCounted
    <3>4. s1' \in Agent!Thread /\ s1'.messages = s1.messages /\ s1'.usage = s1.usage /\ s1'.next = s1.next
          /\ s1'.dropped = s1.dropped
      BY <1>2, <3>1 DEF Agent!Thread
    <3> QED  BY <3>2, <3>3, <3>4 DEF Agent!Run
  <2>2. CASE Agent!Recover
    BY <1>2, <2>2 DEF Agent!Recover, Agent!Run
  <2>3. CASE Agent!Fail
    BY <1>2, <2>3 DEF Agent!Fail, Agent!Idle, Agent!Run
  <2> QED  BY <2>1, <2>2, <2>3
<1>4. Agent!TypeOK'
  BY <1>1, <1>3 DEF Agent!TypeOK
<1>5. Agent!Asked' = Agent!Asked /\ Agent!Calls' = Agent!Calls /\ Agent!Now' = Agent!Now
  BY <1>3 DEF Agent!Asked, Agent!Calls, Agent!Now
<1>6. TurnsAsked'
  BY <1>3, <1>5 DEF GInv, TurnsAsked
<1>7. UsageIsCounted'
  BY <1>3, <1>5 DEF GInv, UsageIsCounted
<1>8. Agent!UsageIsOfTheTurn'
  BY <1>3 DEF GInv, Agent!UsageIsOfTheTurn
<1>9. ASSUME AllSettled PROVE AllSettled'
  BY <1>3, <1>5, <1>9 DEF AllSettled
<1> QED  BY <1>3, <1>4, <1>6, <1>7, <1>8, <1>9 DEF GInv

\* The answer's row costs what its turn did.
LEMMA FinalizeKeeps ==
  ASSUME GInv, Agent!Finalize PROVE GInv' /\ (AllSettled => AllSettled')
<1> DEFINE last == s1.messages[Len(s1.messages)]
           r == [kind |-> "answer", turn |-> Agent!Now, usage |-> s1.usage, calls |-> last.n,
                 unmetered |-> s1.unmetered,
                 retrieval |-> IF s3.stream /\ s1.parts > 0 THEN 0 ELSE s1.retrieval]
<1>1. Agent!TypeOK
  BY DEF GInv
<1>2. /\ s3.at = "graph" /\ s1.next = {} /\ s2' = Append(s2, r) /\ s3' = Agent!Idle /\ s1' = s1
  BY DEF Agent!Finalize, Agent!Last
<1>3. /\ Agent!Questions(s1.messages) # {} /\ Len(s1.messages) > 0 /\ last.n = s1.usage
  BY <1>2 DEF GInv, UsageIsCounted
<1>4. /\ s1.messages \in Seq(Agent!Message) /\ s2 \in Seq(Agent!Row) /\ s1.usage \in Nat
      /\ s1.retrieval \in Agent!Sometime /\ Agent!Now \in Agent!Turn /\ s1.unmetered \in Nat
  BY <1>1, <1>3, ThreadIs
<1>5. last \in Agent!Message
  BY <1>3, <1>4
<1>6. last.n \in 0..MaxCalls
  BY <1>5 DEF Agent!Message
<1> HIDE DEF last
<1>7. r \in Agent!Row
  <2>1. (IF s3.stream /\ s1.parts > 0 THEN 0 ELSE s1.retrieval) \in Agent!Sometime
    BY <1>4, AgentAssumed DEF Agent!Sometime
  <2> QED  BY <1>4, <1>6, <2>1 DEF Agent!Row
<1>8. r.kind = "answer" /\ r.turn = Agent!Now /\ r.usage = r.calls
  BY <1>3
<1> HIDE DEF r
<1>9. /\ s2' \in Seq(Agent!Row) /\ Len(s2') = Len(s2) + 1 /\ Len(s2) \in Nat /\ s2'[Len(s2) + 1] = r
      /\ \A i \in 1..Len(s2) : s2'[i] = s2[i]
  BY <1>2, <1>4, <1>7
<1>10. Agent!Asked' = Agent!Asked
  <2>1. Agent!Asked' = Cardinality(Agent!Questions(s2')) /\ Agent!Asked = Cardinality(Agent!Questions(s2))
    BY SameCardinality DEF Agent!Asked
  <2> QED  BY <2>1, <1>2, <1>4, <1>7, <1>8, AskedGrows
<1>11. s3' \in Agent!Run /\ s3'.at = "idle"
  BY <1>2 DEF Agent!Idle, Agent!Run
<1>12. Agent!TypeOK'
  BY <1>1, <1>2, <1>9, <1>11 DEF Agent!TypeOK
<1>13. Agent!Calls' = Agent!Calls /\ Agent!Now' = Agent!Now
  BY <1>2 DEF Agent!Calls, Agent!Now
<1>14. TurnsAsked'
  <2>1. Agent!Now <= Agent!Asked
    <3>1. Agent!Questions(s1.messages) \in SUBSET (1..Len(s1.messages)) /\ Len(s1.messages) \in Nat
      BY <1>4 DEF Agent!Questions
    <3>2. Agent!Max(Agent!Questions(s1.messages)) \in 1..Len(s1.messages)
      BY <1>3, <3>1, LargestMember
    <3> QED  BY <1>3, <3>2 DEF GInv, TurnsAsked, Agent!Now, Agent!TurnOf
  <2>2. \A i \in 1..Len(s2') : s2'[i].turn <= Agent!Asked
    <3>1. \A i \in 1..Len(s2) : s2[i].turn <= Agent!Asked
      BY DEF GInv, TurnsAsked
    <3> QED  BY <2>1, <3>1, <1>8, <1>9
  <2>3. \A i \in 1..Len(s1'.messages) : s1'.messages[i].turn <= Agent!Asked
    BY <1>2 DEF GInv, TurnsAsked
  <2> QED  BY <2>2, <2>3, <1>10, <1>11 DEF TurnsAsked
<1>15. UsageIsCounted'
  BY <1>2, <1>11, <1>13 DEF GInv, UsageIsCounted
<1>16. Agent!UsageIsOfTheTurn'
  <2>1. \A i \in 1..Len(s2) : s2[i].kind = "answer" => s2[i].usage = s2[i].calls
    BY <1>4 DEF GInv, Agent!UsageIsOfTheTurn
  <2>2. \A i \in 1..Len(s2') : s2'[i].kind = "answer" => s2'[i].usage = s2'[i].calls
    BY <2>1, <1>8, <1>9
  <2> QED  BY <1>9, <2>2 DEF Agent!UsageIsOfTheTurn
<1>17. ASSUME AllSettled PROVE AllSettled'
  BY <1>2, <1>11, <1>13, <1>17 DEF AllSettled
<1> QED  BY <1>2, <1>12, <1>14, <1>15, <1>16, <1>17 DEF GInv

\* The thread is deleted.
LEMMA ExpireKeeps ==
  ASSUME GInv, Agent!Expire PROVE GInv' /\ (AllSettled => AllSettled')
<1>1. Agent!TypeOK
  BY DEF GInv
<1>2. s1' = Agent!NewThread /\ s3' = Agent!Idle /\ s2' = s2
  BY DEF Agent!Expire
<1>3. s1' \in Agent!Thread /\ s1'.messages = <<>> /\ s1'.next = {}
  BY <1>2, AgentAssumed DEF Agent!NewThread, Agent!Thread, Agent!Sometime
<1>4. s3' \in Agent!Run /\ s3'.at = "idle"
  BY <1>2 DEF Agent!Idle, Agent!Run
<1>5. Agent!TypeOK'
  BY <1>1, <1>2, <1>3, <1>4 DEF Agent!TypeOK
<1>6. s1'.next \in Stages /\ s1'.next \notin EarlyStages
  BY <1>3 DEF Stages, EarlyStages
<1>7. TurnsAsked'
  <2>1. Agent!Asked' = Agent!Asked
    BY <1>2 DEF Agent!Asked
  <2> QED  BY <2>1, <1>2, <1>3, <1>4 DEF GInv, TurnsAsked
<1>8. UsageIsCounted'
  BY <1>2, <1>3, <1>4, <1>6 DEF UsageIsCounted
<1>9. Agent!UsageIsOfTheTurn'
  BY <1>2 DEF GInv, Agent!UsageIsOfTheTurn
<1>10. AllSettled'
  BY <1>3, <1>4, <1>6 DEF AllSettled
<1> QED  BY <1>5, <1>6, <1>7, <1>8, <1>9, <1>10 DEF GInv

LEMMA AgentNext ==
  ASSUME GInv, [Agent!Next]_(Agent!vars)
  PROVE  GInv' /\ (AllSettled => AllSettled')
<1>1. CASE UNCHANGED Agent!vars
  <2>1. s1' = s1 /\ s2' = s2 /\ s3' = s3
    BY <1>1 DEF Agent!vars
  <2>2. Agent!Asked' = Agent!Asked /\ Agent!Calls' = Agent!Calls /\ Agent!Now' = Agent!Now
    BY <2>1 DEF Agent!Asked, Agent!Calls, Agent!Now
  <2>3. Agent!TypeOK' /\ Agent!UsageIsOfTheTurn'
    BY <2>1 DEF GInv, Agent!TypeOK, Agent!UsageIsOfTheTurn
  <2>4. TurnsAsked' /\ UsageIsCounted'
    BY <2>1, <2>2 DEF GInv, TurnsAsked, UsageIsCounted
  <2> QED  BY <2>1, <2>2, <2>3, <2>4 DEF GInv, AllSettled
<1> QED
  BY <1>1, AskKeeps, InvokeKeeps, OthersKeep, NodesKeep, FinalizeKeeps, ExpireKeeps DEF Agent!Next

\* When the model is asked, all its calls that were not discarded have their results.
LEMMA SettledIsAnswered == ASSUME GInv, AllSettled PROVE Agent!CallsAreAnswered
<1>1. Agent!TypeOK
  BY DEF GInv
<1>2. s1.messages \in Seq(Agent!Message)
  BY <1>1, ThreadIs
<1> SUFFICES ASSUME s1.next \in {{"llm"}, {"writer"}} PROVE Agent!CallsAreAnswered
  BY DEF Agent!CallsAreAnswered
<1>3. /\ s1.messages[Len(s1.messages)].turn = Agent!Now
      /\ s1.messages[Len(s1.messages)].kind \in {"question", "result"}
  BY DEF AllSettled
<1>4. \A i \in 1..Len(s1.messages) : s1.messages[i].kind = "call" =>
        Settled(s1.messages, i) \/ s1.messages[i] \in s1.dropped
  BY DEF AllSettled
<1> QED  BY <1>2, <1>3, <1>4 DEF Agent!CallsAreAnswered, Agent!Last, Settled

-----------------------------------------------------------------------------
(* CircuitBreaker and SelectedRow, from the proofs of their modules.        *)

BreakerP == INSTANCE CircuitBreakerProofs WITH
  Calls <- Clients, Threshold <- FailureThreshold,
  state <- s1, failures <- s2, opened <- s3, call <- s4, healthy <- s5, late <- s6, quiet <- s7

SelectedP == INSTANCE SelectedRowProofs WITH
  Requests <- Selecting, table <- s1, exists <- s2, selected <- s3, request <- s4

LEMMA BreakerAssumed == BreakerP!BreakerAssumption
BY ServicesAssumption DEF Breaker!BreakerAssumption, BreakerP!BreakerAssumption

\* Theirs and ours are the same.
LEMMA SameBreaker ==
  /\ Breaker!Init <=> BreakerP!Init
  /\ Breaker!Next <=> BreakerP!Next
  /\ Breaker!vars = BreakerP!vars
  /\ Breaker!FailsFast <=> BreakerP!FailsFast
<1>1. Breaker!Init <=> BreakerP!Init
  BY DEF Breaker!Init, BreakerP!Init, Breaker!Idle, BreakerP!Idle
<1>2. Breaker!Next <=> BreakerP!Next
  BY DEF Breaker!Next, Breaker!Check, Breaker!Succeed, Breaker!AttemptFails, Breaker!Fail,
         Breaker!Abandon, Breaker!Tick, Breaker!Recover, Breaker!Idle, Breaker!Admits,
         Breaker!Looked, Breaker!MayFail, Breaker!Counted, Breaker!Opens, Breaker!Later,
         BreakerP!Next, BreakerP!Check, BreakerP!Succeed, BreakerP!AttemptFails, BreakerP!Fail,
         BreakerP!Abandon, BreakerP!Tick, BreakerP!Recover, BreakerP!Idle, BreakerP!Admits,
         BreakerP!Looked, BreakerP!MayFail, BreakerP!Counted, BreakerP!Opens, BreakerP!Later
<1>3. Breaker!vars = BreakerP!vars
  BY DEF Breaker!vars, BreakerP!vars
<1>4. Breaker!FailsFast <=> BreakerP!FailsFast
  BY DEF Breaker!FailsFast, Breaker!Admits, Breaker!Looked,
         BreakerP!FailsFast, BreakerP!Admits, BreakerP!Looked
<1> QED  BY <1>1, <1>2, <1>3, <1>4

LEMMA SameSelected ==
  /\ Selected!Init <=> SelectedP!Init
  /\ Selected!Next <=> SelectedP!Next
  /\ Selected!vars = SelectedP!vars
  /\ Selected!KeepsOneDefault <=> SelectedP!KeepsOneDefault
  /\ Selected!DecidesAlone <=> SelectedP!DecidesAlone
<1>1. Selected!Init <=> SelectedP!Init
  BY DEF Selected!Init, SelectedP!Init
<1>2. \A q \in Selecting :
        /\ Selected!Open(q) <=> SelectedP!Open(q)
        /\ Selected!Locked(q) = SelectedP!Locked(q)
        /\ Selected!Selects(q) <=> SelectedP!Selects(q)
        /\ \A step : Selected!Over(q, step) <=> SelectedP!Over(q, step)
        /\ Selected!RolledBack(q) = SelectedP!RolledBack(q)
  BY DEF Selected!Open, Selected!Locked, Selected!Selects, Selected!Over, Selected!RolledBack,
         SelectedP!Open, SelectedP!Locked, SelectedP!Selects, SelectedP!Over, SelectedP!RolledBack
<1>3. \A q \in Selecting : Selected!After(q) = SelectedP!After(q)
  BY <1>2 DEF Selected!After, SelectedP!After
<1>4. \A r \in Rows : Selected!Found(r) = SelectedP!Found(r)
  BY DEF Selected!Found, SelectedP!Found
<1>5. Selected!Next <=> SelectedP!Next
  <2>1. Selected!Insert <=> SelectedP!Insert
    BY DEF Selected!Insert, SelectedP!Insert
  <2>2. ASSUME NEW q \in Selecting
        PROVE  /\ Selected!Read(q) <=> SelectedP!Read(q)
               /\ Selected!Clear(q) <=> SelectedP!Clear(q)
               /\ Selected!Commit(q) <=> SelectedP!Commit(q)
               /\ Selected!Fail(q) <=> SelectedP!Fail(q)
    <3>1. Selected!Read(q) <=> SelectedP!Read(q)
      BY DEF Selected!Read, SelectedP!Read, Selected!Open, SelectedP!Open, Selected!Found, SelectedP!Found
    <3>2. Selected!Clear(q) <=> SelectedP!Clear(q)
      BY <1>2 DEF Selected!Clear, SelectedP!Clear
    <3>3. Selected!Commit(q) <=> SelectedP!Commit(q)
      <4>1. Selected!IndexAllows(q) <=> SelectedP!IndexAllows(q)
        BY <1>3 DEF Selected!IndexAllows, SelectedP!IndexAllows, Selected!Cardinality, SelectedP!Cardinality
      <4>2. Selected!Over(q, "done") <=> SelectedP!Over(q, "done")
        BY DEF Selected!Over, SelectedP!Over
      <4>3. Selected!Locked(q) = SelectedP!Locked(q) /\ (Selected!Selects(q) <=> SelectedP!Selects(q))
        BY <1>2
      <4>4. Selected!After(q) = SelectedP!After(q)
        BY <1>3
      <4> QED  BY <4>1, <4>2, <4>3, <4>4 DEF Selected!Commit, SelectedP!Commit
    <3>4. Selected!Fail(q) <=> SelectedP!Fail(q)
      BY <1>2 DEF Selected!Fail, SelectedP!Fail
    <3> QED  BY <3>1, <3>2, <3>3, <3>4
  <2> QED  BY <2>1, <2>2 DEF Selected!Next, SelectedP!Next
<1>6. Selected!vars = SelectedP!vars
  BY DEF Selected!vars, SelectedP!vars
<1>7. Selected!KeepsOneDefault <=> SelectedP!KeepsOneDefault
  BY DEF Selected!KeepsOneDefault, SelectedP!KeepsOneDefault, Selected!Cardinality, SelectedP!Cardinality
<1>8. Selected!DecidesAlone <=> SelectedP!DecidesAlone
  BY DEF Selected!DecidesAlone, SelectedP!DecidesAlone
<1> QED  BY <1>1, <1>5, <1>6, <1>7, <1>8

-----------------------------------------------------------------------------
\* The invariant of whichever component runs.
SInv == SelectedP!TypeOK /\ SelectedP!OneDefault /\ SelectedP!AloneKnows

ServicesInv ==
  /\ component = "breaker" => BreakerP!BInv
  /\ component = "limiter" => LInv
  /\ component = "http" => HInv
  /\ component = "crawl" => WInv
  /\ component = "cache" => CInv /\ OneEntry
  /\ component = "selected" => SInv
  /\ component = "agent" => GInv /\ AllSettled

LEMMA ServicesStart == ASSUME ServicesInit PROVE ServicesInv
<1>1. component = "breaker" => BreakerP!BInv
  BY SameBreaker, BreakerAssumed, BreakerP!InitBInv DEF ServicesInit
<1>2. component = "http" => HInv
  BY HttpInit DEF ServicesInit
<1>3. component = "cache" => CInv /\ OneEntry
  BY CacheInit, OneEntryInit DEF ServicesInit
<1>4. component = "selected" => SInv
  BY SameSelected, ServicesAssumption, SelectedP!InitTypes, SelectedP!InitRest DEF ServicesInit, SInv
<1>5. component = "limiter" => LInv
  BY LimiterInit DEF ServicesInit
<1>6. component = "crawl" => WInv
  BY CrawlInit DEF ServicesInit
<1>7. component = "agent" => GInv /\ AllSettled
  BY AgentInit DEF ServicesInit
<1> QED  BY <1>1, <1>2, <1>3, <1>4, <1>5, <1>6, <1>7 DEF ServicesInv

\* A step is one of the component that runs.
LEMMA ServicesSteps ==
  ASSUME [ServicesNext]_vars
  PROVE  /\ component' = component
         /\ component = "breaker" => [Breaker!Next]_(Breaker!vars)
         /\ component = "limiter" => [Limiter!Next]_(Limiter!vars)
         /\ component = "http" => [Http!Next]_(Http!vars)
         /\ component = "crawl" => [Crawl!Next]_(Crawl!vars)
         /\ component = "cache" => [Cache!Next]_(Cache!vars)
         /\ component = "selected" => [Selected!Next]_(Selected!vars)
         /\ component = "agent" => [Agent!Next]_(Agent!vars)
<1>1. CASE UNCHANGED vars
  BY <1>1 DEF vars, Breaker!vars, Limiter!vars, Http!vars, Crawl!vars, Cache!vars, Selected!vars,
                   Agent!vars
<1>2. CASE ServicesNext
  BY <1>2 DEF ServicesNext, BreakerStep, LimiterStep, HttpStep, CrawlStep, CacheStep, SelectedStep,
              AgentStep
<1> QED  BY <1>1, <1>2

LEMMA BreakerSteps ==
  ASSUME [ServicesNext]_vars, component = "breaker" PROVE [BreakerP!Next]_(BreakerP!vars)
<1>1. Breaker!Next \/ UNCHANGED Breaker!vars
  BY ServicesSteps
<1>2. UNCHANGED Breaker!vars => UNCHANGED BreakerP!vars
  BY DEF Breaker!vars, BreakerP!vars
<1> QED  BY <1>1, <1>2, SameBreaker

LEMMA SelectedSteps ==
  ASSUME [ServicesNext]_vars, component = "selected" PROVE [SelectedP!Next]_(SelectedP!vars)
<1>1. Selected!Next \/ UNCHANGED Selected!vars
  BY ServicesSteps
<1>2. UNCHANGED Selected!vars => UNCHANGED SelectedP!vars
  BY DEF Selected!vars, SelectedP!vars
<1> QED  BY <1>1, <1>2, SameSelected

LEMMA ServicesKeep == ASSUME ServicesInv, [ServicesNext]_vars PROVE ServicesInv'
<1>1. component = "breaker" => BreakerP!BInv'
  <2> SUFFICES ASSUME component = "breaker" PROVE BreakerP!BInv'
    OBVIOUS
  <2>1. BreakerP!BInv
    BY DEF ServicesInv
  <2> QED  BY <2>1, BreakerSteps, BreakerAssumed, BreakerP!NextBInv
<1>2. component = "http" => HInv'
  BY ServicesSteps, HttpNext DEF ServicesInv
<1>3. component = "cache" => (CInv /\ OneEntry)'
  BY ServicesSteps, CacheNext, OneEntryKeeps DEF ServicesInv
<1>4. component = "selected" => SInv'
  <2> SUFFICES ASSUME component = "selected" PROVE SInv'
    OBVIOUS
  <2>1. SInv
    BY DEF ServicesInv
  <2> QED  BY <2>1, SelectedSteps, SelectedP!NextTypes, SelectedP!NextOneDefault, SelectedP!NextAloneKnows DEF SInv
<1>5. component = "limiter" => LInv'
  BY ServicesSteps, LimiterNext DEF ServicesInv
<1>6. component = "crawl" => WInv'
  BY ServicesSteps, CrawlNext DEF ServicesInv
<1>7. component = "agent" => GInv' /\ AllSettled'
  BY ServicesSteps, AgentNext DEF ServicesInv
<1> QED  BY <1>1, <1>2, <1>3, <1>4, <1>5, <1>6, <1>7, ServicesSteps DEF ServicesInv

LEMMA ServicesInvariant == ServicesSpec => []ServicesInv
BY ServicesStart, ServicesKeep, PTL DEF ServicesSpec

-----------------------------------------------------------------------------
\* TypeOK: every variable of every component keeps its type; the settings cache never
\* believes two things of a key.
THEOREM EveryTypeIsKept == ServicesSpec => []TypeOK
<1>1. ServicesInv => TypeOK
  <2>1. Breaker!TypeOK <=> BreakerP!TypeOK
    BY DEF Breaker!TypeOK, BreakerP!TypeOK, Breaker!CircuitState, BreakerP!CircuitState, Breaker!Time, BreakerP!Time
  <2>2. Selected!TypeOK <=> SelectedP!TypeOK
    BY DEF Selected!TypeOK, SelectedP!TypeOK, Selected!Request, SelectedP!Request
  <2>3. ServicesInv => /\ (component = "breaker" => BreakerP!TypeOK)
                      /\ (component = "selected" => SelectedP!TypeOK)
    BY DEF ServicesInv, BreakerP!BInv, SInv
  <2>4. ServicesInv => (component = "cache" => Cache!TypeOK)
    BY CacheTypeOK DEF ServicesInv
  <2>5. ServicesInv => /\ (component = "limiter" => Limiter!TypeOK)
                      /\ (component = "http" => Http!TypeOK)
                      /\ (component = "crawl" => Crawl!TypeOK)
                      /\ (component = "agent" => Agent!TypeOK)
    BY DEF ServicesInv, LInv, HInv, WInv, GInv
  <2> QED  BY <2>1, <2>2, <2>3, <2>4, <2>5 DEF TypeOK
<1> QED  BY <1>1, ServicesInvariant, PTL

\* FailsFast: from the threshold of failures on no call is admitted before the provider
\* was left alone for the whole timeout, and below it none is refused.
THEOREM ProviderIsLeftAlone == ServicesSpec => []FailsFast
<1>1. ServicesInv => FailsFast
  BY SameBreaker, BreakerAssumed, BreakerP!BInvFailsFast DEF ServicesInv, FailsFast
<1> QED  BY <1>1, ServicesInvariant, PTL

\* WithinBudget: no stretch of the window's length, wherever it starts, sees more calls
\* than MaxRequests or more tokens than MaxTokens, whoever sleeps and wakes beside whom.
THEOREM CallsStayWithinBudget == ServicesSpec => []WithinBudget
<1>1. ServicesInv => WithinBudget
  BY DEF ServicesInv, LInv, WithinBudget
<1> QED  BY <1>1, ServicesInvariant, PTL

\* WaitIsExact: who sleeps, and is overtaken by nobody, wakes when its call fits and not
\* a tick later.
THEOREM SleepsAreExact == ServicesSpec => []WaitIsExact
<1>1. ServicesInv => WaitIsExact
  BY LimiterWaits DEF ServicesInv, WaitIsExact
<1> QED  BY <1>1, ServicesInvariant, PTL

\* Spaced: whatever is retried, redirected or sent at the same time, two requests of a
\* connector to one host are never handed to the HTTP client closer than the interval.
THEOREM RequestsAreSpaced == ServicesSpec => Spaced
<1>1. ServicesInv /\ [ServicesNext]_vars => [component = "http" => Http!KeepsDistance]_vars
  BY ServicesSteps, HttpDistance DEF ServicesInv
<1> QED  BY <1>1, ServicesInvariant, PTL DEF ServicesSpec, Spaced

\* EveryPageInReach: a crawl that ends by itself has asked for every page within its
\* depth, and every document it found is at its distance from the start.
THEOREM PagesAreReached == ServicesSpec => []EveryPageInReach
<1>1. ServicesInv => EveryPageInReach
  BY CrawlReaches DEF ServicesInv, EveryPageInReach
<1> QED  BY <1>1, ServicesInvariant, PTL

\* ReadsOwnWrite: who changed a setting (not a flag or a profile) is not shown an older
\* one by the same process, unless a lookup had read it before the entry was dropped.
THEOREM WritersSeeTheirWrites == ServicesSpec => []ReadsOwnWrite
<1>1. ServicesInv => ReadsOwnWrite
  BY CacheReads DEF ServicesInv, ReadsOwnWrite
<1> QED  BY <1>1, ServicesInvariant, PTL

\* DefaultStays: once there is a default profile, every step leaves exactly one.
THEOREM DefaultIsReplaced == ServicesSpec => DefaultStays
<1>1. ServicesInv /\ [ServicesNext]_vars => [component = "selected" => Selected!KeepsOneDefault]_vars
  <2> SUFFICES ASSUME ServicesInv, [ServicesNext]_vars, component = "selected"
               PROVE  Selected!KeepsOneDefault
    OBVIOUS
  <2>1. SInv
    BY DEF ServicesInv
  <2>2. SelectedP!KeepsOneDefault
    BY <2>1, SelectedSteps, SelectedP!StepKeepsDefault DEF SInv
  <2> QED  BY <2>2, SameSelected
<1> QED  BY <1>1, ServicesInvariant, PTL DEF ServicesSpec, DefaultStays

\* LonePublishDecides: a publish that nobody overlaps leaves its own version published
\* and no other, whatever earlier ones left.
THEOREM LonePublishIsLive == ServicesSpec => LonePublishDecides
<1>1. ServicesInv /\ [ServicesNext]_vars => [component = "selected" => Selected!DecidesAlone]_vars
  <2> SUFFICES ASSUME ServicesInv, [ServicesNext]_vars, component = "selected"
               PROVE  Selected!DecidesAlone
    OBVIOUS
  <2>1. SInv
    BY DEF ServicesInv
  <2>2. SelectedP!DecidesAlone
    BY <2>1, SelectedSteps, SelectedP!StepDecidesAlone DEF SInv
  <2> QED  BY <2>2, SameSelected
<1> QED  BY <1>1, ServicesInvariant, PTL DEF ServicesSpec, LonePublishDecides

\* UsageIsOfTheTurn: an answer is saved with the usage of its turn's calls of LLMNode and
\* WriterNode, each once, whatever the thread held before; the calls of the query
\* analysis and of the research subgraph are not in it.
THEOREM AnswersCostTheirTurn == ServicesSpec => []UsageIsOfTheTurn
<1>1. ServicesInv => UsageIsOfTheTurn
  BY DEF ServicesInv, GInv, UsageIsOfTheTurn
<1> QED  BY <1>1, ServicesInvariant, PTL

\* CallsAreAnswered: the model never sees a tool call without its results, except calls
\* whose tool step was pending (for its approval, or after it raised or died) when a new
\* question discarded it.
THEOREM ModelSeesResults == ServicesSpec => []CallsAreAnswered
<1>1. ServicesInv => CallsAreAnswered
  BY SettledIsAnswered DEF ServicesInv, CallsAreAnswered
<1> QED  BY <1>1, ServicesInvariant, PTL
=============================================================================
