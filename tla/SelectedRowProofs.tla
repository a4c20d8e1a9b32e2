-------------------------- MODULE SelectedRowProofs --------------------------
(***************************************************************************)
(* Proofs about SelectedRow, for any rows and requests: a publish that no  *)
(* other transaction overlaps leaves its version alone published, and the  *)
(* default profile is replaced, never lost or doubled.                     *)
(***************************************************************************)
EXTENDS SelectedRow, FiniteSetTheorems, TLAPS

AtMostOne(S) == S = {} \/ \E r \in Rows : S = {r}

\* What the unique index gives; nothing of the kind holds of prompts.
OneDefault == table = "profiles" => AtMostOne(selected)

\* A transaction nobody overlapped knows all that is selected.
KnowsSelected(q) ==
  /\ table = "prompts" => /\ request[q].found = selected \ {request[q].target}
                          /\ request[q].believed <=> request[q].target \in selected
  /\ table = "profiles" => selected \subseteq request[q].found

AloneKnows ==
  \A q \in Requests : request[q].alone /\ Open(q) =>
    /\ \A o \in Requests \ {q} : ~Open(o)
    /\ KnowsSelected(q)

-----------------------------------------------------------------------------
\* At the start at most one row is selected and no transaction is open.
LEMMA InitTypes == ASSUME Init, Rows # {} PROVE TypeOK
<1>1. (CHOOSE r \in Rows : TRUE) \in Rows
  OBVIOUS
<1>2. request \in [Requests -> Request]
  BY <1>1 DEF Init, Request
<1> QED  BY <1>2 DEF Init, TypeOK

LEMMA InitRest == ASSUME Init PROVE OneDefault /\ AloneKnows
<1>1. AtMostOne(selected)
  BY DEF Init, AtMostOne
<1>2. \A q \in Requests : ~Open(q)
  BY DEF Init, Open
<1> QED  BY <1>1, <1>2 DEF OneDefault, AloneKnows

\* The rows a request finds are committed ones.
LEMMA FoundAreRows == ASSUME TypeOK, NEW r \in Rows PROVE Found(r) \in SUBSET Rows
BY DEF TypeOK, Found

\* Every action keeps the types.
LEMMA NextTypes == ASSUME TypeOK, [Next]_vars PROVE TypeOK'
<1>1. ASSUME Insert PROVE TypeOK'
  BY <1>1 DEF Insert, TypeOK
<1>2. ASSUME NEW q \in Requests, Read(q) PROVE TypeOK'
  <2>1. PICK r \in Rows : request' = [p \in Requests |->
            IF p = q THEN [step |-> "read", target |-> r, found |-> Found(r), believed |-> r \in selected,
                           alone |-> \A o \in Requests : ~Open(o)]
            ELSE [request[p] EXCEPT !.alone = FALSE]]
    BY <1>2 DEF Read
  <2>2. [step |-> "read", target |-> r, found |-> Found(r), believed |-> r \in selected,
         alone |-> \A o \in Requests : ~Open(o)] \in Request
    <3>1. Found(r) \in SUBSET Rows
      BY FoundAreRows
    <3>2. (r \in selected) \in BOOLEAN /\ (\A o \in Requests : ~Open(o)) \in BOOLEAN
      OBVIOUS
    <3> QED  BY <3>1, <3>2, Zenon DEF Request
  <2>3. \A p \in Requests : [request[p] EXCEPT !.alone = FALSE] \in Request
    BY DEF TypeOK, Request
  <2>4. request' \in [Requests -> Request]
    BY <2>1, <2>2, <2>3, Zenon
  <2> QED  BY <1>2, <2>4 DEF Read, TypeOK
<1>3. ASSUME NEW q \in Requests, Clear(q) PROVE TypeOK'
  BY <1>3 DEF Clear, TypeOK, Request
<1>4. ASSUME NEW q \in Requests, NEW step \in {"done", "failed"}, Over(q, step)
      PROVE request' \in [Requests -> Request]
  BY <1>4 DEF Over, TypeOK, Request
<1>5. ASSUME NEW q \in Requests, Commit(q) PROVE TypeOK'
  <2>1. request[q].target \in Rows
    BY DEF TypeOK, Request
  <2> QED  BY <1>4, <1>5, <2>1 DEF Commit, After, TypeOK
<1>6. ASSUME NEW q \in Requests, Fail(q) PROVE TypeOK'
  BY <1>4, <1>6 DEF Fail, RolledBack, TypeOK
<1>7. ASSUME UNCHANGED vars PROVE TypeOK'
  BY <1>7 DEF vars, TypeOK
<1> QED  BY <1>1, <1>2, <1>3, <1>5, <1>6, <1>7 DEF Next

\* What the index allows is one row, if there is any.
LEMMA IndexMeansOne ==
  ASSUME NEW S, NEW r \in Rows, IsFiniteSet(S), r \in S, Cardinality(S) <= 1
  PROVE  S = {r}
<1>1. SUFFICES ASSUME NEW x \in S, x # r PROVE FALSE
  OBVIOUS
<1>2. IsFiniteSet({r, x}) /\ Cardinality({r, x}) = 2
  <2>1. IsFiniteSet({r}) /\ Cardinality({r}) = 1
    BY FS_Singleton
  <2>2. {r, x} = {r} \union {x} /\ x \notin {r}
    BY <1>1
  <2> QED  BY <2>1, <2>2, FS_AddElement
<1>3. Cardinality({r, x}) <= Cardinality(S)
  <2>1. {r, x} \in SUBSET S
    BY <1>1
  <2> QED  BY <2>1, FS_Subset
<1>4. Cardinality(S) \in Nat
  BY FS_CardinalityType
<1> QED  BY <1>2, <1>3, <1>4

\* A commit that the index allows leaves one default.
LEMMA CommitSelectsOne ==
  ASSUME TypeOK, OneDefault, NEW q \in Requests, Commit(q), table = "profiles"
  PROVE  selected' = {request[q].target}
<1>1. IsFiniteSet(selected)
  BY FS_EmptySet, FS_Singleton DEF OneDefault, AtMostOne
<1>2. selected' = (selected \ request[q].found) \union {request[q].target}
  BY DEF Commit, After, Selects
<1>3. IsFiniteSet(selected \ request[q].found)
  BY <1>1, FS_Subset
<1>4. IsFiniteSet(selected')
  BY <1>2, <1>3, FS_AddElement
<1>5. Cardinality(selected') <= 1
  BY DEF Commit, IndexAllows
<1>6. request[q].target \in Rows
  BY DEF TypeOK, Request
<1> QED  BY <1>2, <1>4, <1>5, <1>6, IndexMeansOne

LEMMA NextOneDefault == ASSUME TypeOK, OneDefault, [Next]_vars PROVE OneDefault'
<1>1. ASSUME NEW q \in Requests, Commit(q) PROVE OneDefault'
  BY <1>1, CommitSelectsOne DEF Commit, OneDefault, AtMostOne, TypeOK, Request
<1>2. ASSUME UNCHANGED <<table, selected>> PROVE OneDefault'
  BY <1>2 DEF OneDefault, AtMostOne
<1> QED  BY <1>1, <1>2 DEF Next, Insert, Read, Clear, Fail, RolledBack, vars

\* Overlapping ends it: a transaction is alone only while it is the only one.
LEMMA NextAloneKnows == ASSUME TypeOK, AloneKnows, [Next]_vars PROVE AloneKnows'
<1> USE DEF AloneKnows, KnowsSelected, Open
<1>1. ASSUME Insert PROVE AloneKnows'
  BY <1>1 DEF Insert
<1>2. ASSUME NEW q \in Requests, Read(q) PROVE AloneKnows'
  <2>1. PICK r \in Rows : request' = [p \in Requests |->
            IF p = q THEN [step |-> "read", target |-> r, found |-> Found(r), believed |-> r \in selected,
                           alone |-> \A o \in Requests : ~Open(o)]
            ELSE [request[p] EXCEPT !.alone = FALSE]]
    BY <1>2 DEF Read
  <2>2. \A p \in Requests \ {q} : ~request'[p].alone /\ request'[p].step = request[p].step
    BY <2>1 DEF TypeOK, Request
  <2>3. /\ request'[q].target = r /\ request'[q].found = Found(r)
        /\ request'[q].believed <=> r \in selected
        /\ request'[q].alone <=> \A o \in Requests : ~Open(o)
    BY <2>1, Zenon
  <2>4. table' = table /\ selected' = selected
    BY <1>2 DEF Read
  <2>5. KnowsSelected(q)'
    BY <2>3, <2>4 DEF Found, TypeOK
  <2> QED  BY <2>2, <2>3, <2>5
<1>3. ASSUME NEW q \in Requests, Clear(q) PROVE AloneKnows'
  BY <1>3 DEF Clear, TypeOK, Request
<1>4. ASSUME NEW q \in Requests, NEW step \in {"done", "failed"}, Over(q, step), Open(q)
      PROVE AloneKnows'
  <2>1. ~Open(q)' /\ \A p \in Requests \ {q} : request'[p] = request[p]
    BY <1>4 DEF Over, TypeOK, Request
  <2>2. \A p \in Requests \ {q} : ~(request[p].alone /\ Open(p))
    BY <1>4
  <2> QED  BY <2>1, <2>2
<1>5. ASSUME NEW q \in Requests, Commit(q) PROVE AloneKnows'
  BY <1>4, <1>5 DEF Commit
<1>6. ASSUME NEW q \in Requests, Fail(q) PROVE AloneKnows'
  BY <1>4, <1>6 DEF Fail
<1>7. ASSUME UNCHANGED vars PROVE AloneKnows'
  BY <1>7 DEF vars
<1> QED  BY <1>1, <1>2, <1>3, <1>5, <1>6, <1>7 DEF Next

\* A commit leaves one default, and nothing else touches it.
LEMMA StepKeepsDefault == ASSUME TypeOK, OneDefault, [Next]_vars PROVE KeepsOneDefault
<1>1. SUFFICES ASSUME table = "profiles", selected # {} PROVE Cardinality(selected') = 1
  BY DEF KeepsOneDefault
<1>2. ASSUME NEW q \in Requests, Commit(q) PROVE Cardinality(selected') = 1
  BY <1>1, <1>2, CommitSelectsOne, FS_Singleton
<1>3. ASSUME selected' = selected PROVE Cardinality(selected') = 1
  BY <1>1, <1>3, FS_Singleton DEF OneDefault, AtMostOne
<1> QED  BY <1>2, <1>3 DEF Next, Insert, Read, Clear, Fail, RolledBack, vars

\* The publish that knows all that is published unpublishes it.
LEMMA StepDecidesAlone == ASSUME TypeOK, AloneKnows, [Next]_vars PROVE DecidesAlone
<1>1. SUFFICES ASSUME NEW q \in Requests, request[q].alone, request[q].step = "cleared",
                      request'[q].step = "done"
               PROVE  selected' = {request[q].target}
  BY DEF DecidesAlone
<1>2. Commit(q)
  <2>1. \A p \in Requests \ {q} : ~Open(p)
    BY <1>1 DEF AloneKnows, Open
  <2>2. ASSUME NEW p \in Requests, Read(p) PROVE FALSE
    <3>1. PICK r \in Rows : request' = [o \in Requests |->
            IF o = p THEN [step |-> "read", target |-> r, found |-> Found(r), believed |-> r \in selected,
                           alone |-> \A k \in Requests : ~Open(k)]
            ELSE [request[o] EXCEPT !.alone = FALSE]]
      BY <2>2 DEF Read
    <3>2. request'[q].step \in {"read", request[q].step}
      BY <3>1 DEF TypeOK, Request
    <3> QED  BY <3>2, <1>1
  <2>3. ASSUME NEW p \in Requests, Clear(p) PROVE FALSE
    BY <1>1, <2>1, <2>3 DEF Clear, Open, TypeOK, Request
  <2>4. ASSUME NEW p \in Requests, Fail(p) PROVE FALSE
    BY <1>1, <2>1, <2>4 DEF Fail, Over, Open, TypeOK, Request
  <2>5. ASSUME NEW p \in Requests, Commit(p) PROVE Commit(q)
    BY <1>1, <2>1, <2>5 DEF Commit, Open
  <2>6. request' # request
    BY <1>1
  <2> QED  BY <2>2, <2>3, <2>4, <2>5, <2>6 DEF Next, Insert, vars
<1>3. selected' = After(q) /\ KnowsSelected(q)
  BY <1>1, <1>2 DEF Commit, AloneKnows, Open
<1>4. CASE table = "prompts"
  BY <1>3, <1>4 DEF After, Selects, KnowsSelected
<1>5. CASE table = "profiles"
  BY <1>3, <1>5 DEF After, Selects, KnowsSelected
<1> QED  BY <1>4, <1>5 DEF TypeOK

-----------------------------------------------------------------------------
\* TypeOK holds in every state, if there may be a row at all.
THEOREM TypeCorrect == ASSUME Rows # {} PROVE Spec => []TypeOK
BY InitTypes, NextTypes, PTL DEF Spec

\* DefaultStays: once there is a default profile, every step leaves exactly one.
THEOREM DefaultIsReplaced == ASSUME Rows # {} PROVE Spec => DefaultStays
<1>1. ASSUME TypeOK, OneDefault, [Next]_vars PROVE [KeepsOneDefault]_vars
  BY <1>1, StepKeepsDefault
<1>2. Init => TypeOK /\ OneDefault
  BY InitTypes, InitRest
<1>3. TypeOK /\ OneDefault /\ [Next]_vars => TypeOK' /\ OneDefault'
  BY NextTypes, NextOneDefault
<1> QED  BY <1>1, <1>2, <1>3, PTL DEF Spec, DefaultStays

\* LonePublishDecides: whatever earlier requests left, a publish that nobody overlaps
\* leaves its own version published and no other.
THEOREM LonePublishIsLive == ASSUME Rows # {} PROVE Spec => LonePublishDecides
<1>1. ASSUME TypeOK, AloneKnows, [Next]_vars PROVE [DecidesAlone]_vars
  BY <1>1, StepDecidesAlone
<1>2. Init => TypeOK /\ AloneKnows
  BY InitTypes, InitRest
<1>3. TypeOK /\ AloneKnows /\ [Next]_vars => TypeOK' /\ AloneKnows'
  BY NextTypes, NextAloneKnows
<1> QED  BY <1>1, <1>2, <1>3, PTL DEF Spec, LonePublishDecides
=============================================================================
