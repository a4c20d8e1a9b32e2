---------------------------- MODULE SelectedRow ----------------------------
(***************************************************************************)
(* Two tables in which one row is the one in use: the published version of *)
(* a prompt, and the default model profile.  A request reads, unselects    *)
(* what it found, selects its row and commits, in one transaction under    *)
(* READ COMMITTED; an update waits for the transaction that changed the    *)
(* row before.  Profiles have a unique index behind it, prompts have not.  *)
(* Left out: deleting a row, and a profile that stops being the default    *)
(* because its own update says so.                                         *)
(* (repositories/prompt_version.py, model_profile.py, api/routers/prompts, *)
(* models, database/upgrades.py.)                                          *)
(***************************************************************************)
EXTENDS Naturals, FiniteSets

CONSTANTS
  Rows,      \* versions of one prompt, or model profiles
  Requests   \* that publish a version, or make a profile the default; a name is used again

VARIABLES
  table,     \* "prompts" or "profiles"
  exists,    \* rows there are, as committed
  selected,  \* is_published, is_default: rows, as committed
  request    \* each request and its transaction

vars == <<table, exists, selected, request>>

\* found: the rows it will unselect; believed: its own row was selected when read
\* alone: history, no other transaction was open while this one was
Request == [step: {"idle", "read", "cleared", "done", "failed"}, target: Rows,
            found: SUBSET Rows, believed: BOOLEAN, alone: BOOLEAN]
Over(q, step) == request' = [request EXCEPT ![q] = [@ EXCEPT !.step = step, !.found = {}, !.believed = FALSE]]
Open(q) == request[q].step \in {"read", "cleared"}

Init ==
  /\ table \in {"prompts", "profiles"}
  /\ exists \in SUBSET Rows
  /\ selected \in {{}} \union {{r} : r \in exists}
  /\ request = [q \in Requests |-> [step |-> "idle", target |-> CHOOSE r \in Rows : TRUE,
                                    found |-> {}, believed |-> FALSE, alone |-> FALSE]]

\* A draft version; a profile created without is_default.
Insert ==
  /\ \E r \in Rows \ exists : exists' = exists \union {r}
  /\ UNCHANGED <<table, selected, request>>

\* Mutant of Found: get_published, one row.
FoundOne(r) ==
  IF table = "profiles" THEN exists
  ELSE IF selected \ {r} = {} THEN {} ELSE {CHOOSE s \in selected \ {r} : TRUE}

\* publish: the siblings that are published; clear_default: all rows there are.
Found(r) == IF table = "prompts" THEN selected \ {r} ELSE exists

\* The queries.  A profile may be created as the default, a version is there before.
Read(q) ==
  /\ ~Open(q)
  /\ \E r \in Rows :
       /\ table = "prompts" => r \in exists
       /\ request' = [p \in Requests |->
            IF p = q THEN [step |-> "read", target |-> r, found |-> Found(r), believed |-> r \in selected,
                           alone |-> \A o \in Requests : ~Open(o)]
            ELSE [request[p] EXCEPT !.alone = FALSE]]
  /\ UNCHANGED <<table, exists, selected>>

\* Rows another transaction has updated.
Locked(q) == UNION {request[p].found : p \in {o \in Requests \ {q} : request[o].step = "cleared"}}

\* The updates that unselect.
Clear(q) ==
  /\ request[q].step = "read"
  /\ request[q].found \intersect Locked(q) = {}
  /\ request' = [request EXCEPT ![q].step = "cleared"]
  /\ UNCHANGED <<table, exists, selected>>

\* A version that was published when it was read is not updated: nothing changed.  A
\* profile is, since clear_default changed it.
Selects(q) == table = "profiles" \/ ~request[q].believed

After(q) ==
  (selected \ request[q].found) \union (IF Selects(q) THEN {request[q].target} ELSE {})

\* uq_model_profile_single_default
IndexAllows(q) == table = "profiles" => Cardinality(After(q)) <= 1

\* The update or insert that selects, once nobody has its row locked, and the commit.
Commit(q) ==
  /\ request[q].step = "cleared"
  /\ Selects(q) => request[q].target \notin Locked(q)
  /\ IndexAllows(q)
  /\ selected' = After(q)
  /\ exists' = exists \union {request[q].target}
  /\ Over(q, "done")
  /\ UNCHANGED table

\* Mutant of RolledBack: what the request had unselected stays so.
ClearedStays(q) == selected \ request[q].found

RolledBack(q) == selected

\* A unique violation, a deadlock's victim, or any other error.
Fail(q) ==
  /\ Open(q)
  /\ selected' = RolledBack(q)
  /\ Over(q, "failed")
  /\ UNCHANGED <<table, exists>>

Next == Insert \/ \E q \in Requests : Read(q) \/ Clear(q) \/ Commit(q) \/ Fail(q)
Spec == Init /\ [][Next]_vars

-----------------------------------------------------------------------------
\* Every variable has its type.
TypeOK ==
  /\ table \in {"prompts", "profiles"}
  /\ exists \subseteq Rows /\ selected \subseteq exists
  /\ request \in [Requests -> Request]

\* "Exactly one profile ever has is_default=True" (clear_default): once there is a
\* default, no step, failed or concurrent or of a request that does not see the row of
\* another, leaves none or two.
KeepsOneDefault == table = "profiles" /\ selected # {} => Cardinality(selected') = 1
DefaultStays == [][KeepsOneDefault]_vars

\* "Makes this version the one live version": a publish that no other overlaps does,
\* also when earlier ones that did have left several published, or none.
DecidesAlone ==
  \A q \in Requests :
    request[q].alone /\ request[q].step = "cleared" /\ request'[q].step = "done"
      => selected' = {request[q].target}
LonePublishDecides == [][DecidesAlone]_vars

\* "Exactly one version is ever published per prompt at a time" (publish).
\* False where publishes overlap.
OnePublished == table = "prompts" => Cardinality(selected) <= 1
=============================================================================
