--------------------------- MODULE SettingsCache ---------------------------
(***************************************************************************)
(* One row of settings, and what the processes believe it to be: each has  *)
(* a cache whose entries live for TTL, filled by lookups that other        *)
(* requests overtake, and emptied in the process that changes the row.     *)
(* (services/platform_settings_service.py, retrieval_settings_service.py,  *)
(* feature_flag_service.py, model_profile_service.py and their routers.)   *)
(*                                                                         *)
(* The four services differ in how they write: "platform" skips a value it *)
(* believes to be there, "retrieval" does not; both commit, then drop the  *)
(* entry.  "flag" drops it in the request and commits when that ends;      *)
(* "profile" drops nothing.                                                *)
(***************************************************************************)
EXTENDS Naturals, FiniteSets

CONSTANTS
  Processes,  \* API replicas, workers
  Values,     \* of the setting; no row is the value of the default
  Writers,    \* requests that change it
  MaxLookups, \* bound on the lookups under way in one process
  TTL         \* _CACHE_TTL_SECONDS, in ticks

CacheAssumption == TTL \in Nat \ {0}

VARIABLES
  service,  \* which of the four
  row,      \* the value in Postgres, and how often it was written
  cache,    \* each process's entry: none, or one that has not expired
  lookup,   \* rows its lookups have read and not stored yet
  writer,   \* each request
  excused   \* history: rows read in this process before its last own write was over

vars == <<service, row, cache, lookup, writer, excused>>

Row == [value: Values, version: Nat]
Entry == [row: Row, age: 0..TTL - 1]
Steps == {"idle", "asked", "flushed", "committed", "done"}
Writer == [step: Steps, at: Processes, value: Values, version: Nat]
\* version: of the row the writer committed, 0 if none

Init ==
  /\ service \in {"platform", "retrieval", "flag", "profile"}
  /\ row = [value |-> CHOOSE v \in Values : TRUE, version |-> 0]
  /\ cache = [p \in Processes |-> {}]
  /\ lookup = [p \in Processes |-> {}]
  /\ writer = [w \in Writers |-> [step |-> "idle", at |-> CHOOSE p \in Processes : TRUE,
                                 value |-> row.value, version |-> 0]]
  /\ excused = [p \in Processes |-> {}]

Served(p) == {e.row : e \in cache[p]}

\* get: a miss reads the row ...
Lookup(p) ==
  /\ cache[p] = {} /\ Cardinality(lookup[p]) < MaxLookups
  /\ lookup' = [lookup EXCEPT ![p] = @ \union {row}]
  /\ UNCHANGED <<service, row, cache, writer, excused>>

\* ... and stores it, whatever happened in between.
Store(p, r) ==
  /\ r \in lookup[p]
  /\ lookup' = [lookup EXCEPT ![p] = @ \ {r}]
  /\ cache' = [cache EXCEPT ![p] = {[row |-> r, age |-> 0]}]
  /\ UNCHANGED <<service, row, writer, excused>>

\* A request to change the setting, in some process.  update_platform_settings looks
\* the value up first, and ends there if it believes it to be the one to write.
Ask(w) ==
  /\ writer[w].step = "idle"
  /\ \E p \in Processes, v \in Values :
       /\ service = "platform" => \E r \in Served(p) : r.value # v
       /\ writer' = [writer EXCEPT ![w] = [@ EXCEPT !.step = "asked", !.at = p, !.value = v]]
  /\ UNCHANGED <<service, row, cache, lookup, excused>>

Dropped(p) == [cache EXCEPT ![p] = {}]

\* toggle and delete of a flag: the row is flushed and the entry dropped.
Flush(w) ==
  /\ service = "flag"
  /\ writer[w].step = "asked"
  /\ \A v \in Writers : writer[v].step # "flushed"     \* the row's lock
  /\ writer' = [writer EXCEPT ![w].step = "flushed"]
  /\ cache' = Dropped(writer[w].at)
  /\ UNCHANGED <<service, row, lookup, excused>>

\* Mutant of DropsAfter: what a process believes is left to expire.
DropsBefore == FALSE

DropsAfter == service \in {"platform", "retrieval"}

Commit(w) ==
  /\ writer[w].step = IF service = "flag" THEN "flushed" ELSE "asked"
  /\ row' = [value |-> writer[w].value, version |-> row.version + 1]
  /\ writer' = [writer EXCEPT ![w].step = IF service = "flag" THEN "done" ELSE "committed",
                              ![w].version = row.version + 1]
  /\ UNCHANGED <<service, cache, lookup, excused>>

\* The entry is dropped, if it is, and the response sent.
Respond(w) ==
  LET p == writer[w].at
  IN /\ writer[w].step = "committed"
     /\ writer' = [writer EXCEPT ![w].step = "done"]
     /\ cache' = IF DropsAfter THEN Dropped(p) ELSE cache
     /\ excused' = [excused EXCEPT ![p] = lookup[p]]
     /\ UNCHANGED <<service, row, lookup>>

\* Mutant of Aged: an entry is good until it is dropped.
AgedForEver(entries) == entries

\* Entries a tick later: what is as old as TTL is not served.
Aged(entries) == {[row |-> e.row, age |-> e.age + 1] : e \in {f \in entries : f.age + 1 < TTL}}

Tick ==
  /\ cache' = [p \in Processes |-> Aged(cache[p])]
  /\ UNCHANGED <<service, row, lookup, writer, excused>>

Write(w) == Flush(w) \/ Commit(w) \/ Respond(w)
Next ==
  \/ Tick
  \/ \E p \in Processes : Lookup(p) \/ \E r \in lookup[p] : Store(p, r)
  \/ \E w \in Writers : Ask(w) \/ Write(w)

Spec == Init /\ [][Next]_vars

\* The clock goes on, requests end, and whoever reads ends reading.
Fairness ==
  /\ WF_vars(Tick)
  /\ \A p \in Processes : WF_vars(\E r \in lookup[p] : Store(p, r))
  /\ \A w \in Writers : WF_vars(Write(w))
FairSpec == Spec /\ Fairness

-----------------------------------------------------------------------------
\* Every variable has its type.
TypeOK ==
  /\ service \in {"platform", "retrieval", "flag", "profile"}
  /\ row \in Row
  /\ \A p \in Processes : cache[p] \subseteq Entry /\ Cardinality(cache[p]) <= 1
  /\ \A p \in Processes : lookup[p] \subseteq Row /\ excused[p] \subseteq Row
  /\ writer \in [Writers -> Writer]

\* Who changed a setting and got the answer is not shown an older value in the same
\* process, unless a lookup had read it before the entry was dropped.  (Not so for
\* flags and profiles.)
ReadsOwnWrite ==
  service \in {"platform", "retrieval"} =>
    \A w \in Writers :
      LET p == writer[w].at
      IN writer[w].step = "done" =>
           \A r \in Served(p) : r.version < writer[w].version => r \in excused[p]

\* "Eventual consistency across replicas": once nobody changes the setting any more,
\* every process comes to serve the value that is in Postgres and to stay with it,
\* however lookups and writes crossed.
Fresh == \A p \in Processes : Served(p) \subseteq {row}
EventuallyFresh == <>[]Fresh
=============================================================================
