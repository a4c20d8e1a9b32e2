---------------------------- MODULE SourceAccess ----------------------------
(***************************************************************************)
(* Who may read the documents of a knowledge source: the permissions the   *)
(* source states, the rules and the fingerprint kept of them, the          *)
(* administrator's identity mappings, and the access derived from all      *)
(* this and written to the document.  (connectors/access.py, the           *)
(* permission steps of SyncEngine._process_one, the mapping handlers and   *)
(* update_source of the knowledge source router.)                          *)
(*                                                                         *)
(* A task of a sync run reads the permissions from the source, later reads *)
(* the mappings, and commits later still.  A mapping request writes its    *)
(* mapping, re-derives every document that has rules, and commits.         *)
(* Neither locks what it reads.                                            *)
(***************************************************************************)
EXTENDS Naturals, FiniteSets

CONSTANTS
  Items,        \* items of the source, each with one current document
  Principals,   \* the source's users and groups
  Members,      \* internal users and roles
  Nobody,       \* no mapping
  MaxFailures,  \* MAX_DOC_FAILURES (5 in the code)
  Env           \* which events may happen: a subset of Events

\* unreadable: the source refuses to tell the permissions; failed: a task raises
\* race: mappings change while tasks run; mode: the source's settings change
\* content: an item gets new content; retry: an administrator retries a document
Events == {"unreadable", "failed", "race", "mode", "content", "retry"}

ASSUME AccessAssumption ==
  /\ Nobody \notin Members
  /\ IsFiniteSet(Items)
  /\ MaxFailures \in Nat \ {0}
  /\ Env \subseteq Events

VARIABLES
  acl,       \* the readers each item states; {}: it states no restriction
  config,    \* permission_mode and default access of the source
  mapping,   \* IdentityMapping rows, as committed
  item,      \* ExternalDocumentRecord and document of each item, as committed
  dirty,     \* items whose content changed since they were ingested
  task,      \* each item's _process_one
  remap      \* the mapping request under way

vars == <<acl, config, mapping, item, dirty, task, remap>>

\* What was learnt of an item's permissions; unknown is None.
Permissions == [known: BOOLEAN, readers: SUBSET Principals]
Unknown == [known |-> FALSE, readers |-> {}]
Access == [visibility: {"tenant", "restricted"}, allowed: SUBSET Members]
Config == [mode: {"sync_external", "source_default"}, default: Access]
Mapping == [Principals -> Members \union {Nobody}]
\* hash: permissions_hash, the fingerprint of what was applied last
\* rules: the document's DocumentAccessRule rows
\* current: the version on record is the one the source states
\* kept: history, the document kept its access though the fingerprint moved on
Item == [indexed: BOOLEAN, failed: BOOLEAN, failures: 0..MaxFailures, current: BOOLEAN,
         hash: Permissions, rules: SUBSET Principals, access: Access, kept: BOOLEAN]
\* work: the permissions only, the content it has once more (after a failure), or new
\* content; current: the version listed still is the one the source states
Task == [step: {"idle", "read", "derived"}, work: {"permissions", "again", "content"},
         current: BOOLEAN, config: Config, permissions: Permissions, access: Access]

Open == [visibility |-> "tenant", allowed |-> {}]
NoItem == [indexed |-> FALSE, failed |-> FALSE, failures |-> 0, current |-> FALSE,
           hash |-> Unknown, rules |-> {}, access |-> Open, kept |-> FALSE]
Defaults == {Open, [visibility |-> "restricted", allowed |-> {}]}
IdleTask(c) == [step |-> "idle", work |-> "permissions", current |-> TRUE, config |-> c,
                permissions |-> Unknown, access |-> Open]

Init ==
  /\ acl = [i \in Items |-> {}]
  /\ config = [mode |-> "sync_external", default |-> Open]
  /\ mapping = [p \in Principals |-> Nobody]
  /\ item = [i \in Items |-> NoItem]
  /\ dirty = {}
  /\ task = [i \in Items |-> IdleTask(config)]
  /\ remap = [step |-> "none", mapping |-> mapping, read |-> [i \in Items |-> NoItem]]

-----------------------------------------------------------------------------
(* The source and its settings.                                            *)

ChangeAcl(i) ==
  /\ \E readers \in SUBSET Principals \ {acl[i]} : acl' = [acl EXCEPT ![i] = readers]
  /\ UNCHANGED <<config, mapping, item, dirty, task, remap>>

\* The content of an item, and with it its version.
EditContent(i) ==
  /\ "content" \in Env
  /\ item[i].current \/ (task[i].step # "idle" /\ task[i].current)
  /\ dirty' = dirty \union {i}
  /\ item' = [item EXCEPT ![i].current = FALSE]
  /\ task' = [task EXCEPT ![i].current = @ /\ task[i].step = "idle"]
  /\ UNCHANGED <<acl, config, mapping, remap>>

\* update_source: documents are left as they are.
ChangeConfig ==
  /\ "mode" \in Env
  /\ \E m \in {"sync_external", "source_default"}, d \in Defaults :
       config' = [mode |-> m, default |-> d]
  /\ config' # config
  /\ UNCHANGED <<acl, mapping, item, dirty, task, remap>>

-----------------------------------------------------------------------------
(* derive_access.                                                          *)

\* Mutant of Grants: a principal without a mapping is granted too.
GrantsUnmapped(readers, m) == {m[p] : p \in readers}

\* A principal without a mapping grants nothing.
Grants(readers, m) == {m[p] : p \in readers} \ {Nobody}

\* Explicit readers restrict the document to the mapped ones; otherwise (unknown, or
\* no restriction) the source's default applies.
DeriveAccess(readers, m, c) ==
  IF readers = {} THEN c.default
  ELSE [visibility |-> "restricted", allowed |-> Grants(readers, m)]

-----------------------------------------------------------------------------
(* _process_one, as far as permissions go.                                 *)

Quiet == remap.step = "none" \/ "race" \in Env

\* An item that failed MAX_DOC_FAILURES times is skipped until its version changes.
Quarantined(i) == item[i].failed /\ item[i].failures = MaxFailures /\ item[i].current

Work(i) ==
  CASE ~item[i].indexed \/ i \in dirty -> "content"
    [] item[i].failed /\ item[i].indexed /\ i \notin dirty -> "again"
    [] OTHER -> "permissions"

\* The item is listed, its record read, and _permissions called (by _sync_permissions,
\* or after the fetch of an item to ingest); the settings are the run's snapshot.
ReadsPermissions(i, permissions) ==
  /\ task[i].step = "idle" /\ Quiet
  /\ ~Quarantined(i)
  /\ task' = [task EXCEPT ![i] =
       [step |-> "read", work |-> Work(i), current |-> TRUE, config |-> config,
        permissions |-> permissions, access |-> Open]]
  /\ UNCHANGED <<acl, config, mapping, item, dirty, remap>>

ReadSucceeds(i) ==
  ReadsPermissions(i, IF config.mode = "sync_external" THEN [known |-> TRUE, readers |-> acl[i]]
                      ELSE Unknown)

\* ConnectorHttpError: None, as if the source could not tell.
ReadFails(i) ==
  "unreadable" \in Env /\ config.mode = "sync_external" /\ ReadsPermissions(i, Unknown)

\* Mutant of UpToDate: only whether the permissions are known is compared.
SameKind(i) == item[i].hash.known = task[i].permissions.known

\* The fingerprints are equal.
UpToDate(i) == item[i].hash = task[i].permissions

\* _sync_permissions returns early: nothing changed.
NothingToDo(i) ==
  /\ task[i].step = "read" /\ task[i].work = "permissions"
  /\ UpToDate(i)
  /\ task' = [task EXCEPT ![i] = IdleTask(task[i].config)]
  /\ UNCHANGED <<acl, config, mapping, item, dirty, remap>>

\* _access, with the mappings committed now.
Derive(i) ==
  /\ task[i].step = "read"
  /\ task[i].work # "permissions" \/ ~UpToDate(i)
  /\ task' = [task EXCEPT ![i].step = "derived",
        ![i].access = DeriveAccess(task[i].permissions.readers, mapping, task[i].config)]
  /\ UNCHANGED <<acl, config, mapping, item, dirty, remap>>

\* Mutant of Rules: rules are stored with new content only.
RulesIfIngested(i, rows) ==
  IF task[i].work = "content" /\ task[i].permissions.known THEN task[i].permissions.readers ELSE rows

\* replace_rules, unless the permissions are unknown: then the document's rows stay.
Rules(i, rows) == IF task[i].permissions.known THEN task[i].permissions.readers ELSE rows

\* _sync_permissions and _process_one's ingestion.  A new document has no rows; an
\* item with the content its document has (after a failed attempt) gets none, and
\* that document keeps the access it has.
Commit(i) ==
  /\ task[i].step = "derived"
  /\ LET t == task[i]
     IN /\ item' = [item EXCEPT ![i] =
             [indexed |-> TRUE, failed |-> FALSE, current |-> t.current,
              failures |-> IF t.work = "permissions" THEN item[i].failures ELSE 0,
              hash |-> t.permissions,
              rules |-> Rules(i, IF t.work = "content" THEN {} ELSE item[i].rules),
              access |-> IF t.work = "again" THEN item[i].access ELSE t.access,
              kept |-> t.work = "again"]]
        /\ dirty' = IF t.work = "content" /\ t.current THEN dirty \ {i} ELSE dirty
  /\ task' = [task EXCEPT ![i] = IdleTask(task[i].config)]
  /\ UNCHANGED <<acl, config, mapping, remap>>

\* The task raises and _record_failure marks the record, be the item unchanged;
\* failures are counted up to the bound only, which is all that is ever compared.
Fails(i) ==
  /\ "failed" \in Env
  /\ task[i].step \in {"read", "derived"}
  /\ item' = [item EXCEPT ![i].failed = TRUE, ![i].current = task[i].current,
                          ![i].failures = IF @ < MaxFailures THEN @ + 1 ELSE @]
  /\ task' = [task EXCEPT ![i] = IdleTask(task[i].config)]
  /\ UNCHANGED <<acl, config, mapping, dirty, remap>>

\* retry_document: the failures and the version on record are forgotten.
RetryDocument(i) ==
  /\ "retry" \in Env
  /\ item[i].indexed \/ item[i].failed
  /\ item' = [item EXCEPT ![i].failures = 0, ![i].current = FALSE]
  /\ UNCHANGED <<acl, config, mapping, dirty, task, remap>>

-----------------------------------------------------------------------------
(* upsert_mapping, delete_mapping, and remap_access.                       *)

\* The mapping is written and the documents read, in one transaction.
RemapReads(p, member) ==
  /\ remap.step = "none"
  /\ mapping[p] # member
  /\ "race" \in Env \/ \A i \in Items : task[i].step = "idle"
  /\ remap' = [step |-> "read", mapping |-> [mapping EXCEPT ![p] = member], read |-> item]
  /\ UNCHANGED <<acl, config, mapping, item, dirty, task>>

\* Mutant of Remapped: an item whose principals are all unmapped is passed over.
RemappedIfGranted(i) ==
  LET rules == remap.read[i].rules
      access == DeriveAccess(rules, remap.mapping, config)
  IN IF Grants(rules, remap.mapping) = {} \/ access = remap.read[i].access
       THEN item[i].access ELSE access

\* Only documents with rules are re-derived, from the rules that were read; only what
\* differs from the access that was read is written.
Remapped(i) ==
  LET rules == remap.read[i].rules
      access == DeriveAccess(rules, remap.mapping, config)
  IN IF rules = {} \/ access = remap.read[i].access THEN item[i].access ELSE access

RemapCommits ==
  /\ remap.step = "read"
  /\ mapping' = remap.mapping
  /\ item' = [i \in Items |-> [item[i] EXCEPT !.access = Remapped(i),
                                             !.kept = @ /\ remap.read[i].rules = {}]]
  /\ remap' = [step |-> "none", mapping |-> mapping', read |-> [i \in Items |-> NoItem]]
  /\ UNCHANGED <<acl, config, dirty, task>>

-----------------------------------------------------------------------------
TaskStep(i) == NothingToDo(i) \/ Derive(i) \/ Commit(i) \/ Fails(i)

Next ==
  \/ \E i \in Items : \/ ChangeAcl(i) \/ EditContent(i) \/ RetryDocument(i)
                      \/ ReadSucceeds(i) \/ ReadFails(i) \/ TaskStep(i)
  \/ ChangeConfig
  \/ \E p \in Principals, m \in Members \union {Nobody} : RemapReads(p, m)
  \/ RemapCommits

Spec == Init /\ [][Next]_vars

\* A source is synced again and again, a task that started ends, and now and then the
\* source answers and a task it answered does not raise; a mapping request ends.
Fairness ==
  /\ \A i \in Items :
       /\ WF_vars(TaskStep(i)) /\ SF_vars(ReadSucceeds(i))
       /\ SF_vars(task[i].permissions.known /\ Derive(i))
       /\ SF_vars(task[i].permissions.known /\ Commit(i))
  /\ WF_vars(RemapCommits)
FairSpec == Spec /\ Fairness

-----------------------------------------------------------------------------
(* Properties.                                                             *)

\* Every variable has its type.
TypeOK ==
  /\ acl \in [Items -> SUBSET Principals]
  /\ config \in Config
  /\ mapping \in Mapping
  /\ item \in [Items -> Item]
  /\ dirty \subseteq Items
  /\ task \in [Items -> Task]
  /\ remap \in [step: {"none", "read"}, mapping: Mapping, read: [Items -> Item]]

\* The access of a document whose item states its readers is what the kept rules give
\* under the present mappings, whatever order permissions, mappings, settings and
\* content change in, and the rules are those the fingerprint was taken of; except
\* where a failed item was ingested again with the content it had.
AccessFollowsRules ==
  \A i \in Items : item[i].hash.known /\ item[i].hash.readers # {} =>
    /\ item[i].rules = item[i].hash.readers
    /\ item[i].kept \/ item[i].access =
         [visibility |-> "restricted", allowed |-> Members \intersect {mapping[p] : p \in item[i].rules}]

\* "Fail closed: an item with explicit permissions is restricted" (access.py): so is a
\* document that has rules, as long as the source's settings follow permissions.
\* False with "unreadable" in Env, or "mode".
ExplicitIsRestricted ==
  \A i \in Items : config.mode = "sync_external" /\ item[i].rules # {}
                     => item[i].access.visibility = "restricted"

\* A change of an item's readers arrives in the fingerprint, the rules and the access of
\* its document, unless they change again or the settings do, also when reads and tasks
\* fail for a while: "Permission changes without a content change: update the ACL only"
\* (_sync_permissions).  Except for an item that is quarantined, whose permissions are
\* not looked at, and for the access of a document that is kept (AccessFollowsRules).
Arrived(i, readers) ==
  /\ item[i].hash = [known |-> TRUE, readers |-> readers]
  /\ item[i].rules = readers
  /\ \/ item[i].kept
     \/ readers = {} /\ item[i].access \in Defaults
     \/ readers # {} /\ item[i].access.visibility = "restricted"
AclArrives ==
  \A i \in Items : \A readers \in SUBSET Principals :
    (acl[i] = readers /\ config.mode = "sync_external") ~>
      \/ acl[i] # readers \/ config.mode # "sync_external"
      \/ Quarantined(i) \/ Arrived(i, readers)
=============================================================================
