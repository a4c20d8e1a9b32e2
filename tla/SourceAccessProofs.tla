------------------------- MODULE SourceAccessProofs -------------------------
(***************************************************************************)
(* Proofs about SourceAccess, for any items, principals and members.  As   *)
(* long as mappings do not change while tasks run, what a task derived is  *)
(* still right when it commits, and so is what a mapping request read:     *)
(* then a document's access is always what its rules give.                 *)
(***************************************************************************)
EXTENDS SourceAccess, TLAPS

\* A mapping request has the collection for itself, and the rules and the access it read
\* are those there are.
RemapAlone ==
  remap.step = "read" => \A i \in Items :
    /\ task[i].step = "idle"
    /\ remap.read[i].rules = item[i].rules /\ remap.read[i].access = item[i].access

\* What a task derived is what the mappings still give.
DerivedIsCurrent ==
  \A i \in Items : task[i].step = "derived" =>
    task[i].access = DeriveAccess(task[i].permissions.readers, mapping, task[i].config)

AInv == TypeOK /\ RemapAlone /\ DerivedIsCurrent /\ AccessFollowsRules

-----------------------------------------------------------------------------
\* Deriving gives an access, and with readers the mapped ones among them.
LEMMA DeriveIsAccess ==
  ASSUME NEW readers \in SUBSET Principals, NEW m \in Mapping, NEW c \in Config
  PROVE  DeriveAccess(readers, m, c) \in Access
<1>1. Grants(readers, m) \in SUBSET Members
  BY DEF Grants, Mapping
<1>2. c.default \in Access
  BY DEF Config
<1>3. [visibility |-> "restricted", allowed |-> Grants(readers, m)] \in Access
  BY <1>1 DEF Access
<1> QED  BY <1>2, <1>3 DEF DeriveAccess

LEMMA DeriveIsRestricted ==
  ASSUME NEW readers \in SUBSET Principals, NEW m \in Mapping, NEW c, readers # {}
  PROVE  DeriveAccess(readers, m, c) =
           [visibility |-> "restricted", allowed |-> Members \intersect {m[p] : p \in readers}]
<1>1. Grants(readers, m) = Members \intersect {m[p] : p \in readers}
  BY AccessAssumption DEF Grants, Mapping
<1> QED  BY <1>1 DEF DeriveAccess

\* The values the initial state and the actions are built from.
LEMMA Defaulted ==
  /\ Open \in Access /\ NoItem \in Item /\ Unknown \in Permissions
  /\ \A c \in Config : IdleTask(c) \in Task
<1>1. Open \in Access /\ Unknown \in Permissions
  BY DEF Open, Access, Unknown, Permissions
<1>2. NoItem \in Item
  BY <1>1, AccessAssumption DEF NoItem, Item
<1>3. \A c \in Config : IdleTask(c) \in Task
  BY <1>1 DEF IdleTask, Task
<1> QED  BY <1>1, <1>2, <1>3

\* At the start nothing is indexed and nobody is at work.
LEMMA InitAInv == ASSUME Init PROVE AInv
<1>1. config \in Config
  BY Defaulted DEF Init, Config
<1>2. mapping \in Mapping
  BY DEF Init, Mapping
<1>3. item \in [Items -> Item] /\ task \in [Items -> Task]
  BY <1>1, Defaulted DEF Init
<1>4. remap \in [step: {"none", "read"}, mapping: Mapping, read: [Items -> Item]]
  BY <1>2, Defaulted DEF Init
<1>5. TypeOK
  BY <1>1, <1>2, <1>3, <1>4 DEF Init, TypeOK
<1>6. RemapAlone /\ DerivedIsCurrent /\ AccessFollowsRules
  BY DEF Init, RemapAlone, DerivedIsCurrent, AccessFollowsRules, NoItem, Unknown, IdleTask
<1> QED  BY <1>5, <1>6 DEF AInv

-----------------------------------------------------------------------------
\* The types, action by action.
LEMMA SourceTypes ==
  ASSUME TypeOK,
         (\E i \in Items : ChangeAcl(i) \/ EditContent(i) \/ RetryDocument(i)) \/ ChangeConfig
  PROVE  TypeOK'
<1>1. ASSUME NEW i \in Items, ChangeAcl(i) PROVE TypeOK'
  BY <1>1 DEF ChangeAcl, TypeOK
<1>2. ASSUME NEW i \in Items, EditContent(i) PROVE TypeOK'
  <2>1. item[i] \in Item /\ task[i] \in Task
    BY DEF TypeOK
  <2>2. item' \in [Items -> Item]
    BY <1>2, <2>1 DEF EditContent, TypeOK, Item
  <2>3. (task[i].current /\ task[i].step = "idle") \in BOOLEAN
    OBVIOUS
  <2>4. task' \in [Items -> Task]
    BY <1>2, <2>1, <2>3 DEF EditContent, TypeOK, Task
  <2> QED  BY <1>2, <2>2, <2>4 DEF EditContent, TypeOK
<1>3. ASSUME ChangeConfig PROVE TypeOK'
  <2>1. PICK m \in {"sync_external", "source_default"}, d \in Defaults :
          config' = [mode |-> m, default |-> d]
    BY <1>3 DEF ChangeConfig
  <2>2. d \in Access
    BY DEF Defaults, Open, Access
  <2>3. config' \in Config
    BY <2>1, <2>2 DEF Config
  <2> QED  BY <1>3, <2>3 DEF ChangeConfig, TypeOK
<1>4. ASSUME NEW i \in Items, RetryDocument(i) PROVE TypeOK'
  <2>1. item[i] \in Item /\ 0 \in 0..MaxFailures
    BY AccessAssumption DEF TypeOK
  <2>2. item' \in [Items -> Item]
    BY <1>4, <2>1 DEF RetryDocument, TypeOK, Item
  <2> QED  BY <1>4, <2>2 DEF RetryDocument, TypeOK
<1> QED  BY <1>1, <1>2, <1>3, <1>4

\* What a task reads has its type, when the source answers and when it does not.
LEMMA ReadTypes ==
  ASSUME TypeOK, NEW i \in Items, NEW permissions \in Permissions, ReadsPermissions(i, permissions)
  PROVE  TypeOK'
<1>1. Work(i) \in {"permissions", "again", "content"}
  BY DEF Work
<1>2. [step |-> "read", work |-> Work(i), current |-> TRUE, config |-> config,
       permissions |-> permissions, access |-> Open] \in Task
  BY <1>1, Defaulted, Zenon DEF Task, TypeOK
<1>3. task' \in [Items -> Task]
  BY <1>2 DEF ReadsPermissions, TypeOK
<1> QED  BY <1>3 DEF ReadsPermissions, TypeOK

LEMMA ReadsAreTyped ==
  ASSUME TypeOK, NEW i \in Items, ReadSucceeds(i) \/ ReadFails(i)
  PROVE  \E permissions \in Permissions : ReadsPermissions(i, permissions)
<1>1. [known |-> TRUE, readers |-> acl[i]] \in Permissions
  BY DEF TypeOK, Permissions
<1> QED  BY <1>1, Defaulted DEF ReadSucceeds, ReadFails

LEMMA TaskTypes == ASSUME TypeOK, NEW i \in Items, TaskStep(i) PROVE TypeOK'
<1>1. task[i] \in Task /\ item[i] \in Item /\ task[i].config \in Config
  BY DEF TypeOK, Task
<1>2. IdleTask(task[i].config) \in Task
  BY <1>1, Defaulted
<1>3. ASSUME NothingToDo(i) PROVE TypeOK'
  BY <1>2, <1>3 DEF NothingToDo, TypeOK
<1>4. ASSUME Derive(i) PROVE TypeOK'
  <2>1. DeriveAccess(task[i].permissions.readers, mapping, task[i].config) \in Access
    BY <1>1, DeriveIsAccess DEF TypeOK, Task, Permissions
  <2>2. task' \in [Items -> Task]
    BY <1>1, <1>4, <2>1 DEF Derive, TypeOK, Task
  <2> QED  BY <1>4, <2>2 DEF Derive, TypeOK
<1>5. ASSUME Commit(i) PROVE TypeOK'
  <2> DEFINE t == task[i]
             failures == IF t.work = "permissions" THEN item[i].failures ELSE 0
             rules == Rules(i, IF t.work = "content" THEN {} ELSE item[i].rules)
             access == IF t.work = "again" THEN item[i].access ELSE t.access
             new == [indexed |-> TRUE, failed |-> FALSE, current |-> t.current,
                     failures |-> failures, hash |-> t.permissions, rules |-> rules,
                     access |-> access, kept |-> t.work = "again"]
  <2>1. rules \in SUBSET Principals
    BY <1>1 DEF Rules, Task, Permissions, Item
  <2>2. access \in Access
    BY <1>1 DEF Task, Item
  <2>3. t.permissions \in Permissions /\ t.current \in BOOLEAN
    BY <1>1 DEF Task
  <2>4. failures \in 0..MaxFailures
    BY <1>1, AccessAssumption DEF Item
  <2>5. (t.work = "again") \in BOOLEAN
    OBVIOUS
  <2>6. new \in Item
    <3> HIDE DEF failures, rules, access
    <3> QED  BY <2>1, <2>2, <2>3, <2>4, <2>5, Zenon DEF Item
  <2>7. item' = [item EXCEPT ![i] = new]
    BY <1>5 DEF Commit
  <2>8. item' \in [Items -> Item]
    <3> HIDE DEF new
    <3> QED  BY <2>6, <2>7 DEF TypeOK
  <2>9. task' \in [Items -> Task] /\ dirty' \subseteq Items
    BY <1>2, <1>5 DEF Commit, TypeOK
  <2> QED  BY <1>5, <2>8, <2>9 DEF Commit, TypeOK
<1>6. ASSUME Fails(i) PROVE TypeOK'
  <2>1. (IF item[i].failures < MaxFailures THEN item[i].failures + 1 ELSE item[i].failures)
          \in 0..MaxFailures
    BY <1>1, AccessAssumption DEF Item
  <2>2. task[i].current \in BOOLEAN
    BY <1>1 DEF Task
  <2>3. item' \in [Items -> Item]
    BY <1>1, <1>6, <2>1, <2>2 DEF Fails, TypeOK, Item
  <2> QED  BY <1>2, <1>6, <2>3 DEF Fails, TypeOK
<1> QED  BY <1>3, <1>4, <1>5, <1>6 DEF TaskStep

LEMMA RemapTypes ==
  ASSUME TypeOK,
         (\E p \in Principals, m \in Members \union {Nobody} : RemapReads(p, m)) \/ RemapCommits
  PROVE  TypeOK'
<1>1. ASSUME NEW p \in Principals, NEW m \in Members \union {Nobody}, RemapReads(p, m) PROVE TypeOK'
  <2>1. [mapping EXCEPT ![p] = m] \in Mapping
    BY DEF TypeOK, Mapping
  <2> QED  BY <1>1, <2>1 DEF RemapReads, TypeOK
<1>2. ASSUME RemapCommits PROVE TypeOK'
  <2>1. remap.mapping \in Mapping /\ remap.read \in [Items -> Item]
    BY DEF TypeOK
  <2>2. ASSUME NEW i \in Items PROVE Remapped(i) \in Access
    <3>1. remap.read[i].rules \in SUBSET Principals /\ item[i].access \in Access
      BY <2>1 DEF TypeOK, Item
    <3>2. DeriveAccess(remap.read[i].rules, remap.mapping, config) \in Access
      BY <2>1, <3>1, DeriveIsAccess DEF TypeOK
    <3> QED  BY <3>1, <3>2 DEF Remapped
  <2>3. ASSUME NEW i \in Items
        PROVE  [item[i] EXCEPT !.access = Remapped(i),
                               !.kept = @ /\ remap.read[i].rules = {}] \in Item
    <3>1. item[i] \in Item /\ Remapped(i) \in Access
      BY <2>2 DEF TypeOK
    <3>2. (item[i].kept /\ remap.read[i].rules = {}) \in BOOLEAN
      OBVIOUS
    <3> QED  BY <3>1, <3>2, Zenon DEF Item
  <2>4. item' \in [Items -> Item]
    BY <1>2, <2>3 DEF RemapCommits
  <2>5. remap' \in [step: {"none", "read"}, mapping: Mapping, read: [Items -> Item]]
    BY <1>2, <2>1, Defaulted DEF RemapCommits
  <2> QED  BY <1>2, <2>1, <2>4, <2>5 DEF RemapCommits, TypeOK
<1> QED  BY <1>1, <1>2

LEMMA NextTypes == ASSUME TypeOK, [Next]_vars PROVE TypeOK'
<1>1. ASSUME UNCHANGED vars PROVE TypeOK'
  BY <1>1 DEF vars, TypeOK
<1>2. ASSUME NEW i \in Items, ReadSucceeds(i) \/ ReadFails(i) PROVE TypeOK'
  BY <1>2, ReadTypes, ReadsAreTyped
<1> QED  BY <1>1, <1>2, SourceTypes, TaskTypes, RemapTypes DEF Next

-----------------------------------------------------------------------------
\* The rest of the invariant.  The source's own changes touch nothing it is about.
LEMMA SourceKeeps ==
  ASSUME AInv, UNCHANGED <<mapping, remap>>,
         \A i \in Items :
           /\ item'[i].hash = item[i].hash /\ item'[i].rules = item[i].rules
           /\ item'[i].access = item[i].access /\ item'[i].kept = item[i].kept
           /\ task'[i].step = task[i].step /\ task'[i].access = task[i].access
           /\ task'[i].permissions = task[i].permissions /\ task'[i].config = task[i].config
  PROVE  RemapAlone' /\ DerivedIsCurrent' /\ AccessFollowsRules'
BY DEF AInv, RemapAlone, DerivedIsCurrent, AccessFollowsRules

\* New content, or a retry, changes what the source has and the record's counts only.
LEMMA RecordKeeps ==
  ASSUME AInv, NEW i \in Items, EditContent(i) \/ RetryDocument(i)
  PROVE  RemapAlone' /\ DerivedIsCurrent' /\ AccessFollowsRules'
<1>1. item[i] \in Item /\ task[i] \in Task
  BY DEF AInv, TypeOK
<1>2. ASSUME NEW j \in Items
      PROVE  /\ item'[j].hash = item[j].hash /\ item'[j].rules = item[j].rules
             /\ item'[j].access = item[j].access /\ item'[j].kept = item[j].kept
  <2>1. CASE EditContent(i)
    BY <1>1, <2>1 DEF EditContent, AInv, TypeOK, Item
  <2>2. CASE RetryDocument(i)
    BY <1>1, <2>2 DEF RetryDocument, AInv, TypeOK, Item
  <2> QED  BY <2>1, <2>2
<1>3. ASSUME NEW j \in Items
      PROVE  /\ task'[j].step = task[j].step /\ task'[j].access = task[j].access
             /\ task'[j].permissions = task[j].permissions /\ task'[j].config = task[j].config
  BY <1>1 DEF EditContent, RetryDocument, AInv, TypeOK, Task
<1> QED  BY <1>2, <1>3, SourceKeeps DEF EditContent, RetryDocument

\* A task starts only while there is no mapping request.
LEMMA ReadKeeps ==
  ASSUME AInv, "race" \notin Env, NEW i \in Items, NEW permissions, ReadsPermissions(i, permissions)
  PROVE  RemapAlone' /\ DerivedIsCurrent' /\ AccessFollowsRules'
<1>1. RemapAlone'
  BY DEF ReadsPermissions, Quiet, RemapAlone
<1>2. DerivedIsCurrent'
  BY DEF AInv, TypeOK, ReadsPermissions, DerivedIsCurrent
<1>3. AccessFollowsRules'
  BY DEF AInv, ReadsPermissions, AccessFollowsRules
<1> QED  BY <1>1, <1>2, <1>3

\* A task that is at work has no mapping request beside it.
LEMMA TaskAlone ==
  ASSUME AInv, NEW i \in Items, task[i].step # "idle"
  PROVE  remap.step # "read"
BY DEF AInv, RemapAlone

LEMMA TaskKeeps ==
  ASSUME AInv, NEW i \in Items, TaskStep(i)
  PROVE  RemapAlone' /\ DerivedIsCurrent' /\ AccessFollowsRules'
<1>1. task[i].step # "idle" /\ UNCHANGED <<mapping, remap>>
  BY DEF TaskStep, NothingToDo, Derive, Commit, Fails
<1>2. RemapAlone'
  BY <1>1, TaskAlone DEF RemapAlone
<1>3. task[i].config \in Config /\ task[i].permissions.readers \in SUBSET Principals
  BY DEF AInv, TypeOK, Task, Permissions
<1>4. DerivedIsCurrent'
  <2>1. CASE task' = [task EXCEPT ![i] = IdleTask(task[i].config)]
    <3>1. task'[i].step = "idle" /\ \A j \in Items \ {i} : task'[j] = task[j]
      BY <2>1 DEF AInv, TypeOK, IdleTask
    <3> QED  BY <1>1, <3>1 DEF AInv, DerivedIsCurrent
  <2>2. CASE Derive(i)
    <3>1. \A j \in Items \ {i} : task'[j] = task[j]
      BY <2>2 DEF Derive, AInv, TypeOK
    <3>2. task'[i].access = DeriveAccess(task[i].permissions.readers, mapping, task[i].config)
          /\ task'[i].permissions = task[i].permissions /\ task'[i].config = task[i].config
      BY <2>2 DEF Derive, AInv, TypeOK, Task
    <3> QED  BY <1>1, <3>1, <3>2 DEF AInv, DerivedIsCurrent
  <2> QED  BY <2>1, <2>2 DEF TaskStep, NothingToDo, Commit, Fails
<1>5. AccessFollowsRules'
  <2>1. CASE UNCHANGED item
    BY <1>1, <2>1 DEF AInv, AccessFollowsRules
  <2>2. CASE Fails(i)
    <3>1. \A j \in Items : /\ item'[j].hash = item[j].hash /\ item'[j].rules = item[j].rules
                           /\ item'[j].access = item[j].access /\ item'[j].kept = item[j].kept
      BY <2>2 DEF Fails, AInv, TypeOK, Item
    <3> QED  BY <1>1, <3>1 DEF AInv, AccessFollowsRules
  <2>3. CASE Commit(i)
    <3>1. \A j \in Items \ {i} : item'[j] = item[j]
      BY <2>3 DEF Commit, AInv, TypeOK
    <3>2. /\ item'[i].hash = task[i].permissions
          /\ item'[i].hash.known => item'[i].rules = task[i].permissions.readers
          /\ item'[i].kept \/ item'[i].access = task[i].access
      BY <2>3 DEF Commit, Rules, AInv, TypeOK
    <3>3. task[i].access = DeriveAccess(task[i].permissions.readers, mapping, task[i].config)
      BY <2>3 DEF Commit, AInv, DerivedIsCurrent
    <3>4. task[i].permissions.readers # {} =>
            task[i].access = [visibility |-> "restricted",
              allowed |-> Members \intersect {mapping[p] : p \in task[i].permissions.readers}]
      BY <1>3, <3>3, DeriveIsRestricted DEF AInv, TypeOK
    <3> QED  BY <1>1, <3>1, <3>2, <3>4 DEF AInv, AccessFollowsRules
  <2> QED  BY <2>1, <2>2, <2>3 DEF TaskStep, NothingToDo, Derive
<1> QED  BY <1>2, <1>4, <1>5

\* A mapping request re-derives exactly the documents that have rules.
LEMMA RemapReadKeeps ==
  ASSUME AInv, "race" \notin Env, NEW p \in Principals, NEW m, RemapReads(p, m)
  PROVE  RemapAlone' /\ DerivedIsCurrent' /\ AccessFollowsRules'
<1>1. RemapAlone'
  BY DEF RemapReads, RemapAlone
<1>2. DerivedIsCurrent' /\ AccessFollowsRules'
  BY DEF AInv, RemapReads, DerivedIsCurrent, AccessFollowsRules
<1> QED  BY <1>1, <1>2

LEMMA RemapCommitKeeps ==
  ASSUME AInv, RemapCommits
  PROVE  RemapAlone' /\ DerivedIsCurrent' /\ AccessFollowsRules'
<1>1. \A i \in Items : task[i].step = "idle" /\ remap.read[i].rules = item[i].rules
                       /\ remap.read[i].access = item[i].access
  BY DEF AInv, RemapCommits, RemapAlone
<1>2. remap'.step = "none" /\ UNCHANGED task
  BY DEF RemapCommits
<1>3. AccessFollowsRules'
  <2> SUFFICES ASSUME NEW i \in Items, item'[i].hash.known, item'[i].hash.readers # {}
               PROVE  /\ item'[i].rules = item'[i].hash.readers
                      /\ item'[i].access = [visibility |-> "restricted",
                           allowed |-> Members \intersect {mapping'[p] : p \in item'[i].rules}]
    BY DEF AccessFollowsRules
  <2>1. /\ item'[i].hash = item[i].hash /\ item'[i].rules = item[i].rules
        /\ item'[i].access = Remapped(i)
    <3>1. item[i] \in Item
      BY DEF AInv, TypeOK
    <3> DEFINE access == Remapped(i)
               kept == item[i].kept /\ remap.read[i].rules = {}
    <3>2. item'[i] = [item[i] EXCEPT !.access = access, !.kept = kept]
      BY Zenon DEF RemapCommits
    <3> HIDE DEF access, kept
    <3>3. item'[i].hash = item[i].hash /\ item'[i].rules = item[i].rules /\ item'[i].access = access
      BY <3>1, <3>2 DEF Item
    <3> QED  BY <3>3 DEF access
  <2>2. item[i].rules = item[i].hash.readers /\ item[i].rules # {}
    BY <2>1 DEF AInv, AccessFollowsRules
  <2>3. Remapped(i) = DeriveAccess(item[i].rules, remap.mapping, config)
    BY <1>1, <2>2 DEF Remapped
  <2>4. item[i].rules \in SUBSET Principals /\ remap.mapping \in Mapping
    BY DEF AInv, TypeOK, Item
  <2>5. mapping' = remap.mapping
    BY DEF RemapCommits
  <2>6. Remapped(i) = [visibility |-> "restricted",
                       allowed |-> Members \intersect {remap.mapping[p] : p \in item[i].rules}]
    BY <2>2, <2>3, <2>4, DeriveIsRestricted
  <2> QED  BY <2>1, <2>2, <2>5, <2>6
<1> QED  BY <1>1, <1>2, <1>3 DEF RemapAlone, DerivedIsCurrent

LEMMA NextAInv == ASSUME AInv, "race" \notin Env, [Next]_vars PROVE AInv'
<1>1. TypeOK'
  BY NextTypes DEF AInv
<1>2. RemapAlone' /\ DerivedIsCurrent' /\ AccessFollowsRules'
  <2>1. ASSUME UNCHANGED <<mapping, item, task, remap>>
        PROVE  RemapAlone' /\ DerivedIsCurrent' /\ AccessFollowsRules'
    BY <2>1, SourceKeeps
  <2>2. ASSUME NEW i \in Items, ReadSucceeds(i) \/ ReadFails(i)
        PROVE  RemapAlone' /\ DerivedIsCurrent' /\ AccessFollowsRules'
    BY <2>2, ReadsAreTyped, ReadKeeps DEF AInv
  <2> QED
    BY <2>1, <2>2, RecordKeeps, TaskKeeps, RemapReadKeeps, RemapCommitKeeps
       DEF Next, ChangeAcl, ChangeConfig, vars
<1> QED  BY <1>1, <1>2 DEF AInv

-----------------------------------------------------------------------------
\* TypeOK holds in every state.
THEOREM TypeCorrect == Spec => []TypeOK
<1>1. Init => TypeOK
  BY InitAInv DEF AInv
<1> QED  BY <1>1, NextTypes, PTL DEF Spec

\* AccessFollowsRules: as long as no mapping changes while tasks run, a document whose
\* fingerprint is of known readers has just these as its rules, and the access they give
\* under the present mappings, unless it was kept (a failed item that was ingested again
\* with the content it had).
THEOREM AccessIsDerived == ASSUME "race" \notin Env PROVE Spec => []AccessFollowsRules
<1>1. AInv => AccessFollowsRules
  BY DEF AInv
<1> QED  BY <1>1, InitAInv, NextAInv, PTL DEF Spec
=============================================================================
