---------------------------- MODULE HistoryProofs ----------------------------
(***************************************************************************)
(* Proofs about History for all templates, names, hashes, limits and       *)
(* bounds.                                                                 *)
(***************************************************************************)
EXTENDS History, FiniteSetTheorems, TLAPS

-----------------------------------------------------------------------------
(* Types.                                                                  *)

\* Collisions are counted by natural numbers.
LEMMA CountType == MaxCount \in Nat
BY NamesAssumption, FS_CardinalityType DEF MaxCount

\* The values that stand for nothing have the types of their variables.
LEMMA ConstantTypes ==
  /\ NoStatus \in Status /\ Absent \in Workload
  /\ NoRevs \in [RevNames -> Revision \cup {None}]
  /\ None \notin RevNames /\ None \notin Revision
BY CountType, NoneAssumption DEF NoStatus, Status, Absent, Workload, NoRevs

\* A workload that is there has a phase, a uid, a template, a selector and a status.
LEMMA WorkloadType ==
  ASSUME NEW w \in Workload, w.phase # "absent"
  PROVE  w \in Present
BY DEF Workload, Absent

\* Spending leaves a budget.
LEMMA SpendType ==
  ASSUME NEW a \in Acts, budget \in [Acts -> Nat], Spend(a)
  PROVE  budget' \in [Acts -> Nat]
BY DEF Spend

\* The acts are acts.
LEMMA ActNames == {"edits", "deletes", "creates", "stale", "errors"} = Acts
BY DEF Acts

\* Writing a revision, or none, leaves revisions.
LEMMA WriteRevisionType ==
  ASSUME TypeOK, NEW n \in RevNames, NEW new \in Revision \cup {None},
         WriteRevision(n, new)
  PROVE  revs' \in [RevNames -> Revision \cup {None}] /\ outdated' \subseteq RevNames
BY DEF WriteRevision, TypeOK

LEMMA SetRevisionType ==
  ASSUME TypeOK, NEW n \in RevNames, NEW new \in Revision \cup {None}, SetRevision(n, new)
  PROVE  /\ revs' \in [RevNames -> Revision \cup {None}]
         /\ outdated' \subseteq RevNames /\ stale' \subseteq RevNames
BY WriteRevisionType DEF SetRevision, TypeOK

\* What a pass starts with when it ends.
LEMMA ResetType ==
  ASSUME ResetPass
  PROVE  /\ pc' = "idle" /\ inst' \in Workload /\ seen' \subseteq RevNames
         /\ list' \in [RevNames -> Revision \cup {None}]
         /\ cur' \in Active \cup {None} /\ upd' \in Active \cup {None}
         /\ count' \in 0..MaxCount
BY ConstantTypes, CountType DEF ResetPass

\* The numbers after those listed are numbers.
LEMMA NumbersAreNat ==
  ASSUME TypeOK PROVE NextNumbers \subseteq Nat
BY DEF NextNumbers, Last, Listed, Exists, TypeOK, Revision

\* The template of a pass, the next name and a new revision have their types.
LEMMA NewRevisionType ==
  ASSUME TypeOK, pc # "idle"
  PROVE  /\ Wanted \in Templates /\ NextName \in RevNames
         /\ NewRevisions \subseteq Revision
<1>1. Wanted \in Templates /\ inst.uid \in Nat
  BY DEF Wanted, TypeOK, Workload, Present, Absent
<1>2. NextName \in RevNames
  BY <1>1, HashAssumption DEF NextName, TypeOK
<1>3. NewRevisions \subseteq Revision
  BY <1>1, NumbersAreNat DEF NewRevisions, Revision
<1>4. QED BY <1>1, <1>2, <1>3

\* A raised revision is one, and only its number is another.
LEMMA RaiseType ==
  ASSUME TypeOK, NEW n \in RevNames, Raise(n)
  PROVE  \E k \in Nat : /\ WriteRevision(n, [revs[n] EXCEPT !.number = k])
                        /\ [revs[n] EXCEPT !.number = k] \in Revision
                        /\ [revs[n] EXCEPT !.number = k].data = revs[n].data
                        /\ [revs[n] EXCEPT !.number = k].owner = revs[n].owner
<1>1. PICK k \in NextNumbers : WriteRevision(n, [revs[n] EXCEPT !.number = k])
  BY DEF Raise
<1>2. k \in Nat /\ revs[n] \in Revision
  BY NumbersAreNat DEF Raise, TypeOK
<1>3. QED BY <1>1, <1>2 DEF Revision

\* A pass goes on with two revisions.
LEMMA BeginSyncType ==
  ASSUME TypeOK, NEW u \in Active, BeginSync(u)
  PROVE  pc' = "sync" /\ upd' \in Active /\ cur' \in Active
<1>1. CASE inst.status.current \in Listed
  <2>1. list[inst.status.current].data \in Templates
    BY <1>1 DEF Listed, Exists, TypeOK, Revision
  <2>2. QED BY <1>1, <2>1 DEF BeginSync, Listed, Exists, Active
<1>2. CASE inst.status.current \notin Listed
  BY <1>2 DEF BeginSync
<1>3. QED BY <1>1, <1>2 DEF BeginSync

\* A workload gets a status that the pass computes.
LEMMA NewStatusType ==
  ASSUME TypeOK, pc = "status", work.phase # "absent", NEW s \in NewStatuses
  PROVE  [work EXCEPT !.status = s] \in Workload
<1>1. s \in Status
  BY DEF NewStatuses, Status, TypeOK, Active
<1>2. work \in Present
  BY WorkloadType DEF TypeOK
<1>3. QED BY <1>1, <1>2 DEF Workload, Present

\* Types hold at first.
LEMMA InitTypes == Init => TypeOK
<1> SUFFICES ASSUME Init PROVE TypeOK OBVIOUS
<1>1. work \in Workload /\ workCache \in Workload
  BY ConstantTypes DEF Init, Workload, Present, Phases
<1>2. inst \in Workload /\ revs \in [RevNames -> Revision \cup {None}]
      /\ revCache \in [RevNames -> Revision \cup {None}]
      /\ list \in [RevNames -> Revision \cup {None}]
  BY ConstantTypes DEF Init
<1>3. budget \in [Acts -> Nat] /\ count \in 0..MaxCount
  BY BudgetAssumption, CountType DEF Init
<1>4. QED BY <1>1, <1>2, <1>3 DEF Init, TypeOK

\* What users, the garbage collector and the informers do keeps the types.
LEMMA EnvironmentTypes ==
  ASSUME TypeOK, Environment \/ SyncWorkload \/ SyncRevisions
  PROVE  TypeOK'
<1> USE ActNames
<1>1. ASSUME UserEdits PROVE TypeOK'
  <2>1. budget' \in [Acts -> Nat] BY <1>1, SpendType DEF UserEdits, TypeOK
  <2>2. work' \in Workload
    <3>1. PICK t \in Templates, s \in Selectors :
            work' = [work EXCEPT !.template = t, !.selector = s]
      BY <1>1 DEF UserEdits
    <3>2. work \in Present
      BY <1>1, WorkloadType DEF UserEdits, TypeOK
    <3>3. QED BY <3>1, <3>2 DEF Workload, Present
  <2>3. QED BY <1>1, <2>1, <2>2 DEF UserEdits, TypeOK, cacheVars, passVars
<1>2. ASSUME UserDeletes PROVE TypeOK'
  <2>1. budget' \in [Acts -> Nat] BY <1>2, SpendType DEF UserDeletes, TypeOK
  <2>2. work' \in Workload
    BY <1>2 DEF UserDeletes, TypeOK, Workload, Present, Absent, Phases
  <2>3. QED BY <1>2, <2>1, <2>2 DEF UserDeletes, TypeOK, cacheVars, passVars
<1>3. ASSUME UserCreates PROVE TypeOK'
  <2>1. budget' \in [Acts -> Nat] BY <1>3, SpendType DEF UserCreates, TypeOK
  <2>2. work' \in Workload /\ lastUid' \in Nat
    BY <1>3, ConstantTypes DEF UserCreates, TypeOK, Workload, Present, Phases
  <2>3. QED BY <1>3, <2>1, <2>2 DEF UserCreates, TypeOK, cacheVars, passVars
<1>4. ASSUME CollectRevision PROVE TypeOK'
  <2>1. PICK n \in RevNames : SetRevision(n, None)
    BY <1>4 DEF CollectRevision, Exists
  <2>2. QED BY <1>4, <2>1, SetRevisionType DEF CollectRevision, TypeOK, passVars
<1>5. ASSUME CollectPods PROVE TypeOK'
  BY <1>5 DEF CollectPods, TypeOK, cacheVars, passVars
<1>6. ASSUME OrphanRevision PROVE TypeOK'
  <2>1. PICK n \in RevNames : revs[n] # None /\ SetRevision(n, [revs[n] EXCEPT !.owner = 0])
    BY <1>6 DEF OrphanRevision, Exists
  <2>2. [revs[n] EXCEPT !.owner = 0] \in Revision BY <2>1 DEF TypeOK, Revision
  <2>3. QED BY <1>6, <2>1, <2>2, SetRevisionType DEF OrphanRevision, TypeOK, passVars
<1>7. ASSUME EndOrphaning PROVE TypeOK'
  <2>1. pods' \subseteq PodKind
    BY <1>7 DEF EndOrphaning, Orphaned, TypeOK, PodKind
  <2>2. QED BY <1>7, <2>1, ConstantTypes DEF EndOrphaning, TypeOK, cacheVars, passVars
<1>8. ASSUME SyncWorkload PROVE TypeOK'
  BY <1>8 DEF SyncWorkload, TypeOK, apiVars, passVars
<1>9. ASSUME SyncRevisions PROVE TypeOK'
  BY <1>9 DEF SyncRevisions, TypeOK, apiVars, passVars
<1>10. QED
  BY <1>1, <1>2, <1>3, <1>4, <1>5, <1>6, <1>7, <1>8, <1>9 DEF Environment

\* The start of a pass keeps the types.
LEMMA StartTypes ==
  ASSUME TypeOK, StartPass PROVE TypeOK'
<1>1. budget' \in [Acts -> Nat]
  BY SpendType, ActNames DEF StartPass, TypeOK
<1>2. list' \in [RevNames -> Revision \cup {None}]
  BY DEF StartPass, OwnRevisions, TypeOK
<1>3. workCache \in Present
  BY WorkloadType DEF StartPass, TypeOK
<1>4. pods' \subseteq PodKind
  BY <1>3 DEF StartPass, Claimed, TypeOK, Present, PodKind
<1>5. seen' \subseteq RevNames
  BY <1>4 DEF StartPass, PodKind
<1>6. inst' \in Workload /\ inst' # Absent /\ count' \in 0..MaxCount
  BY <1>3 DEF StartPass, TypeOK, Present, Absent, Status, Phases
<1>7. QED BY <1>1, <1>2, <1>4, <1>5, <1>6 DEF StartPass, TypeOK, cacheVars

\* Choosing the revisions keeps the types.
LEMMA NamingTypes ==
  ASSUME TypeOK, Naming PROVE TypeOK'
<1>1. ASSUME ReuseRevision PROVE TypeOK'
  <2>1. PICK n \in RevNames : BeginSync([name |-> n, data |-> Wanted])
    BY <1>1 DEF ReuseRevision, Equal, Listed, Exists
  <2>2. [name |-> n, data |-> Wanted] \in Active
    BY <1>1, NewRevisionType DEF ReuseRevision, Active
  <2>3. QED
    BY <1>1, <2>1, <2>2, BeginSyncType DEF ReuseRevision, TypeOK, apiVars, cacheVars
<1>2. ASSUME RollBackRevision PROVE TypeOK'
  <2>1. PICK n \in RevNames :
          /\ BeginSync([name |-> n, data |-> Wanted])
          /\ (Raise(n) /\ stale' = stale \cup {n}) \/ UnchangedRevs
    BY <1>2 DEF RollBackRevision, Last, Equal, Listed, Exists
  <2>2. [name |-> n, data |-> Wanted] \in Active
    BY <1>2, NewRevisionType DEF RollBackRevision, Active
  <2>3. /\ revs' \in [RevNames -> Revision \cup {None}]
        /\ outdated' \subseteq RevNames /\ stale' \subseteq RevNames
    BY <2>1, RaiseType, WriteRevisionType DEF UnchangedRevs, TypeOK
  <2>4. QED
    BY <1>2, <2>1, <2>2, <2>3, BeginSyncType DEF RollBackRevision, TypeOK
<1>3. ASSUME CreateRevision PROVE TypeOK'
  <2>1. PICK new \in NewRevisions : SetRevision(NextName, new)
    BY <1>3 DEF CreateRevision
  <2>2. /\ NextName \in RevNames /\ new \in Revision
        /\ [name |-> NextName, data |-> Wanted] \in Active
    BY <1>3, NewRevisionType DEF CreateRevision, Active
  <2>3. QED
    BY <1>3, <2>1, <2>2, SetRevisionType, BeginSyncType DEF CreateRevision, TypeOK
<1>4. ASSUME TakeRevision PROVE TypeOK'
  <2>1. [name |-> NextName, data |-> revCache[NextName].data] \in Active
    BY <1>4, NewRevisionType DEF TakeRevision, SameData, Active
  <2>2. QED
    BY <1>4, <2>1, BeginSyncType DEF TakeRevision, TypeOK, apiVars, cacheVars
<1>5. ASSUME Collide PROVE TypeOK'
  <2>1. count' \in 0..MaxCount BY <1>5, CountType DEF Collide, TypeOK
  <2>2. QED BY <1>5, <2>1 DEF Collide, TypeOK, apiVars, cacheVars
<1>6. ASSUME ReviseFails PROVE TypeOK'
  <2>1. /\ revs' \in [RevNames -> Revision \cup {None}]
        /\ outdated' \subseteq RevNames
    <3>1. CASE UNCHANGED <<revs, outdated>> BY <3>1 DEF TypeOK
    <3>2. CASE \E n \in RevNames : Raise(n)
      BY <3>2, RaiseType, WriteRevisionType
    <3>3. CASE \E new \in NewRevisions : WriteRevision(NextName, new)
      BY <1>6, <3>3, NewRevisionType, WriteRevisionType DEF ReviseFails
    <3>4. QED
      BY <1>6, <3>1, <3>2, <3>3 DEF ReviseFails, Last, Equal, Listed, Exists
  <2>2. budget' \in [Acts -> Nat]
    BY <1>6, SpendType, ActNames DEF ReviseFails, TypeOK
  <2>3. QED BY <1>6, <2>1, <2>2, ResetType DEF ReviseFails, TypeOK
<1>7. QED BY <1>1, <1>2, <1>3, <1>4, <1>5, <1>6 DEF Naming

\* The rest of a pass keeps the types.
LEMMA RestTypes ==
  ASSUME TypeOK, Scale \/ WriteStatus \/ SkipStatus \/ StatusFails \/ Truncation
  PROVE  TypeOK'
<1>1. ASSUME Scale PROVE TypeOK'
  <2>1. inst.uid \in Nat BY <1>1 DEF Scale, TypeOK, Workload, Present, Absent
  <2>2. PodOf(cur) \in PodKind /\ PodOf(upd) \in PodKind
    BY <1>1, <2>1 DEF Scale, TypeOK, PodOf, PodKind, Active
  <2>3. pods' \subseteq PodKind BY <1>1, <2>2 DEF Scale, TypeOK
  <2>4. QED BY <1>1, <2>3 DEF Scale, TypeOK, cacheVars
<1>2. ASSUME WriteStatus PROVE TypeOK'
  <2>1. work' \in Workload BY <1>2, NewStatusType DEF WriteStatus
  <2>2. QED BY <1>2, <2>1 DEF WriteStatus, TypeOK, cacheVars
<1>3. ASSUME SkipStatus PROVE TypeOK'
  BY <1>3 DEF SkipStatus, TypeOK, apiVars, cacheVars
<1>4. ASSUME StatusFails PROVE TypeOK'
  <2>1. work' \in Workload BY <1>4, NewStatusType DEF StatusFails, TypeOK
  <2>2. budget' \in [Acts -> Nat]
    BY <1>4, SpendType, ActNames DEF StatusFails, TypeOK
  <2>3. QED BY <1>4, <2>1, <2>2, ResetType DEF StatusFails, TypeOK, cacheVars
<1>5. First(NonLive) \subseteq RevNames
  BY DEF First, NonLive, Listed, Exists
<1>6. ASSUME DeleteRevision PROVE TypeOK'
  <2>1. PICK n \in RevNames : SetRevision(n, None) /\ list' = [list EXCEPT ![n] = None]
    BY <1>5, <1>6 DEF DeleteRevision
  <2>2. list' \in [RevNames -> Revision \cup {None}]
    BY <2>1 DEF TypeOK
  <2>3. QED
    BY <1>6, <2>1, <2>2, SetRevisionType DEF DeleteRevision, TypeOK
<1>7. ASSUME TruncateFails PROVE TypeOK'
  <2>1. PICK n \in RevNames :
          UNCHANGED <<revs, outdated>> \/ WriteRevision(n, None)
    BY <1>5, <1>7 DEF TruncateFails
  <2>2. revs' \in [RevNames -> Revision \cup {None}] /\ outdated' \subseteq RevNames
    BY <2>1, WriteRevisionType DEF TypeOK
  <2>3. budget' \in [Acts -> Nat]
    BY <1>7, SpendType, ActNames DEF TruncateFails, TypeOK
  <2>4. QED BY <1>7, <2>2, <2>3, ResetType DEF TruncateFails, TypeOK
<1>8. ASSUME EndPass PROVE TypeOK'
  BY <1>8, ResetType DEF EndPass, TypeOK, apiVars, cacheVars
<1>9. QED BY <1>1, <1>2, <1>3, <1>4, <1>6, <1>7, <1>8 DEF Truncation

\* Every step keeps the types.
LEMMA TypesStep == TypeOK /\ [Next]_vars => TypeOK'
<1> SUFFICES ASSUME TypeOK, [Next]_vars PROVE TypeOK' OBVIOUS
<1>1. CASE UNCHANGED vars
  BY <1>1 DEF vars, apiVars, cacheVars, passVars, TypeOK
<1>2. QED
  BY <1>1, EnvironmentTypes, StartTypes, NamingTypes, RestTypes DEF Next, Pass

\* Every variable of the model keeps to its type, under every bound.
THEOREM HistoryTypes == Spec => []TypeOK
BY InitTypes, TypesStep, PTL DEF Spec

-----------------------------------------------------------------------------
(* Names. Where a workload is never deleted and passes start on current    *)
(* caches, a name keeps its meaning whatever collides and fails.           *)

\* The bounds of such a history: any number of edits and failed requests.
NobodyDeletesOrLags == \A b \in Budgets : b["stale"] = 0 /\ b["deletes"] = 0

StaysQuiet == budget["stale"] = 0 /\ budget["deletes"] = 0

\* There is one workload, and everything is its own but the pods it has released.
OneWorkload ==
  /\ work.phase = "live" /\ work.uid = 1 /\ Fits(work)
  /\ workCache.phase = "live" /\ workCache.uid = 1 /\ Fits(workCache)
  /\ pc # "idle" => inst.phase = "live" /\ inst.uid = 1 /\ Fits(inst)
  /\ \A n \in Exists(revs) : revs[n].owner = 1
  /\ \A p \in pods : p.owner \in {0, 1}

\* What has not been written since the informer saw it is cached as it is.
CacheFollows == \A n \in RevNames : n \notin outdated => revCache[n] = revs[n]

Matched(n) == revs[n] # None /\ revs[n].data \in inst.selector

\* Until it names its revisions, a pass knows all that is stored and not hidden from
\* the selector it read.
ListIsCurrent ==
  pc = "revise" =>
    /\ revCache = revs /\ outdated = {}
    /\ \A n \in RevNames : list[n] = IF Matched(n) THEN revs[n] ELSE None

\* What it has listed and not deleted is stored.
ListIsStored ==
  pc # "idle" => \A n \in Listed : Matched(n)

\* Where it is when it has named them.
Decided == {"sync", "status", "truncate"}

IsStored(r) == revs[r.name] # None /\ revs[r.name].data = r.data

\* Then both of them are stored.
PassRevisionsStored ==
  pc \in Decided => upd.data = Wanted /\ IsStored(cur) /\ IsStored(upd)

\* The revision of every pod is stored,
PodsStored == \A p \in pods : IsStored(p)

\* and a pass has seen it or works with it, unless it is hidden: it does not
\* truncate it.
PassKnowsPods ==
  \A p \in pods : p.data \in inst.selector =>
    /\ pc = "revise" => p.name \in seen
    /\ pc \in Decided => p.name \in seen \cup {cur.name, upd.name}

\* The current revision of the status is stored, and the pass has it, unless it is
\* hidden.
StatusStored ==
  /\ work.status.current # None => revs[work.status.current] # None
  /\ pc \in {"revise", "sync", "status"} => inst.status = work.status
  /\ pc \in {"sync", "status"} =>
       \/ work.status.current = None \/ ~Matched(work.status.current)
       \/ cur.name = work.status.current
  /\ pc = "truncate" => work.status.current \in {cur.name, upd.name}

\* The inductive invariant.
NInv == /\ TypeOK /\ StaysQuiet /\ OneWorkload /\ CacheFollows
        /\ ListIsCurrent /\ ListIsStored /\ PassRevisionsStored
        /\ PodsStored /\ PassKnowsPods /\ StatusStored /\ OneRevisionPerTemplate

\* It holds at first.
LEMMA InitNames == NobodyDeletesOrLags /\ Init => NInv
<1> SUFFICES ASSUME NobodyDeletesOrLags, Init PROVE NInv OBVIOUS
<1>1. TypeOK BY InitTypes
<1>2. StaysQuiet BY DEF Init, NobodyDeletesOrLags, StaysQuiet
<1>3. Exists(revs) = {} /\ pods = {} BY DEF Init, Exists, NoRevs
<1>4. OneWorkload BY <1>3 DEF Init, OneWorkload, Fits
<1>5. CacheFollows BY DEF Init, CacheFollows
<1>6. ListIsCurrent /\ ListIsStored /\ PassRevisionsStored
  BY DEF Init, ListIsCurrent, ListIsStored, PassRevisionsStored, Decided
<1>7. PodsStored /\ PassKnowsPods BY <1>3 DEF PodsStored, PassKnowsPods
<1>8. StatusStored BY DEF Init, StatusStored, NoStatus
<1>9. OneRevisionPerTemplate BY <1>3 DEF OneRevisionPerTemplate
<1>10. QED
  BY <1>1, <1>2, <1>4, <1>5, <1>6, <1>7, <1>8, <1>9 DEF NInv

\* No step gives anything back that was spent.
LEMMA QuietStep ==
  ASSUME NInv, [Next]_vars PROVE StaysQuiet'
<1>1. ASSUME NEW a \in Acts, Spend(a) PROVE StaysQuiet'
  BY <1>1, ActNames DEF Spend, StaysQuiet, NInv, TypeOK
<1>2. CASE UNCHANGED budget BY <1>2 DEF StaysQuiet, NInv
<1>3. UNCHANGED budget \/ \E a \in Acts : Spend(a)
  <2>1. CASE UNCHANGED vars BY <2>1 DEF vars
  <2>2. CASE Environment
    BY <2>2, ActNames DEF Environment, UserEdits, UserDeletes, UserCreates,
       CollectRevision, CollectPods, OrphanRevision, EndOrphaning
  <2>3. CASE SyncWorkload \/ SyncRevisions \/ StartPass
    BY <2>3, ActNames DEF SyncWorkload, SyncRevisions, StartPass
  <2>4. CASE Naming
    BY <2>4, ActNames DEF Naming, ReuseRevision, RollBackRevision, CreateRevision,
       TakeRevision, Collide, ReviseFails
  <2>5. CASE Scale \/ WriteStatus \/ SkipStatus \/ StatusFails \/ Truncation
    BY <2>5, ActNames DEF Scale, WriteStatus, SkipStatus, StatusFails, Truncation,
       DeleteRevision, TruncateFails, EndPass
  <2>6. QED BY <2>1, <2>2, <2>3, <2>4, <2>5 DEF Next, Pass
<1>4. QED BY <1>1, <1>2, <1>3

\* Users only edit, the garbage collector has nothing to do, and the informers
\* bring what is stored.
LEMMA EnvironmentNames ==
  ASSUME NInv, TypeOK', StaysQuiet', Environment \/ SyncWorkload \/ SyncRevisions
  PROVE  NInv'
<1>1. ASSUME UserEdits PROVE NInv'
  <2>1. work'.phase = "live" /\ work'.uid = 1 /\ work'.status = work.status
    BY <1>1 DEF UserEdits, NInv, OneWorkload, TypeOK, Workload, Present, Absent
  <2>2. OneWorkload'
    BY <1>1, <2>1 DEF UserEdits, NInv, OneWorkload, Exists, Fits, cacheVars, passVars
  <2>3. StatusStored'
    BY <1>1, <2>1 DEF UserEdits, NInv, StatusStored, Matched, passVars
  <2>4. QED
    BY <1>1, <2>2, <2>3 DEF UserEdits, NInv, CacheFollows, ListIsCurrent, ListIsStored,
       Matched, Listed, IsStored, PassRevisionsStored, PodsStored, PassKnowsPods,
       OneRevisionPerTemplate, Exists, Wanted, cacheVars, passVars
<1>2. ~UserDeletes
  BY ActNames DEF UserDeletes, Spend, NInv, StaysQuiet
<1>3. ~UserCreates /\ ~OrphanRevision /\ ~EndOrphaning
  BY DEF UserCreates, OrphanRevision, EndOrphaning, NInv, OneWorkload
<1>4. ~CollectRevision /\ ~CollectPods
  BY DEF CollectRevision, CollectPods, NInv, OneWorkload
<1>5. ASSUME SyncWorkload PROVE NInv'
  <2>1. OneWorkload'
    BY <1>5 DEF SyncWorkload, NInv, OneWorkload, Exists, Fits, apiVars, passVars
  <2>2. QED
    BY <1>5, <2>1 DEF SyncWorkload, NInv, CacheFollows, ListIsCurrent, ListIsStored,
       Matched, Listed, IsStored, PassRevisionsStored, PodsStored, PassKnowsPods,
       OneRevisionPerTemplate, Exists, StatusStored, Wanted, apiVars, passVars
<1>6. ASSUME SyncRevisions PROVE NInv'
  <2>1. OneWorkload'
    BY <1>6 DEF SyncRevisions, NInv, OneWorkload, Exists, Fits, apiVars, passVars
  <2>2. CacheFollows' /\ ListIsCurrent'
    BY <1>6 DEF SyncRevisions, NInv, CacheFollows, ListIsCurrent, Matched, apiVars,
       passVars
  <2>3. QED
    BY <1>6, <2>1, <2>2 DEF SyncRevisions, NInv, ListIsStored, Matched, Listed, IsStored,
       PassRevisionsStored, PodsStored, PassKnowsPods, OneRevisionPerTemplate, Exists,
       StatusStored, Wanted, apiVars, passVars
<1>7. QED BY <1>1, <1>2, <1>3, <1>4, <1>5, <1>6 DEF Environment

\* A pass starts with everything that is stored.
LEMMA StartNames ==
  ASSUME NInv, TypeOK', StaysQuiet', StartPass PROVE NInv'
<1> USE DEF NInv
<1>1. workCache = work /\ outdated = {}
  BY ActNames DEF StartPass, Spend, StaysQuiet, Synced
<1>2. \A p \in pods' : /\ p.owner \in {0, 1}
                       /\ p.data \in workCache.selector => p.name \in seen'
                       /\ \E q \in pods : q.name = p.name /\ q.data = p.data
  <2>1. \A p \in pods : LET c == Claimed(p, workCache)
                       IN /\ c.name = p.name /\ c.data = p.data
                          /\ c.owner = IF p.data \in workCache.selector THEN 1 ELSE 0
    BY DEF Claimed, OneWorkload, TypeOK, PodKind
  <2>2. pods' = {Claimed(p, workCache) : p \in pods}
    BY DEF StartPass, OneWorkload
  <2>3. QED BY <2>1, <2>2 DEF StartPass, OneWorkload
<1>3. revCache = revs
  BY <1>1 DEF CacheFollows, TypeOK
<1>4. OneWorkload'
  <2>1. /\ UNCHANGED <<work, revs, workCache>>
        /\ inst' = workCache
    BY DEF StartPass, cacheVars
  <2>2. \A p \in pods' : p.owner \in {0, 1} BY <1>2
  <2>3. QED BY <2>1, <2>2 DEF OneWorkload, Fits, Exists
<1>5. /\ pc' = "revise" /\ inst' = workCache
      /\ \A n \in RevNames : list'[n] = IF Matched(n)' THEN revs[n] ELSE None
  BY <1>3 DEF StartPass, OwnRevisions, Matched, OneWorkload, Exists
<1>6. CacheFollows' /\ ListIsCurrent'
  BY <1>1, <1>3, <1>5 DEF StartPass, CacheFollows, ListIsCurrent, cacheVars
<1>7. ListIsStored' BY <1>5 DEF ListIsStored, Listed, Exists
<1>8. PassRevisionsStored' BY <1>5 DEF PassRevisionsStored, Decided
<1>9. PodsStored'
  <2>1. UNCHANGED revs BY DEF StartPass
  <2>2. SUFFICES ASSUME NEW p \in pods' PROVE IsStored(p)' BY DEF PodsStored
  <2>3. PICK q \in pods : q.name = p.name /\ q.data = p.data BY <1>2
  <2>4. QED BY <2>1, <2>3 DEF PodsStored, IsStored
<1>10. PassKnowsPods'
  <2>1. \A p \in pods' : p.data \in inst'.selector => p.name \in seen'
    BY <1>2, <1>5
  <2>2. QED BY <1>5, <2>1 DEF PassKnowsPods, Decided
<1>11. StatusStored' BY <1>1 DEF StartPass, StatusStored
<1>12. OneRevisionPerTemplate' BY DEF StartPass, OneRevisionPerTemplate, Exists
<1>13. QED
  BY <1>4, <1>6, <1>7, <1>8, <1>9, <1>10, <1>11, <1>12

\* The revisions are named: the update revision has the template and is stored, and
\* no stored revision changes but in its number.
LEMMA BeginSyncNames ==
  ASSUME NInv, pc = "revise", NEW u, u.data = Wanted, BeginSync(u), IsStored(u)',
         \A n \in Exists(revs) : revs'[n] # None /\ revs'[n].data = revs[n].data,
         UNCHANGED <<work, inst, list, pods, seen>>
  PROVE  /\ ListIsCurrent' /\ ListIsStored' /\ PassRevisionsStored' /\ PodsStored'
         /\ PassKnowsPods' /\ StatusStored'
<1> USE DEF NInv
<1>1. pc' = "sync" /\ upd' = u BY DEF BeginSync
<1>2. \A n \in Listed : /\ Matched(n) /\ Matched(n)' /\ list[n] = revs[n]
                        /\ revs'[n].data = revs[n].data
  BY DEF ListIsCurrent, Listed, Matched, Exists
<1>3. IsStored(cur)'
  <2>1. CASE inst.status.current \in Listed
    BY <1>2, <2>1 DEF BeginSync, IsStored, Matched
  <2>2. CASE inst.status.current \notin Listed
    BY <2>2 DEF BeginSync, IsStored
  <2>3. QED BY <2>1, <2>2
<1>4. PassRevisionsStored'
  BY <1>1, <1>3 DEF PassRevisionsStored, IsStored, Wanted
<1>5. PodsStored'
  BY DEF PodsStored, IsStored, Exists, TypeOK, PodKind
<1>6. PassKnowsPods'
  BY <1>1 DEF PassKnowsPods, Decided
<1>7. StatusStored'
  <2>1. work.status.current \in RevNames \cup {None}
    BY DEF OneWorkload, TypeOK, Workload, Present, Absent, Status
  <2>2. work.status.current # None =>
          /\ revs'[work.status.current] # None
          /\ Matched(work.status.current)' => Matched(work.status.current)
    BY <2>1 DEF StatusStored, Matched, Exists
  <2>3. work.status.current # None /\ Matched(work.status.current)
          => cur'.name = work.status.current
    BY <2>1, ConstantTypes DEF StatusStored, BeginSync, ListIsCurrent, Listed, Exists,
       Matched
  <2>4. QED BY <1>1, <2>2, <2>3 DEF StatusStored
<1>8. ListIsStored' BY <1>2 DEF ListIsStored, Listed, Exists
<1>9. QED BY <1>1, <1>4, <1>5, <1>6, <1>7, <1>8 DEF ListIsCurrent

\* Writing a revision leaves a cache that follows.
LEMMA WriteRevisionFollows ==
  ASSUME TypeOK, CacheFollows, UNCHANGED revCache,
         NEW n \in RevNames, NEW new \in Revision \cup {None}, WriteRevision(n, new)
  PROVE  /\ CacheFollows' /\ revs'[n] = new
         /\ \A m \in RevNames \ {n} : revs'[m] = revs[m]
BY DEF TypeOK, CacheFollows, WriteRevision

\* The end of a pass without a write to the revisions asks for nothing.
LEMMA ResetNames ==
  ASSUME NInv, ResetPass, UNCHANGED <<work, revs, pods>>
  PROVE  /\ ListIsCurrent' /\ ListIsStored' /\ PassRevisionsStored' /\ PodsStored'
         /\ PassKnowsPods' /\ StatusStored' /\ OneRevisionPerTemplate'
BY DEF NInv, ResetPass, ListIsCurrent, ListIsStored, PassRevisionsStored, Decided,
   PodsStored, IsStored, PassKnowsPods, StatusStored, OneRevisionPerTemplate, Exists

\* A raised revision keeps its template and its owner, and all others are kept.
Kept == \A m \in RevNames : /\ (revs'[m] # None <=> revs[m] # None)
                            /\ revs[m] # None => /\ revs'[m].data = revs[m].data
                                                 /\ revs'[m].owner = revs[m].owner

LEMMA RaiseNames ==
  ASSUME TypeOK, CacheFollows, UNCHANGED revCache, NEW n \in RevNames, Raise(n)
  PROVE  CacheFollows' /\ Kept
<1>1. PICK k \in Nat : /\ WriteRevision(n, [revs[n] EXCEPT !.number = k])
                       /\ [revs[n] EXCEPT !.number = k] \in Revision
                       /\ [revs[n] EXCEPT !.number = k].data = revs[n].data
                       /\ [revs[n] EXCEPT !.number = k].owner = revs[n].owner
  BY RaiseType
<1>2. revs[n] # None BY DEF Raise
<1>3. QED BY <1>1, <1>2, WriteRevisionFollows, ConstantTypes DEF Kept

\* A new revision, created where the pass knows none with its template and none of
\* its name, is the only one of the template.
LEMMA CreatedIsOnly ==
  ASSUME NInv, pc = "revise", Equal = {}, revs[NextName] = None, UNCHANGED <<pods, work>>,
         NEW new \in NewRevisions, revs' = [revs EXCEPT ![NextName] = new]
  PROVE  /\ NextName \in RevNames /\ new \in Revision
         /\ revs'[NextName] = new /\ new.data = Wanted /\ new.owner = 1
         /\ \A n \in Exists(revs) : revs'[n] = revs[n]
         /\ \A n \in Exists(revs) : revs[n].data # Wanted
         /\ OneRevisionPerTemplate'
<1> USE DEF NInv
<1>1. NextName \in RevNames /\ new \in Revision BY NewRevisionType
<1>2. new.data = Wanted /\ new.owner = 1
  BY DEF NewRevisions, OneWorkload
<1>3. revs'[NextName] = new /\ \A n \in RevNames \ {NextName} : revs'[n] = revs[n]
  BY <1>1 DEF TypeOK
<1>4. \A n \in Exists(revs) : revs'[n] = revs[n] BY <1>3 DEF Exists
<1>5. \A n \in Exists(revs) : revs[n].data # Wanted
  <2>1. Wanted \in inst.selector BY DEF OneWorkload, Fits, Wanted
  <2>2. QED BY <2>1 DEF Equal, ListIsCurrent, Matched, Listed, Exists
<1>6. OneRevisionPerTemplate'
  BY <1>2, <1>3, <1>5 DEF OneRevisionPerTemplate, Exists
<1>7. QED BY <1>1, <1>2, <1>3, <1>4, <1>5, <1>6

\* Naming the revisions of a pass.
LEMMA NamingNames ==
  ASSUME NInv, TypeOK', StaysQuiet', Naming PROVE NInv'
<1> USE DEF NInv
<1>1. ASSUME ReuseRevision PROVE NInv'
  <2>1. PICK n \in Last(Listed) : n \in Equal /\ BeginSync([name |-> n, data |-> Wanted])
    BY <1>1 DEF ReuseRevision
  <2>2. n \in RevNames /\ revs[n] # None /\ revs[n].data = Wanted
    BY <1>1, <2>1 DEF ReuseRevision, ListIsCurrent, Matched, Equal, Listed, Exists
  <2>3. /\ ListIsCurrent' /\ ListIsStored' /\ PassRevisionsStored' /\ PodsStored'
        /\ PassKnowsPods' /\ StatusStored'
    <3> DEFINE u == [name |-> n, data |-> Wanted]
    <3>1. PICK v : v = u OBVIOUS
    <3>2. v.data = Wanted /\ BeginSync(v) /\ IsStored(v)'
      BY <1>1, <2>1, <2>2, <3>1 DEF ReuseRevision, IsStored, apiVars
    <3>3. QED BY <1>1, <3>2, BeginSyncNames DEF ReuseRevision, apiVars, Exists
  <2>4. OneWorkload' /\ CacheFollows' /\ OneRevisionPerTemplate'
    BY <1>1 DEF ReuseRevision, BeginSync, OneWorkload, Fits, CacheFollows,
       OneRevisionPerTemplate, Exists, apiVars, cacheVars
  <2>5. QED BY <2>3, <2>4
<1>2. ASSUME RollBackRevision PROVE NInv'
  <2>1. PICK n \in Last(Equal) :
          /\ BeginSync([name |-> n, data |-> Wanted])
          /\ (Raise(n) /\ stale' = stale \cup {n}) \/ UnchangedRevs
    BY <1>2 DEF RollBackRevision
  <2>2. n \in RevNames /\ revs[n] # None /\ revs[n].data = Wanted
    BY <1>2, <2>1 DEF RollBackRevision, ListIsCurrent, Matched, Last, Equal, Listed, Exists
  <2>3. CacheFollows' /\ Kept
    <3>1. CASE UnchangedRevs
      BY <1>2, <3>1 DEF UnchangedRevs, CacheFollows, RollBackRevision, Kept
    <3>2. CASE Raise(n)
      BY <1>2, <2>2, <3>2, RaiseNames DEF RollBackRevision
    <3>3. QED BY <2>1, <3>1, <3>2
  <2>4. /\ ListIsCurrent' /\ ListIsStored' /\ PassRevisionsStored' /\ PodsStored'
        /\ PassKnowsPods' /\ StatusStored'
    <3>1. PICK v : v = [name |-> n, data |-> Wanted] OBVIOUS
    <3>2. v.data = Wanted /\ BeginSync(v) /\ IsStored(v)'
      BY <2>1, <2>2, <2>3, <3>1 DEF IsStored, Kept
    <3>3. QED BY <1>2, <2>3, <3>2, BeginSyncNames DEF RollBackRevision, Exists, Kept
  <2>5. OneWorkload' /\ OneRevisionPerTemplate'
    BY <1>2, <2>3 DEF RollBackRevision, OneWorkload, OneRevisionPerTemplate, Exists,
       BeginSync, Fits, Kept
  <2>6. QED BY <2>3, <2>4, <2>5
<1>3. ASSUME CreateRevision PROVE NInv'
  <2>1. PICK new \in NewRevisions : SetRevision(NextName, new)
    BY <1>3 DEF CreateRevision
  <2>2. /\ NextName \in RevNames /\ new \in Revision
        /\ revs'[NextName] = new /\ new.data = Wanted /\ new.owner = 1
        /\ \A n \in Exists(revs) : revs'[n] = revs[n]
        /\ OneRevisionPerTemplate'
    BY <1>3, <2>1, CreatedIsOnly DEF CreateRevision, SetRevision, WriteRevision
  <2>3. /\ ListIsCurrent' /\ ListIsStored' /\ PassRevisionsStored' /\ PodsStored'
        /\ PassKnowsPods' /\ StatusStored'
    <3>1. PICK v : v = [name |-> NextName, data |-> Wanted] OBVIOUS
    <3>2. v.data = Wanted /\ BeginSync(v) /\ IsStored(v)'
      BY <1>3, <2>2, <3>1, ConstantTypes DEF CreateRevision, IsStored
    <3>3. \A n \in Exists(revs) : revs'[n] # None /\ revs'[n].data = revs[n].data
      BY <2>2 DEF Exists
    <3>4. QED BY <1>3, <3>2, <3>3, BeginSyncNames DEF CreateRevision
  <2>4. CacheFollows' /\ \A m \in RevNames \ {NextName} : revs'[m] = revs[m]
    BY <1>3, <2>1, <2>2, WriteRevisionFollows DEF CreateRevision, SetRevision
  <2>5. OneWorkload'
    BY <1>3, <2>2, <2>4 DEF CreateRevision, OneWorkload, Exists, BeginSync, Fits
  <2>6. QED BY <2>2, <2>3, <2>4, <2>5
<1>4. ~TakeRevision
  <2>1. ASSUME TakeRevision PROVE FALSE
    <3>1. revs[NextName] # None /\ revs[NextName].data = Wanted /\ NextName \in RevNames
      BY <2>1, NewRevisionType DEF TakeRevision, SameData, ListIsCurrent
    <3>2. QED
      BY <2>1, <3>1 DEF TakeRevision, ListIsCurrent, Equal, Listed, Exists, Matched,
         OneWorkload, Fits, Wanted
  <2>2. QED BY <2>1
<1>5. ASSUME Collide PROVE NInv'
  BY <1>5 DEF Collide, OneWorkload, Fits, CacheFollows, ListIsCurrent, ListIsStored,
     Matched, Listed, PassRevisionsStored, Decided, PodsStored, IsStored, PassKnowsPods,
     StatusStored, OneRevisionPerTemplate, Exists, apiVars, cacheVars
<1>6. ASSUME ReviseFails PROVE NInv'
  <2>1. pc = "revise" /\ ResetPass /\ UNCHANGED <<work, pods, lastUid, workCache, revCache>>
    BY <1>6 DEF ReviseFails
  <2>2. ListIsCurrent' /\ ListIsStored' /\ PassRevisionsStored' /\ PassKnowsPods'
    BY <2>1 DEF ResetPass, ListIsCurrent, ListIsStored, PassRevisionsStored, PassKnowsPods,
       Decided
  <2>3. work.status.current \in RevNames \cup {None}
    BY DEF OneWorkload, TypeOK, Workload, Present, Absent, Status
  <2>4. CASE UNCHANGED <<revs, outdated>>
    <3>1. OneWorkload' /\ CacheFollows'
      BY <2>1, <2>4 DEF OneWorkload, CacheFollows, Exists, ResetPass, Fits
    <3>2. QED BY <2>1, <2>4, <3>1, ResetNames
  <2>5. CASE \E n \in RevNames : Raise(n)
    <3>1. CacheFollows' /\ Kept BY <2>1, <2>5, RaiseNames
    <3>2. OneWorkload' /\ OneRevisionPerTemplate'
      BY <2>1, <3>1 DEF OneWorkload, OneRevisionPerTemplate, Exists, ResetPass, Fits, Kept
    <3>3. PodsStored' BY <2>1, <3>1 DEF PodsStored, IsStored, Kept, TypeOK, PodKind
    <3>4. StatusStored' BY <2>1, <2>3, <3>1 DEF StatusStored, ResetPass, Kept
    <3>5. QED BY <2>2, <3>1, <3>2, <3>3, <3>4
  <2>6. CASE /\ Equal = {} /\ revs[NextName] = None
             /\ \E new \in NewRevisions : WriteRevision(NextName, new)
    <3>1. PICK new \in NewRevisions : WriteRevision(NextName, new)
      BY <2>6
    <3>2. /\ NextName \in RevNames /\ new \in Revision
          /\ revs'[NextName] = new /\ new.owner = 1
          /\ \A n \in Exists(revs) : revs'[n] = revs[n]
          /\ OneRevisionPerTemplate'
      BY <2>1, <2>6, <3>1, CreatedIsOnly DEF WriteRevision
    <3>3. CacheFollows' /\ \A m \in RevNames \ {NextName} : revs'[m] = revs[m]
      BY <2>1, <3>1, <3>2, WriteRevisionFollows
    <3>4. OneWorkload'
      BY <2>1, <3>2, <3>3 DEF OneWorkload, Exists, ResetPass, Fits
    <3>5. PodsStored'
      BY <2>1, <3>2 DEF PodsStored, IsStored, Exists, TypeOK, PodKind
    <3>6. StatusStored'
      BY <2>1, <2>3, <3>2 DEF StatusStored, Exists, ResetPass
    <3>7. QED BY <2>2, <3>2, <3>3, <3>4, <3>5, <3>6
  <2>7. QED
    BY <1>6, <2>4, <2>5, <2>6 DEF ReviseFails, Last, Equal, Listed, Exists
<1>7. QED BY <1>1, <1>2, <1>3, <1>4, <1>5, <1>6 DEF Naming

\* What a pass does with its revisions.
LEMMA RestNames ==
  ASSUME NInv, TypeOK', StaysQuiet',
         Scale \/ WriteStatus \/ SkipStatus \/ StatusFails \/ Truncation
  PROVE  NInv'
<1> USE DEF NInv
<1>1. ASSUME Scale PROVE NInv'
  <2>1. \A p \in pods' : p \in pods \/ p = PodOf(cur) \/ p = PodOf(upd)
    BY <1>1 DEF Scale
  <2>2. inst.uid = 1 /\ PassRevisionsStored'
    BY <1>1 DEF Scale, OneWorkload, PassRevisionsStored, Decided, IsStored, Wanted
  <2>3. OneWorkload' /\ CacheFollows'
    BY <1>1, <2>1, <2>2 DEF Scale, OneWorkload, Fits, CacheFollows, Exists, PodOf, cacheVars
  <2>4. PodsStored' /\ PassKnowsPods'
    BY <1>1, <2>1 DEF Scale, PodsStored, PassKnowsPods, PassRevisionsStored, IsStored,
       PodOf, Decided
  <2>5. ListIsCurrent' /\ ListIsStored' /\ StatusStored' /\ OneRevisionPerTemplate'
    BY <1>1 DEF Scale, ListIsCurrent, ListIsStored, Matched, Listed, StatusStored,
       OneRevisionPerTemplate, Exists
  <2>6. QED BY <2>2, <2>3, <2>4, <2>5
<1>2. ASSUME NEW s \in NewStatuses, pc = "status", work' = [work EXCEPT !.status = s]
      PROVE  /\ work'.phase = "live" /\ work'.uid = 1 /\ Fits(work)'
             /\ work'.status.current \in {cur.name, upd.name}
             /\ revs[work'.status.current] # None
  <2>1. work'.phase = "live" /\ work'.uid = 1 /\ Fits(work)' /\ work'.status = s
    BY <1>2, WorkloadType DEF OneWorkload, TypeOK, Present, Fits
  <2>2. s.current \in {cur.name, upd.name} BY DEF NewStatuses
  <2>3. QED
    BY <1>2, <2>1, <2>2 DEF PassRevisionsStored, IsStored, Decided
<1>3. ASSUME WriteStatus PROVE NInv'
  <2>1. /\ work'.phase = "live" /\ work'.uid = 1 /\ Fits(work)'
        /\ work'.status.current \in {cur.name, upd.name}
        /\ revs[work'.status.current] # None
    BY <1>2, <1>3 DEF WriteStatus
  <2>2. OneWorkload' /\ StatusStored'
    BY <1>3, <2>1 DEF WriteStatus, OneWorkload, Fits, StatusStored, Exists, cacheVars
  <2>3. QED
    BY <1>3, <2>2 DEF WriteStatus, CacheFollows, ListIsCurrent, ListIsStored, Matched,
       Listed, PassRevisionsStored, Decided, PodsStored, IsStored, PassKnowsPods,
       OneRevisionPerTemplate, Exists, Wanted, cacheVars
<1>4. ASSUME SkipStatus PROVE NInv'
  <2>1. PICK s \in NewStatuses : s.current = inst.status.current
    BY <1>4 DEF SkipStatus
  <2>2. StatusStored'
    BY <1>4, <2>1 DEF SkipStatus, StatusStored, NewStatuses, apiVars
  <2>3. QED
    BY <1>4, <2>2 DEF SkipStatus, OneWorkload, Fits, CacheFollows, ListIsCurrent,
       ListIsStored, Matched, Listed, PassRevisionsStored, Decided, PodsStored, IsStored,
       PassKnowsPods, OneRevisionPerTemplate, Exists, Wanted, apiVars, cacheVars
<1>5. ASSUME StatusFails PROVE NInv'
  <2>1. /\ pc = "status" /\ ResetPass
        /\ UNCHANGED <<revs, pods, lastUid, workCache, revCache, outdated>>
    BY <1>5 DEF StatusFails, cacheVars
  <2>2. /\ work'.phase = "live" /\ work'.uid = 1 /\ Fits(work)'
        /\ work'.status.current # None => revs[work'.status.current] # None
    BY <1>2, <1>5 DEF StatusFails, OneWorkload, Fits, StatusStored
  <2>3. OneWorkload' /\ StatusStored'
    BY <2>1, <2>2 DEF OneWorkload, Fits, StatusStored, ResetPass, Exists
  <2>4. QED
    BY <2>1, <2>3 DEF ResetPass, CacheFollows, ListIsCurrent, ListIsStored,
       PassRevisionsStored, Decided, PodsStored, IsStored, PassKnowsPods,
       OneRevisionPerTemplate, Exists
<1>6. ASSUME NEW n \in First(NonLive), pc = "truncate", WriteRevision(n, None),
             UNCHANGED <<work, pods, revCache>>
      PROVE  /\ n \in RevNames /\ CacheFollows' /\ revs'[n] = None
             /\ \A m \in RevNames \ {n} : revs'[m] = revs[m]
             /\ PodsStored' /\ OneRevisionPerTemplate'
             /\ work.status.current # n /\ n \notin {cur.name, upd.name}
  <2>1. n \in NonLive /\ n \in Listed /\ n \in RevNames
    BY DEF First, NonLive, Listed, Exists
  <2>2. /\ CacheFollows' /\ revs'[n] = None
        /\ \A m \in RevNames \ {n} : revs'[m] = revs[m]
    BY <1>6, <2>1, WriteRevisionFollows
  <2>3. PodsStored'
    <3>1. \A p \in pods : p.name \in RevNames /\ p.name # n
      BY <1>6, <2>1 DEF PassKnowsPods, PodsStored, IsStored, Decided, NonLive,
         ListIsStored, Matched, TypeOK, PodKind
    <3>2. QED BY <1>6, <2>2, <3>1 DEF PodsStored, IsStored
  <2>4. OneRevisionPerTemplate'
    BY <2>1, <2>2 DEF OneRevisionPerTemplate, Exists
  <2>5. work.status.current # n
    BY <1>6, <2>1 DEF StatusStored, NonLive
  <2>6. QED BY <2>1, <2>2, <2>3, <2>4, <2>5 DEF NonLive
<1>7. ASSUME DeleteRevision PROVE NInv'
  <2>1. PICK n \in First(NonLive) :
          SetRevision(n, None) /\ list' = [list EXCEPT ![n] = None]
    BY <1>7 DEF DeleteRevision
  <2>2. /\ n \in RevNames /\ CacheFollows' /\ revs'[n] = None
        /\ \A m \in RevNames \ {n} : revs'[m] = revs[m]
        /\ PodsStored' /\ OneRevisionPerTemplate'
        /\ work.status.current # n /\ n \notin {cur.name, upd.name}
    BY <1>6, <1>7, <2>1 DEF DeleteRevision, SetRevision
  <2>3. OneWorkload'
    BY <1>7, <2>2 DEF DeleteRevision, OneWorkload, Fits, Exists
  <2>4. ListIsCurrent' /\ PassKnowsPods'
    BY <1>7 DEF DeleteRevision, ListIsCurrent, PassKnowsPods, Decided
  <2>5. ListIsStored'
    <3>1. \A m \in Listed' : m \in Listed /\ m # n
      BY <2>1, <2>2 DEF Listed, Exists, TypeOK
    <3>2. QED BY <1>7, <2>2, <3>1 DEF DeleteRevision, ListIsStored, Matched, Listed, Exists
  <2>6. PassRevisionsStored'
    BY <1>7, <2>2 DEF DeleteRevision, PassRevisionsStored, Decided, IsStored, Wanted,
       TypeOK, Active
  <2>7. StatusStored'
    <3>1. work.status.current \in RevNames
      BY <1>7 DEF DeleteRevision, StatusStored, TypeOK, Active
    <3>2. QED BY <1>7, <2>2, <3>1 DEF DeleteRevision, StatusStored
  <2>8. QED BY <2>2, <2>3, <2>4, <2>5, <2>6, <2>7
<1>8. ASSUME pc = "truncate", ResetPass,
             UNCHANGED <<work, pods, lastUid, workCache, revCache>>,
             \/ UNCHANGED <<revs, outdated>>
             \/ \E n \in First(NonLive) : WriteRevision(n, None)
      PROVE  NInv'
  <2>1. CASE UNCHANGED <<revs, outdated>>
    <3>1. OneWorkload' /\ CacheFollows'
      BY <1>8, <2>1 DEF OneWorkload, CacheFollows, Exists, ResetPass, Fits
    <3>2. QED BY <1>8, <2>1, <3>1, ResetNames
  <2>2. CASE \E n \in First(NonLive) : WriteRevision(n, None)
    <3>1. PICK n \in First(NonLive) : WriteRevision(n, None) BY <2>2
    <3>2. /\ n \in RevNames /\ CacheFollows' /\ revs'[n] = None
          /\ \A m \in RevNames \ {n} : revs'[m] = revs[m]
          /\ PodsStored' /\ OneRevisionPerTemplate' /\ work.status.current # n
      BY <1>6, <1>8, <3>1
    <3>3. OneWorkload'
      BY <1>8, <3>2 DEF OneWorkload, Fits, Exists, ResetPass
    <3>4. StatusStored'
      <4>1. work.status.current \in RevNames
        BY <1>8 DEF StatusStored, TypeOK, Active
      <4>2. QED BY <1>8, <3>2, <4>1 DEF StatusStored, ResetPass
    <3>5. ListIsCurrent' /\ ListIsStored' /\ PassRevisionsStored' /\ PassKnowsPods'
      BY <1>8 DEF ResetPass, ListIsCurrent, ListIsStored, PassRevisionsStored,
         PassKnowsPods, Decided
    <3>6. QED BY <3>2, <3>3, <3>4, <3>5
  <2>3. QED BY <1>8, <2>1, <2>2
<1>9. ASSUME TruncateFails \/ EndPass PROVE NInv'
  <2>1. CASE TruncateFails BY <1>8, <2>1 DEF TruncateFails
  <2>2. CASE EndPass BY <1>8, <2>2 DEF EndPass, apiVars, cacheVars
  <2>3. QED BY <1>9, <2>1, <2>2
<1>10. QED BY <1>1, <1>3, <1>4, <1>5, <1>7, <1>9 DEF Truncation

\* Where nobody deletes and nothing lags, the invariant holds.
THEOREM NamesInvariant == NobodyDeletesOrLags /\ Spec => []NInv
<1>1. TypeOK /\ [Next]_vars => TypeOK'
  BY TypesStep
<1>2. NInv /\ [Next]_vars => NInv'
  <2> SUFFICES ASSUME NInv, [Next]_vars PROVE NInv' OBVIOUS
  <2>1. TypeOK' /\ StaysQuiet' BY <1>1, QuietStep DEF NInv
  <2>2. CASE UNCHANGED vars
    BY <2>1, <2>2 DEF vars, apiVars, cacheVars, passVars, NInv, OneWorkload, Fits,
       CacheFollows, ListIsCurrent, ListIsStored, Matched, Listed, PassRevisionsStored,
       Decided, PodsStored, IsStored, PassKnowsPods, StatusStored,
       OneRevisionPerTemplate, Exists, Wanted
  <2>3. QED
    BY <2>1, <2>2, EnvironmentNames, StartNames, NamingNames, RestNames DEF Next, Pass
<1>3. QED BY <1>2, InitNames, PTL DEF Spec

\* Then the name a pass uses for its update revision is that of a stored revision
\* with the template it read, whatever hashes collide and whatever requests fail.
THEOREM UpdateIsAlwaysStored == NobodyDeletesOrLags /\ Spec => []UpdateIsStored
<1>1. NInv => UpdateIsStored
  BY DEF NInv, PassRevisionsStored, IsStored, Decided, UpdateIsStored
<1>2. QED BY <1>1, NamesInvariant, PTL

\* A template never has two revisions.
THEOREM TemplatesHaveOneRevision ==
  NobodyDeletesOrLags /\ Spec => []OneRevisionPerTemplate
<1>1. NInv => OneRevisionPerTemplate BY DEF NInv
<1>2. QED BY <1>1, NamesInvariant, PTL

\* A pod runs the template of the revision it is named after, however often revisions
\* come and go: none gets the name of another one that pods still carry.
THEOREM PodsAlwaysRunTheirRevision ==
  NobodyDeletesOrLags /\ Spec => []PodsRunTheirRevision
<1>1. NInv => PodsRunTheirRevision
  BY DEF NInv, PodsStored, IsStored, PodsRunTheirRevision
<1>2. QED BY <1>1, NamesInvariant, PTL

\* Until a rollout is complete the status goes on to name the same current revision,
\* unless users have hidden that revision from the selector.
THEOREM RestAlwaysKeepsCurrent == NobodyDeletesOrLags /\ Spec => RestKeepsCurrent
<1>1. NInv /\ [Next]_vars =>
        [MidRollout /\ ~Hidden => work'.status.current = work.status.current]_vars
  <2> SUFFICES ASSUME NInv, MidRollout, ~Hidden
               PROVE  work'.status.current = work.status.current
    OBVIOUS
  <2>1. PICK s \in NewStatuses : work' = [work EXCEPT !.status = s]
    BY DEF MidRollout, WriteStatus
  <2>2. work'.status = s
    BY <2>1, WorkloadType DEF MidRollout, WriteStatus, NInv, TypeOK, Present
  <2>3. s.current = cur.name BY DEF MidRollout, NewStatuses
  <2>4. work.status.current # None /\ Matched(work.status.current)
    BY DEF MidRollout, WriteStatus, Hidden, Matched, NInv, StatusStored
  <2>5. QED BY <2>2, <2>3, <2>4 DEF MidRollout, WriteStatus, NInv, StatusStored
<1>2. QED BY <1>1, NamesInvariant, PTL DEF Spec, RestKeepsCurrent

=============================================================================
