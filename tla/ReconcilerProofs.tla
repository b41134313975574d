--------------------------- MODULE ReconcilerProofs ---------------------------
(***************************************************************************)
(* Proofs about Reconciler for all templates, pods, replica counts,        *)
(* partitions, history limits and bounds.                                  *)
(***************************************************************************)
EXTENDS Reconciler, FiniteSetTheorems, TLAPS

-----------------------------------------------------------------------------
(* What CalculateDiffs does, for every number of replicas, every partition *)
(* and all numbers of pods.                                                *)

\* A partition that is set, or NilPartition.
Partitions == Nat \cup {NilPartition}

\* A partition in effect lies between none and all of the replicas.
LEMMA EffectivePartitionRange ==
  ASSUME NEW r \in Nat, NEW p \in Partitions
  PROVE  /\ EffectivePartition(r, p) \in Nat
         /\ EffectivePartition(r, p) <= r
BY DEF Partitions, NilPartition, EffectivePartition, IntMin

\* Creations and deletions are never negative numbers.
LEMMA DiffsType ==
  ASSUME NEW r \in Nat, NEW p \in Partitions, NEW n \in Nat, NEW o \in Nat,
         NEW one \in BOOLEAN
  PROVE  CalculateDiffs(r, p, n, o, one)
           \in [up : Nat, upOld : Nat, down : Nat, downOld : Nat]
<1>1. \A x \in Int : Missing(x) \in Nat /\ Surplus(x) \in Nat
  BY DEF Missing, Surplus, Abs
<1>2. EffectivePartition(r, p) \in Nat
  BY EffectivePartitionRange
<1>3. /\ n - EffectivePartition(r, p) \in Int
      /\ o - (r - EffectivePartition(r, p)) \in Int
      /\ n + o - r \in Int
  BY <1>2
<1>4. CASE one
  BY <1>1, <1>3, <1>4 DEF CalculateDiffs
<1>5. CASE ~one
  BY <1>1, <1>3, <1>5 DEF CalculateDiffs
<1>. QED BY <1>4, <1>5

\* With two revisions, carrying out the differences leaves exactly partition
\* pods of the update revision and the remaining replicas of others.
THEOREM TwoRevisionsReachTarget ==
  ASSUME NEW r \in Nat, NEW p \in Partitions, NEW n \in Nat, NEW o \in Nat
  PROVE  LET d == CalculateDiffs(r, p, n, o, FALSE)
         IN  /\ n + d.up - d.down = EffectivePartition(r, p)
             /\ o + d.upOld - d.downOld = r - EffectivePartition(r, p)
<1>1. EffectivePartition(r, p) \in Nat
  BY EffectivePartitionRange
<1>. QED BY <1>1 DEF CalculateDiffs, Missing, Surplus, Abs

\* With one revision, carrying them out leaves replicas pods.
THEOREM OneRevisionReachesReplicas ==
  ASSUME NEW r \in Nat, NEW p \in Partitions, NEW n \in Nat, NEW o \in Nat
  PROVE  LET d == CalculateDiffs(r, p, n, o, TRUE)
         IN  /\ n + o + d.up - d.down = r
             /\ d.upOld = 0 /\ d.downOld = 0
BY DEF CalculateDiffs, Missing, Surplus, Abs

\* deletePods has enough pods of each group when there are two revisions, or
\* one that every pod carries.
THEOREM DiffsFeasible ==
  ASSUME NEW r \in Nat, NEW p \in Partitions, NEW n \in Nat, NEW o \in Nat,
         NEW one \in BOOLEAN, ~one \/ o = 0
  PROVE  Feasible(CalculateDiffs(r, p, n, o, one), n, o)
<1>1. EffectivePartition(r, p) \in Nat /\ EffectivePartition(r, p) <= r
  BY EffectivePartitionRange
<1>2. CASE one
  BY <1>2 DEF CalculateDiffs, Feasible, Missing, Surplus, Abs
<1>3. CASE ~one
  BY <1>1, <1>3 DEF CalculateDiffs, Feasible, Missing, Surplus, Abs
<1>. QED BY <1>2, <1>3

\* A pass creates at most replicas pods, and all it deletes are more than what
\* is wanted: what it found and makes, less what it deletes, is replicas.
THEOREM DiffsAddUp ==
  ASSUME NEW r \in Nat, NEW p \in Partitions, NEW n \in Nat, NEW o \in Nat,
         NEW one \in BOOLEAN
  PROVE  LET d == CalculateDiffs(r, p, n, o, one)
         IN  /\ d.up + d.upOld <= r
             /\ n + o + d.up + d.upOld - (d.down + d.downOld) = r
<1>1. EffectivePartition(r, p) \in Nat /\ EffectivePartition(r, p) <= r
  BY EffectivePartitionRange
<1>2. CASE one
  BY <1>2 DEF CalculateDiffs, Missing, Surplus, Abs
<1>3. CASE ~one
  BY <1>1, <1>3 DEF CalculateDiffs, Missing, Surplus, Abs
<1>. QED BY <1>2, <1>3

-----------------------------------------------------------------------------
(* The inductive invariant.                                                *)

\* Past getActiveRevisions the pass works for the template of the very version
\* it read, whatever versions have been written since.
WorksForWhatItRead ==
  pc \in {"create", "delete", "status", "truncate"} => upd = Wanted.template

\* Creations use up their part of the plan and leave the deletions' alone.
DeletionsAsPlanned ==
  pc = "create" => /\ plan.down = Diffs(cur, upd).down
                   /\ plan.downOld = Diffs(cur, upd).downOld

\* The status never speaks of a version that the cache, or the pass in progress,
\* has not seen: passes follow each other and caches move forward.
StatusBehindCache ==
  /\ status.observed <= pwCache.gen
  /\ pc # "idle" => status.observed <= inst.gen

IInv == /\ TypeOK /\ WorksForWhatItRead /\ DeletionsAsPlanned
        /\ StatusBehindCache /\ StatusDescribesGeneration

-----------------------------------------------------------------------------
(* Types of the operators.                                                 *)

\* The values that stand for nothing have the types of their variables.
LEMMA ConstantTypes ==
  /\ NoStatus \in WorkloadStatus /\ NoCopy \in Copy
  /\ NoPods \in [Pods -> Revisions] /\ NoRevs \in [Templates -> Nat]
  /\ NoDiffs \in [up : Nat, upOld : Nat, down : Nat, downOld : Nat]
BY DEF NoStatus, WorkloadStatus, NoCopy, Copy, NoPods, NoRevs, NoDiffs, Revisions

\* The API server's copy of the workload is a copy.
LEMMA StoredType == TypeOK => Stored \in Copy
BY DEF TypeOK, ApiTypeOK, Stored, Copy, Gen

\* Groups of pods can be counted.
LEMMA GroupsFinite ==
  ASSUME NEW m, NEW t
  PROVE  /\ Cardinality(Active(m)) \in Nat
         /\ Cardinality(Updated(m, t)) \in Nat
         /\ Cardinality(NotUpdated(m, t)) \in Nat
<1>1. /\ Active(m) \in SUBSET Pods /\ Updated(m, t) \in SUBSET Pods
      /\ NotUpdated(m, t) \in SUBSET Pods
  BY DEF Active, Updated, NotUpdated
<1>2. /\ IsFiniteSet(Active(m)) /\ IsFiniteSet(Updated(m, t))
      /\ IsFiniteSet(NotUpdated(m, t))
  BY <1>1, FS_Subset, PodsAssumption
<1>. QED BY <1>2, FS_CardinalityType

\* Writing a version keeps the earlier ones.
LEMMA SpecsGrow ==
  ASSUME NEW s \in Seq(Version), NEW v \in Version
  PROVE  /\ Append(s, v) \in Seq(Version) /\ Len(Append(s, v)) = Len(s) + 1
         /\ \A i \in 1..Len(s) : Append(s, v)[i] = s[i]
OBVIOUS

\* A pass in progress works for a version users have written.
LEMMA WantedType ==
  ASSUME TypeOK, pc # "idle"
  PROVE  /\ Wanted \in Version /\ Wanted.template \in Templates
         /\ Wanted.replicas \in Nat /\ Wanted.partition \in Partitions
<1>1. inst.gen \in 1..Len(specs) /\ specs \in Seq(Version)
  BY DEF TypeOK, ApiTypeOK, PassTypeOK, Gen
<1>2. Wanted \in Version
  BY <1>1 DEF Wanted
<1>. QED BY <1>2, ReplicasAssumption, PartitionAssumption DEF Version, Partitions

\* The differences a pass computes are natural numbers.
LEMMA DiffsOfPass ==
  ASSUME TypeOK, pc # "idle", NEW c, NEW u
  PROVE  Diffs(c, u) \in [up : Nat, upOld : Nat, down : Nat, downOld : Nat]
<1>1. (c = u) \in BOOLEAN
  OBVIOUS
<1>. QED BY <1>1, WantedType, GroupsFinite, DiffsType DEF Diffs

\* The next revision number is a natural number.
LEMMA NextRevisionType ==
  ASSUME NEW list \in [Templates -> Nat]
  PROVE  NextRevision(list) \subseteq Nat
BY DEF NextRevision, Latest, Listed

\* calculateStatus makes a status.
LEMMA NewStatusType ==
  ASSUME TypeOK, pc # "idle"
  PROVE  NewStatus \in WorkloadStatus
BY GroupsFinite DEF NewStatus, WorkloadStatus, TypeOK, PassTypeOK, Copy, Gen

\* Spending leaves a bound.
LEMMA SpendType ==
  ASSUME TypeOK, NEW act \in Acts, Spend(act)
  PROVE  budget' \in [Acts -> Nat]
BY DEF Spend, TypeOK

\* The locals of a pass that is over.
LEMMA ResetPassType ==
  ASSUME TypeOK, ResetPass
  PROVE  /\ inst' \in Copy /\ inst'.gen = 0 /\ view' \in [Pods -> Revisions]
         /\ revList' \in [Templates -> Nat] /\ cur' \in Revisions
         /\ upd' \in Revisions
         /\ plan' \in [up : Nat, upOld : Nat, down : Nat, downOld : Nat]
         /\ doomed' \subseteq Pods /\ trash' \subseteq Templates
         /\ err' \in BOOLEAN /\ disturbed' \in BOOLEAN
BY ConstantTypes DEF ResetPass, NoCopy, Revisions

\* The invariant holds of a workload that has just been created.
LEMMA InitInvariant == Init => IInv
<1>. SUFFICES ASSUME Init PROVE IInv
  OBVIOUS
<1>1. PICK v \in Versions : specs = <<v>>
  BY DEF Init
<1>2. specs \in Seq(Version) /\ Gen = 1
  BY <1>1 DEF Versions, Gen
<1>3. pwCache \in Copy /\ pwCache.gen = 1
  BY ConstantTypes DEF Init, Copy
<1>4. TypeOK
  <2>1. inst \in Copy /\ inst.gen = 0
    BY ConstantTypes DEF Init, NoCopy
  <2>2. None \in Revisions /\ 1 \in 1..Gen /\ 0 \in 0..Gen
    BY <1>2 DEF Revisions
  <2>3. /\ status \in WorkloadStatus /\ pods \in [Pods -> Revisions]
        /\ revs \in [Templates -> Nat] /\ podCache \in [Pods -> Revisions]
        /\ revCache \in [Templates -> Nat] /\ view \in [Pods -> Revisions]
        /\ revList \in [Templates -> Nat]
        /\ plan \in [up : Nat, upOld : Nat, down : Nat, downOld : Nat]
    BY ConstantTypes DEF Init
  <2>4. /\ queued \in BOOLEAN /\ pc = "idle" /\ cur = None /\ upd = None
        /\ doomed = {} /\ trash = {} /\ err \in BOOLEAN /\ disturbed \in BOOLEAN
    BY DEF Init
  <2>5. budget \in [Acts -> Nat]
    BY BoundsAssumption DEF Init
  <2>. QED BY <1>2, <1>3, <2>1, <2>2, <2>3, <2>4, <2>5
           DEF TypeOK, ApiTypeOK, ProcessTypeOK, PassTypeOK
<1>5. WorksForWhatItRead /\ DeletionsAsPlanned
  BY DEF Init, WorksForWhatItRead, DeletionsAsPlanned
<1>6. StatusBehindCache /\ StatusDescribesGeneration
  BY <1>3 DEF Init, NoStatus, StatusBehindCache, StatusDescribesGeneration
<1>. QED BY <1>4, <1>5, <1>6 DEF IInv

-----------------------------------------------------------------------------
(* Type correctness.                                                       *)

\* Versions are only ever added: every generation keeps its meaning.
LEMMA SpecsOnlyGrow ==
  ASSUME TypeOK, [Next]_vars
  PROVE  /\ specs' \in Seq(Version) /\ Gen <= Gen'
         /\ \A i \in 1..Gen : specs'[i] = specs[i]
<1>. specs \in Seq(Version) /\ Gen \in Nat \ {0} /\ specs[Gen] \in Version
  BY DEF TypeOK, ApiTypeOK, ProcessTypeOK, PassTypeOK, Gen
<1>1. ASSUME NEW v \in Version, specs' = Append(specs, v)
      PROVE  /\ specs' \in Seq(Version) /\ Gen <= Gen'
             /\ \A i \in 1..Gen : specs'[i] = specs[i]
  BY <1>1, SpecsGrow DEF Gen
<1>2. CASE UserUpdate
  BY <1>1, <1>2 DEF UserUpdate, Versions
<1>3. CASE UserDelete
  <2>1. PICK phase \in {"deleting", "gone"} :
             specs' = Append(specs, [specs[Gen] EXCEPT !.phase = phase])
    BY <1>3 DEF UserDelete
  <2>2. [specs[Gen] EXCEPT !.phase = phase] \in Version
    BY DEF Version, Phases
  <2>. QED BY <1>1, <2>1, <2>2
<1>4. CASE CollectWorkload
  <2>1. [specs[Gen] EXCEPT !.phase = "gone"] \in Version
    BY DEF Version, Phases
  <2>. QED BY <1>1, <1>4, <2>1 DEF CollectWorkload
<1>5. CASE UNCHANGED specs
  BY <1>5 DEF Gen
<1>6. CASE CollectPod \/ CollectRevision \/ PodLost \/ Informers \/ Resync
  BY <1>5, <1>6 DEF CollectPod, CollectRevision, PodLost, Informers,
     SyncWorkload, SyncPods, SyncRevisions, Resync, apiVars
<1>7. CASE Pass
  <2>1. CASE ReconcileNotFound \/ StartReconcile \/ ReviseFails \/ CreatePod
             \/ CreateFails \/ AbandonCreates \/ ChooseVictims \/ DeletePod
             \/ DeleteFails \/ StatusFails \/ DeleteRevision \/ TruncateFails
             \/ EndReconcile
    BY <1>5, <2>1 DEF ReconcileNotFound, StartReconcile, ReviseFails, CreatePod,
       CreateFails, AbandonCreates, ChooseVictims, DeletePod, DeleteFails,
       StatusFails, DeleteRevision, TruncateFails, EndReconcile, apiVars
  <2>2. CASE ReuseRevision \/ RollBackRevision \/ CreateRevision
    BY <1>5, <2>2 DEF ReuseRevision, RollBackRevision, CreateRevision, BeginSync
  <2>3. CASE StatusUnchanged \/ CommitStatus
    BY <1>5, <2>3 DEF StatusUnchanged, CommitStatus, BeginTruncate
  <2>. QED BY <1>7, <2>1, <2>2, <2>3 DEF Pass
<1>8. CASE Crash
  BY <1>5, <1>8 DEF Crash, apiVars
<1>9. CASE UNCHANGED vars
  BY <1>5, <1>9 DEF vars, apiVars
<1>. QED BY <1>2, <1>3, <1>4, <1>6, <1>7, <1>8, <1>9 DEF Next, Environment

\* Every step keeps the types, one step of the proof for each action.
LEMMA NextType == TypeOK /\ [Next]_vars => TypeOK'
<1>. SUFFICES ASSUME TypeOK, [Next]_vars PROVE TypeOK'
  OBVIOUS
<1>. DEFINE PlanSet == [up : Nat, upOld : Nat, down : Nat, downOld : Nat]
            Started == {"revise", "create", "delete", "status", "truncate"}
            BudgetOK == budget \in [Acts -> Nat]
<1>. /\ ApiTypeOK /\ ProcessTypeOK /\ PassTypeOK /\ BudgetOK
     /\ specs' \in Seq(Version) /\ Gen > 0 /\ Gen \in Nat /\ Gen' \in Nat /\ Gen <= Gen'
  BY SpecsOnlyGrow DEF TypeOK, ApiTypeOK, Gen
<1>sf. SUFFICES ApiTypeOK' /\ ProcessTypeOK' /\ PassTypeOK' /\ BudgetOK'
  BY DEF TypeOK

\* What an action leaves alone keeps its type.
<1>api. /\ UNCHANGED apiVars => ApiTypeOK'
        /\ status' = status /\ pods' = pods /\ revs' = revs => ApiTypeOK'
        /\ status' = status /\ pods' \in [Pods -> Revisions] /\ revs' = revs => ApiTypeOK'
        /\ status' = status /\ pods' = pods /\ revs' \in [Templates -> Nat] => ApiTypeOK'
        /\ /\ status' \in WorkloadStatus /\ pods' = pods /\ revs' \in [Templates -> Nat]
           => ApiTypeOK'
  BY DEF ApiTypeOK, apiVars
<1>process. UNCHANGED cacheVars /\ queued' \in BOOLEAN => ProcessTypeOK'
  BY DEF ProcessTypeOK, cacheVars
<1>locals. ASSUME UNCHANGED <<inst, view, revList, cur, upd>>,
                  pc' = pc \/ (pc \in Started /\ pc' \in Started),
                  plan' \in PlanSet, doomed' \subseteq Pods, trash' \subseteq Templates,
                  err' \in BOOLEAN, disturbed' \in BOOLEAN
           PROVE  PassTypeOK'
  BY <1>locals DEF PassTypeOK
<1>pass. UNCHANGED <<pc, passVars>> /\ disturbed' \in BOOLEAN => PassTypeOK'
  BY <1>locals DEF PassTypeOK, passVars
<1>reset. ResetPass /\ pc' = "idle" => PassTypeOK'
  BY ResetPassType DEF PassTypeOK
<1>spend. /\ UNCHANGED budget => BudgetOK'
          /\ \A act \in Acts : Spend(act) => BudgetOK'
          /\ {"edits", "deletes", "stale", "errors", "losses", "crashes"} \subseteq Acts
  BY SpendType DEF Acts, Faults
<1>. HIDE DEF BudgetOK

\* What the actions write.
<1>pods. \A p \in Pods : /\ [pods EXCEPT ![p] = None] \in [Pods -> Revisions]
                         /\ \A kind \in {"up", "upOld"} :
                              [pods EXCEPT ![p] = Planned(kind)] \in [Pods -> Revisions]
  BY DEF ApiTypeOK, PassTypeOK, Planned, Revisions
<1>revs. \A n \in Nat, t \in Templates : [revs EXCEPT ![t] = n] \in [Templates -> Nat]
  BY DEF ApiTypeOK
<1>stored. Stored \in Copy /\ Stored.gen = Gen
  BY StoredType DEF Stored
<1>plan. ASSUME NEW kind \in {"up", "upOld"}, plan[kind] > 0
         PROVE  [plan EXCEPT ![kind] = @ - 1] \in PlanSet
  <2>1. CASE kind = "up"
    BY <1>plan, <2>1 DEF PassTypeOK
  <2>2. CASE kind = "upOld"
    BY <1>plan, <2>2 DEF PassTypeOK
  <2>. QED BY <2>1, <2>2
<1>truncate. BeginTruncate /\ pc \in Started => ProcessTypeOK' /\ PassTypeOK' /\ BudgetOK'
  BY <1>process, <1>locals, <1>spend
     DEF BeginTruncate, NonLive, Listed, PassTypeOK, ProcessTypeOK
<1>begin. ASSUME BeginSync(Wanted.template), revs' \in [Templates -> Nat], pc = "revise"
          PROVE  ApiTypeOK' /\ ProcessTypeOK' /\ PassTypeOK' /\ BudgetOK'
  <2>1. Wanted.template \in Revisions /\ CurrentOr(Wanted.template) \in Revisions
    BY <1>begin, WantedType DEF CurrentOr, Listed, Revisions
  <2>2. plan' \in PlanSet
    BY <1>begin, ConstantTypes, DiffsOfPass DEF BeginSync
  <2>3. PassTypeOK'
    BY <1>begin, <2>1, <2>2 DEF BeginSync, PassTypeOK
  <2>. QED BY <1>begin, <2>3, <1>api, <1>process, <1>spend DEF BeginSync, ProcessTypeOK
<1>next. pc = "revise" => NextRevision(revList) \subseteq Nat /\ Wanted.template \in Templates
  BY WantedType, NextRevisionType DEF PassTypeOK
<1>write. ASSUME WriteRevision(Wanted.template), pc = "revise"
          PROVE  revs' \in [Templates -> Nat]
  BY <1>write, <1>next, <1>revs DEF WriteRevision
<1>return. ASSUME ReturnError, UNCHANGED <<specs, pods, cacheVars>>,
                  status' \in WorkloadStatus, revs' \in [Templates -> Nat]
           PROVE  ApiTypeOK' /\ ProcessTypeOK' /\ PassTypeOK'
  BY <1>return, <1>api, <1>process, <1>reset DEF ReturnError

<1>1. CASE UserUpdate
  BY <1>1, <1>api, <1>process, <1>pass, <1>spend
     DEF UserUpdate, ProcessTypeOK, PassTypeOK
<1>2. CASE UserDelete
  BY <1>2, <1>api, <1>process, <1>pass, <1>spend
     DEF UserDelete, ProcessTypeOK, PassTypeOK
<1>3. CASE CollectPod
  BY <1>3, <1>api, <1>process, <1>pass, <1>spend, <1>pods
     DEF CollectPod, Active, ProcessTypeOK
<1>4. CASE CollectRevision
  <2>1. revs' \in [Templates -> Nat]
    BY <1>4, <1>revs DEF CollectRevision, Listed
  <2>. QED BY <1>4, <2>1, <1>api, <1>process, <1>pass, <1>spend
           DEF CollectRevision, ProcessTypeOK, PassTypeOK
<1>5. CASE CollectWorkload
  BY <1>5, <1>api, <1>process, <1>pass, <1>spend
     DEF CollectWorkload, ProcessTypeOK, PassTypeOK
<1>6. CASE PodLost
  BY <1>6, <1>api, <1>process, <1>pass, <1>spend, <1>pods
     DEF PodLost, Active, ProcessTypeOK
<1>7. CASE SyncWorkload
  BY <1>7, <1>api, <1>pass, <1>spend, <1>stored
     DEF SyncWorkload, ProcessTypeOK, PassTypeOK, apiVars
<1>8. CASE SyncPods
  <2>1. ProcessTypeOK'
    BY <1>8 DEF SyncPods, ApiTypeOK, ProcessTypeOK, apiVars, Gen
  <2>. QED BY <1>8, <2>1, <1>api, <1>pass, <1>spend DEF SyncPods, PassTypeOK
<1>9. CASE SyncRevisions
  <2>1. ProcessTypeOK'
    BY <1>9 DEF SyncRevisions, ApiTypeOK, ProcessTypeOK, apiVars, Gen
  <2>. QED BY <1>9, <2>1, <1>api, <1>pass, <1>spend DEF SyncRevisions, PassTypeOK
<1>10. CASE Resync
  BY <1>10, <1>api, <1>process, <1>pass, <1>spend DEF Resync, PassTypeOK
<1>11. CASE ReconcileNotFound
  BY <1>11, <1>api, <1>process, <1>pass, <1>spend DEF ReconcileNotFound, PassTypeOK
<1>12. CASE StartReconcile
  <2>1. /\ inst' \in Copy /\ inst'.gen \in 0..Gen' /\ inst'.gen > 0
        /\ view' \in [Pods -> Revisions] /\ revList' \in [Templates -> Nat]
    BY <1>12 DEF StartReconcile, ProcessTypeOK
  <2>2. /\ UNCHANGED <<cur, upd, plan, doomed, trash>> /\ pc' = "revise"
        /\ err' \in BOOLEAN /\ disturbed' \in BOOLEAN
    BY <1>12 DEF StartReconcile
  <2>3. PassTypeOK'
    BY <2>1, <2>2 DEF PassTypeOK
  <2>. QED BY <1>12, <2>3, <1>api, <1>process, <1>spend DEF StartReconcile
<1>13. CASE ReuseRevision
  BY <1>13, <1>begin DEF ReuseRevision, ApiTypeOK
<1>14. CASE RollBackRevision
  <2>1. revs' \in [Templates -> Nat]
    BY <1>14, <1>write DEF RollBackRevision, ApiTypeOK
  <2>. QED BY <1>14, <2>1, <1>begin DEF RollBackRevision
<1>15. CASE CreateRevision
  <2>1. revs' \in [Templates -> Nat]
    BY <1>15, <1>write DEF CreateRevision, ApiTypeOK
  <2>. QED BY <1>15, <2>1, <1>begin DEF CreateRevision
<1>16. CASE ReviseFails
  <2>1. revs' \in [Templates -> Nat]
    BY <1>16, <1>write DEF ReviseFails, ApiTypeOK
  <2>. QED BY <1>16, <2>1, <1>return, <1>spend DEF ReviseFails, ApiTypeOK
<1>17. CASE CreatePod
  <2>1. plan' \in PlanSet /\ pods' \in [Pods -> Revisions]
    BY <1>17, <1>plan, <1>pods DEF CreatePod, FreePods
  <2>. QED BY <1>17, <2>1, <1>api, <1>process, <1>locals, <1>spend
           DEF CreatePod, ProcessTypeOK, PassTypeOK
<1>18. CASE CreateFails
  <2>1. PICK kind \in {"up", "upOld"} :
             /\ plan[kind] > 0 /\ plan' = [plan EXCEPT ![kind] = @ - 1]
             /\ \/ UNCHANGED pods
                \/ \E p \in FreePods : pods' = [pods EXCEPT ![p] = Planned(kind)]
    BY <1>18 DEF CreateFails
  <2>2. plan' \in PlanSet
    BY <2>1, <1>plan
  <2>3. pods' \in [Pods -> Revisions]
    BY <2>1, <1>pods DEF FreePods, ApiTypeOK
  <2>. QED BY <1>18, <2>2, <2>3, <1>api, <1>process, <1>locals, <1>spend
           DEF CreateFails, ProcessTypeOK, PassTypeOK
<1>19. CASE AbandonCreates
  BY <1>19, <1>api, <1>process, <1>locals, <1>spend
     DEF AbandonCreates, ProcessTypeOK, PassTypeOK, passVars
<1>20. CASE ChooseVictims
  <2>1. doomed' \subseteq Pods
    BY <1>20 DEF ChooseVictims, NotUpdated, Updated, Active, PassTypeOK
  <2>2. pc' \in Started /\ err' \in BOOLEAN
    BY <1>20 DEF ChooseVictims, PassTypeOK
  <2>. QED BY <1>20, <2>1, <2>2, <1>api, <1>process, <1>locals, <1>spend
           DEF ChooseVictims, ProcessTypeOK, PassTypeOK
<1>21. CASE DeletePod
  <2>1. PICK p \in NextVictims :
             /\ pods' = [pods EXCEPT ![p] = None] /\ doomed' = doomed \ {p}
             /\ pc' = IF doomed' = {} THEN "status" ELSE "delete"
    BY <1>21 DEF DeletePod
  <2>2. pods' \in [Pods -> Revisions]
    BY <2>1, <1>pods DEF NextVictims, PassTypeOK
  <2>. QED BY <1>21, <2>1, <2>2, <1>api, <1>process, <1>locals, <1>spend
           DEF DeletePod, ProcessTypeOK, PassTypeOK
<1>22. CASE DeleteFails
  <2>1. pods' \in [Pods -> Revisions]
    BY <1>22, <1>pods DEF DeleteFails, NextVictims, ApiTypeOK, PassTypeOK
  <2>. QED BY <1>22, <2>1, <1>api, <1>process, <1>locals, <1>spend
           DEF DeleteFails, ProcessTypeOK, PassTypeOK
<1>23. CASE StatusUnchanged
  BY <1>23, <1>truncate, <1>api DEF StatusUnchanged, BeginTruncate
<1>24. CASE CommitStatus
  <2>1. ApiTypeOK'
    BY <1>24, NewStatusType DEF CommitStatus, BeginTruncate, ApiTypeOK
  <2>. QED BY <1>24, <2>1, <1>truncate DEF CommitStatus
<1>25. CASE StatusFails
  <2>1. status' \in WorkloadStatus
    BY <1>25, NewStatusType DEF StatusFails, ApiTypeOK
  <2>. QED BY <1>25, <2>1, <1>return, <1>spend DEF StatusFails, ApiTypeOK
<1>26. CASE DeleteRevision
  <2>0. PICK t \in Oldest(revList, trash) :
             revs' = [revs EXCEPT ![t] = 0] /\ trash' = trash \ {t}
    BY <1>26 DEF DeleteRevision
  <2>1. revs' \in [Templates -> Nat] /\ trash' \subseteq Templates
    BY <2>0, <1>revs DEF Oldest, PassTypeOK
  <2>. QED BY <1>26, <2>1, <1>api, <1>process, <1>locals, <1>spend
           DEF DeleteRevision, ProcessTypeOK, PassTypeOK
<1>27. CASE TruncateFails
  <2>1. revs' \in [Templates -> Nat]
    BY <1>27, <1>revs DEF TruncateFails, Oldest, ApiTypeOK, PassTypeOK
  <2>. QED BY <1>27, <2>1, <1>api, <1>process, <1>locals, <1>spend
           DEF TruncateFails, ProcessTypeOK, PassTypeOK
<1>28. CASE EndReconcile
  BY <1>28, <1>api, <1>process, <1>reset, <1>spend
     DEF EndReconcile, Requeued, ProcessTypeOK, PassTypeOK
<1>29. CASE Crash
  <2>1. ProcessTypeOK'
    BY <1>29, <1>stored DEF Crash, apiVars, ApiTypeOK, ProcessTypeOK
  <2>. QED BY <1>29, <2>1, <1>api, <1>reset, <1>spend DEF Crash
<1>30. CASE UNCHANGED vars
  BY <1>30, <1>api, <1>process, <1>pass, <1>spend
     DEF vars, ProcessTypeOK, PassTypeOK
<1>. QED
  BY <1>1, <1>2, <1>3, <1>4, <1>5, <1>6, <1>7, <1>8, <1>9, <1>10, <1>11, <1>12,
     <1>13, <1>14, <1>15, <1>16, <1>17, <1>18, <1>19, <1>20, <1>21, <1>22, <1>23,
     <1>24, <1>25, <1>26, <1>27, <1>28, <1>29, <1>30
     DEF Next, Environment, Informers, Pass

-----------------------------------------------------------------------------
(* Safety.                                                                 *)

\* The version a pass works for does not change under it.
LEMMA WantedStays ==
  ASSUME TypeOK, [Next]_vars, pc # "idle", inst' = inst
  PROVE  Wanted' = Wanted
BY SpecsOnlyGrow DEF Wanted, TypeOK, PassTypeOK, Gen

\* A pass that goes on keeps what it read and what it will delete.
PassGoesOn ==
  /\ UNCHANGED <<inst, view, cur, upd>>
  /\ pc # "idle" /\ pc' # "idle" /\ (pc = "revise" <=> pc' = "revise")
  /\ pc' = "create" =>
       pc = "create" /\ plan'.down = plan.down /\ plan'.downOld = plan.downOld

\* All that a step can do to the pass.
LEMMA PassSteps ==
  ASSUME TypeOK, [Next]_vars
  PROVE  \/ pc' = "idle"
         \/ pc = "idle" /\ pc' = "revise" /\ inst' = pwCache
         \/ pc = "revise" /\ BeginSync(Wanted.template)
         \/ PassGoesOn
<1>1. ASSUME UNCHANGED <<pc, passVars>>
      PROVE  pc' = "idle" \/ PassGoesOn
  BY <1>1 DEF passVars, PassGoesOn
<1>2. ASSUME pc' = pc, UNCHANGED <<inst, view, cur, upd, plan>>
      PROVE  pc' = "idle" \/ PassGoesOn
  BY <1>2 DEF PassGoesOn
<1>3. CASE UserUpdate \/ UserDelete \/ CollectRevision \/ CollectWorkload
  BY <1>1, <1>3 DEF UserUpdate, UserDelete, CollectRevision, CollectWorkload
<1>4. CASE CollectPod \/ PodLost
  BY <1>1, <1>4 DEF CollectPod, PodLost
<1>5. CASE Informers \/ Resync
  BY <1>1, <1>5 DEF Informers, SyncWorkload, SyncPods, SyncRevisions, Resync
<1>6. CASE ReconcileNotFound \/ EndReconcile \/ Crash
  BY <1>6 DEF ReconcileNotFound, EndReconcile, Crash
<1>7. CASE ReviseFails \/ StatusFails
  BY <1>7 DEF ReviseFails, StatusFails, ReturnError
<1>8. CASE StartReconcile
  BY <1>8 DEF StartReconcile
<1>9. CASE ReuseRevision \/ RollBackRevision \/ CreateRevision
  BY <1>9 DEF ReuseRevision, RollBackRevision, CreateRevision
<1>10. CASE CreatePod \/ CreateFails
  <2>1. PICK kind \in {"up", "upOld"} : plan' = [plan EXCEPT ![kind] = @ - 1]
    BY <1>10 DEF CreatePod, CreateFails
  <2>2. plan \in [up : Nat, upOld : Nat, down : Nat, downOld : Nat]
    BY DEF TypeOK, PassTypeOK
  <2>3. CASE kind = "up"
    BY <1>10, <2>1, <2>2, <2>3 DEF CreatePod, CreateFails, PassGoesOn
  <2>4. CASE kind = "upOld"
    BY <1>10, <2>1, <2>2, <2>4 DEF CreatePod, CreateFails, PassGoesOn
  <2>. QED BY <2>3, <2>4
<1>11. CASE AbandonCreates \/ ChooseVictims
  BY <1>11 DEF AbandonCreates, ChooseVictims, PassGoesOn, passVars
<1>12. CASE DeletePod \/ DeleteFails
  BY <1>12 DEF DeletePod, DeleteFails, PassGoesOn
<1>13. CASE StatusUnchanged \/ CommitStatus
  BY <1>13 DEF StatusUnchanged, CommitStatus, BeginTruncate, PassGoesOn
<1>14. CASE DeleteRevision \/ TruncateFails
  BY <1>2, <1>14 DEF DeleteRevision, TruncateFails
<1>15. CASE UNCHANGED vars
  BY <1>1, <1>15 DEF vars
<1>. QED
  BY <1>3, <1>4, <1>5, <1>6, <1>7, <1>8, <1>9, <1>10, <1>11, <1>12, <1>13, <1>14,
     <1>15 DEF Next, Environment, Pass

\* The update revision of a pass stays the template of the version it read.
LEMMA NextWorks ==
  TypeOK /\ WorksForWhatItRead /\ [Next]_vars => WorksForWhatItRead'
<1>. SUFFICES ASSUME TypeOK, WorksForWhatItRead, [Next]_vars
              PROVE  WorksForWhatItRead'
  OBVIOUS
<1>1. CASE pc' \in {"idle", "revise"}
  BY <1>1 DEF WorksForWhatItRead
<1>2. CASE pc = "revise" /\ BeginSync(Wanted.template)
  BY <1>2, WantedStays DEF BeginSync, WorksForWhatItRead
<1>3. CASE PassGoesOn
  BY <1>3, WantedStays DEF PassGoesOn, WorksForWhatItRead, TypeOK, PassTypeOK
<1>. QED BY <1>1, <1>2, <1>3, PassSteps

\* What a pass deletes stays what it computed from the pods it claimed.
LEMMA NextDeletions ==
  TypeOK /\ DeletionsAsPlanned /\ [Next]_vars => DeletionsAsPlanned'
<1>. SUFFICES ASSUME TypeOK, DeletionsAsPlanned, [Next]_vars, pc' = "create"
              PROVE  /\ plan'.down = Diffs(cur, upd)'.down
                     /\ plan'.downOld = Diffs(cur, upd)'.downOld
  BY DEF DeletionsAsPlanned
<1>1. ASSUME pc # "idle", UNCHANGED <<inst, view>>
      PROVE  Diffs(cur, upd)' = Diffs(cur', upd')
  BY <1>1, WantedStays DEF Diffs, Updated, NotUpdated, Active
<1>2. CASE pc = "revise" /\ BeginSync(Wanted.template)
  BY <1>1, <1>2 DEF BeginSync
<1>3. CASE PassGoesOn
  BY <1>1, <1>3 DEF PassGoesOn, DeletionsAsPlanned
<1>. QED BY <1>2, <1>3, PassSteps

\* The pass writes its status, whether or not it learns of it.
StatusWritten == /\ pc = "status" /\ WriteAllowed /\ status' = NewStatus
                 /\ UNCHANGED <<specs, pwCache>>
                 /\ inst' = inst \/ pc' = "idle"

\* The status is written in no other way, and the workload's copy moves forward.
LEMMA StatusSteps ==
  ASSUME TypeOK, [Next]_vars
  PROVE  (StatusWritten \/ status' = status) /\ pwCache.gen <= pwCache'.gen
<1>0. pwCache.gen \in 1..Gen /\ Gen \in Nat
  BY DEF TypeOK, ApiTypeOK, ProcessTypeOK, Gen
<1>1. CASE UserUpdate \/ UserDelete \/ CollectPod \/ CollectRevision
           \/ CollectWorkload \/ PodLost \/ ReuseRevision \/ RollBackRevision
           \/ CreateRevision \/ CreatePod \/ CreateFails \/ DeletePod
           \/ DeleteFails \/ DeleteRevision \/ TruncateFails
  BY <1>0, <1>1 DEF UserUpdate, UserDelete, CollectPod, CollectRevision,
     CollectWorkload, PodLost, ReuseRevision, RollBackRevision, CreateRevision,
     BeginSync, CreatePod, CreateFails, DeletePod, DeleteFails, DeleteRevision,
     TruncateFails, cacheVars
<1>2. CASE SyncPods \/ SyncRevisions \/ Resync \/ ReconcileNotFound
           \/ StartReconcile \/ ReviseFails \/ AbandonCreates \/ ChooseVictims
           \/ EndReconcile \/ UNCHANGED vars
  BY <1>0, <1>2 DEF SyncPods, SyncRevisions, Resync, ReconcileNotFound,
     StartReconcile, ReviseFails, AbandonCreates, ChooseVictims, EndReconcile,
     vars, apiVars, cacheVars
<1>3. CASE SyncWorkload \/ Crash
  BY <1>0, <1>3 DEF SyncWorkload, Crash, Stored, apiVars
<1>4. CASE StatusUnchanged \/ CommitStatus
  BY <1>0, <1>4 DEF StatusUnchanged, CommitStatus, BeginTruncate, StatusWritten, cacheVars
<1>5. CASE StatusFails
  BY <1>0, <1>5 DEF StatusFails, ReturnError, StatusWritten, cacheVars
<1>. QED BY <1>1, <1>2, <1>3, <1>4, <1>5 DEF Next, Environment, Informers, Pass

\* What a write of the status finds: the cache has caught up, so it holds the
\* version the pass works for or a later one.
LEMMA CommitSteps ==
  ASSUME IInv, StatusWritten
  PROVE  /\ status'.observed = inst.gen /\ status'.update = Wanted.template
         /\ inst.gen \in 1..Gen /\ pwCache.gen = Gen
         /\ status.observed <= inst.gen
         /\ specs' = specs /\ pwCache' = pwCache /\ (inst' = inst \/ pc' = "idle")
BY DEF IInv, TypeOK, ApiTypeOK, PassTypeOK, StatusWritten, WriteAllowed, Stored,
       NewStatus, WorksForWhatItRead, StatusBehindCache, Gen

\* Neither the cache nor a pass ever falls behind the stored status.
LEMMA NextStatusBehind == IInv /\ [Next]_vars => StatusBehindCache'
<1>. SUFFICES ASSUME IInv, [Next]_vars PROVE StatusBehindCache'
  OBVIOUS
<1>0. TypeOK /\ TypeOK'
  BY NextType DEF IInv
<1>. /\ pwCache.gen \in Nat /\ inst.gen \in Nat /\ status.observed \in Nat /\ Gen \in Nat
  BY <1>0 DEF TypeOK, ApiTypeOK, ProcessTypeOK, PassTypeOK, Copy, WorkloadStatus, Gen
<1>. pwCache'.gen \in Nat
  BY <1>0 DEF TypeOK, ProcessTypeOK, Copy
<1>1. CASE StatusWritten
  <2>1. /\ status'.observed = inst.gen /\ inst.gen <= pwCache.gen
        /\ pwCache' = pwCache /\ (inst' = inst \/ pc' = "idle")
    BY <1>1, CommitSteps
  <2>. QED BY <2>1 DEF StatusBehindCache
<1>2. CASE status' = status
  <2>1. status'.observed <= pwCache'.gen
    BY <1>0, <1>2, StatusSteps DEF IInv, StatusBehindCache
  <2>2. pc' # "idle" => status'.observed <= inst'.gen
    BY <1>0, <1>2, PassSteps DEF IInv, StatusBehindCache, BeginSync, PassGoesOn
  <2>. QED BY <2>1, <2>2 DEF StatusBehindCache
<1>. QED BY <1>0, <1>1, <1>2, StatusSteps

\* A write keeps update revision and observed generation together, and later
\* versions do not change what earlier generations are.
LEMMA NextStatusDescribes == IInv /\ [Next]_vars => StatusDescribesGeneration'
<1>. SUFFICES ASSUME IInv, [Next]_vars PROVE StatusDescribesGeneration'
  OBVIOUS
<1>. TypeOK /\ status.observed \in Nat /\ Gen \in Nat /\ Gen' \in Nat
  BY NextType DEF IInv, TypeOK, ApiTypeOK, WorkloadStatus, Gen
<1>1. CASE StatusWritten
  BY <1>1, CommitSteps DEF Wanted, StatusDescribesGeneration, Gen
<1>2. CASE status' = status
  BY <1>2, SpecsOnlyGrow DEF IInv, StatusDescribesGeneration
<1>. QED BY <1>1, <1>2, StatusSteps

\* The invariant holds in every state of every behaviour.
LEMMA Invariant == Spec => []IInv
<1>1. IInv /\ [Next]_vars => IInv'
  BY NextType, NextWorks, NextDeletions, NextStatusBehind, NextStatusDescribes DEF IInv
<1>. QED BY <1>1, InitInvariant, PTL DEF Spec

-----------------------------------------------------------------------------
(* What holds of every behaviour.                                          *)

\* Every variable keeps its type, through faults and crashes.
THEOREM TypeCorrect == Spec => []TypeOK
<1>1. IInv => TypeOK
  BY DEF IInv
<1>. QED BY <1>1, Invariant, PTL

\* The update revision of the status is the template of the generation that
\* observedGeneration names, whatever users write while passes run.
THEOREM StatusAlwaysDescribesGeneration == Spec => []StatusDescribesGeneration
<1>1. IInv => StatusDescribesGeneration
  BY DEF IInv
<1>. QED BY <1>1, Invariant, PTL

\* observedGeneration never moves back, although passes read old copies: no copy
\* is older than the one of the pass that wrote the status.
THEOREM ObservedGenerationMonotonic == Spec => ObservedNeverRegresses
<1>1. IInv /\ [Next]_vars => [status'.observed >= status.observed]_vars
  <2>. SUFFICES ASSUME IInv, [Next]_vars PROVE status'.observed >= status.observed
    OBVIOUS
  <2>. TypeOK /\ status.observed \in Nat /\ inst.gen \in Nat
    BY DEF IInv, TypeOK, ApiTypeOK, PassTypeOK, WorkloadStatus, Copy
  <2>. QED BY CommitSteps, StatusSteps
<1>. QED BY <1>1, Invariant, PTL DEF Spec, ObservedNeverRegresses

\* With two revisions, or one that all pods carry, deletePods finds as many
\* pods as it is told to delete: the numbers a pass deletes by are those it
\* computed from the very pods it groups.
THEOREM DeletionsAlwaysFeasible == Spec => []DeletionsFeasible
<1>1. ASSUME IInv PROVE DeletionsFeasible
  <2>. SUFFICES ASSUME pc = "create", cur # upd \/ NotUpdated(view, upd) = {}
                PROVE  Feasible(plan, Cardinality(Updated(view, upd)),
                                Cardinality(NotUpdated(view, upd)))
    BY DEF DeletionsFeasible
  <2>. DEFINE n == Cardinality(Updated(view, upd))
              o == Cardinality(NotUpdated(view, upd))
              one == (cur = upd)
  <2>1. n \in Nat /\ o \in Nat /\ one \in BOOLEAN /\ (~one \/ o = 0)
    BY GroupsFinite, FS_EmptySet
  <2>2. Wanted.replicas \in Nat /\ Wanted.partition \in Partitions
    BY <1>1, WantedType DEF IInv
  <2>3. Feasible(Diffs(cur, upd), n, o)
    BY <2>1, <2>2, DiffsFeasible DEF Diffs
  <2>. QED BY <1>1, <2>3 DEF IInv, DeletionsAsPlanned, Feasible
<1>. QED BY <1>1, Invariant, PTL
=============================================================================
