-------------------------- MODULE AvailabilityProofs --------------------------
(***************************************************************************)
(* Proofs about the number of pods while a pass of Reconciler runs, for    *)
(* all templates, pods, replica counts, partitions and bounds.             *)
(***************************************************************************)
EXTENDS ReconcilerProofs

\* Pods the pass found, pods there are.
Found == Cardinality(Active(view))
There == Cardinality(Active(pods))

\* A pass creates pods of revisions that exist.
RevisionsChosen ==
  pc \in {"create", "delete", "status", "truncate"} => cur \in Templates

\* Until its first write the pass knows the pods.
KnowsPods == pc = "revise" => pods = view

\* Creations leave alone what was found, and each of them uses up its part of the
\* plan; without a failure each of them makes one pod.
CreationsCount ==
  pc = "create" =>
    LET d == Diffs(cur, upd)
    IN /\ Active(view) \subseteq Active(pods)
       /\ There + plan.up + plan.upOld <= Found + d.up + d.upOld
       /\ ~err => There + plan.up + plan.upOld = Found + d.up + d.upOld

\* The victims are there, and without them there are replicas pods at least.
DeletionsCount ==
  pc = "delete" => /\ doomed \subseteq Active(pods)
                   /\ There >= Wanted.replicas + Cardinality(doomed)
                   /\ There <= Found + Wanted.replicas

\* What the pass leaves behind.
ResultCount ==
  pc = "status" /\ Wanted.phase = "live" =>
    /\ There >= IntMin(Wanted.replicas, Found)
    /\ There <= Found + Wanted.replicas

Counts == KnowsPods /\ CreationsCount /\ DeletionsCount /\ ResultCount

CountInv == IInv /\ RevisionsChosen /\ (~disturbed => Counts)

-----------------------------------------------------------------------------
(* Counting.                                                               *)

\* Every set of pods is finite and can be counted.
LEMMA ActiveCount ==
  /\ IsFiniteSet(Active(pods)) /\ Found \in Nat /\ There \in Nat
  /\ \A S \in SUBSET Pods : IsFiniteSet(S) /\ Cardinality(S) \in Nat
<1>1. Active(pods) \in SUBSET Pods
  BY DEF Active
<1>2. \A S \in SUBSET Pods : IsFiniteSet(S) /\ Cardinality(S) \in Nat
  BY FS_Subset, FS_CardinalityType, PodsAssumption
<1>. QED BY <1>1, <1>2, GroupsFinite DEF Found, There

\* A pod where there was none is one pod more.
LEMMA PodMade ==
  ASSUME TypeOK, NEW p \in Pods, pods[p] = None, NEW t, t # None,
         pods' = [pods EXCEPT ![p] = t]
  PROVE  Active(pods') = Active(pods) \cup {p} /\ There' = There + 1
<1>1. Active(pods') = Active(pods) \cup {p} /\ p \notin Active(pods)
  BY DEF Active, TypeOK, ApiTypeOK
<1>. QED BY <1>1, ActiveCount, FS_AddElement DEF There

\* An active pod that goes is one pod less.
LEMMA PodDeleted ==
  ASSUME TypeOK, NEW p \in Active(pods), pods' = [pods EXCEPT ![p] = None]
  PROVE  Active(pods') = Active(pods) \ {p} /\ There' = There - 1
<1>1. Active(pods') = Active(pods) \ {p}
  BY DEF Active, TypeOK, ApiTypeOK
<1>. QED BY <1>1, ActiveCount, FS_RemoveElement DEF There

\* The pods a pass found are those of the update revision and the others.
LEMMA GroupsAddUp ==
  ASSUME NEW t
  PROVE  Found = Cardinality(Updated(view, t)) + Cardinality(NotUpdated(view, t))
<1>1. /\ Updated(view, t) \cup NotUpdated(view, t) = Active(view)
      /\ Updated(view, t) \cap NotUpdated(view, t) = {}
      /\ Updated(view, t) \in SUBSET Pods /\ NotUpdated(view, t) \in SUBSET Pods
  BY DEF Updated, NotUpdated, Active
<1>2. Cardinality({}) = 0
  BY FS_EmptySet
<1>3. /\ IsFiniteSet(Updated(view, t)) /\ IsFiniteSet(NotUpdated(view, t))
      /\ Cardinality(Updated(view, t)) \in Nat /\ Cardinality(NotUpdated(view, t)) \in Nat
  BY <1>1, ActiveCount
<1>4. Cardinality(Active(view)) = Cardinality(Updated(view, t))
        + Cardinality(NotUpdated(view, t)) - Cardinality({})
  BY <1>1, <1>3, FS_Union
<1>. QED BY <1>2, <1>3, <1>4 DEF Found

\* What a pass computes: at most replicas creations, and replicas pods at the end.
LEMMA DiffsBalance ==
  ASSUME TypeOK, pc # "idle", NEW c, NEW u
  PROVE  LET d == Diffs(c, u)
         IN  /\ d.up \in Nat /\ d.upOld \in Nat /\ d.down \in Nat /\ d.downOld \in Nat
             /\ d.up + d.upOld <= Wanted.replicas
             /\ Found + d.up + d.upOld = Wanted.replicas + d.down + d.downOld
<1>. DEFINE d == Diffs(c, u)
            n == Cardinality(Updated(view, u))
            o == Cardinality(NotUpdated(view, u))
<1>1. /\ n \in Nat /\ o \in Nat /\ (c = u) \in BOOLEAN
      /\ Wanted.replicas \in Nat /\ Wanted.partition \in Partitions
  BY GroupsFinite, WantedType
<1>2. d = CalculateDiffs(Wanted.replicas, Wanted.partition, n, o, c = u)
  BY DEF Diffs
<1>3. /\ d.up + d.upOld <= Wanted.replicas
      /\ n + o + d.up + d.upOld - (d.down + d.downOld) = Wanted.replicas
  <2>. HIDE DEF d, n, o
  <2>1. \A one \in BOOLEAN :
          LET e == CalculateDiffs(Wanted.replicas, Wanted.partition, n, o, one)
          IN /\ e.up + e.upOld <= Wanted.replicas
             /\ n + o + e.up + e.upOld - (e.down + e.downOld) = Wanted.replicas
    BY <1>1, DiffsAddUp
  <2>. QED BY <1>2, <2>1
<1>4. d \in [up : Nat, upOld : Nat, down : Nat, downOld : Nat]
  BY DiffsOfPass
<1>5. Found = n + o
  BY GroupsAddUp
<1>. HIDE DEF d, n, o
<1>6. d.up \in Nat /\ d.upOld \in Nat /\ d.down \in Nat /\ d.downOld \in Nat
  BY <1>4
<1>7. Found + d.up + d.upOld = Wanted.replicas + d.down + d.downOld
  BY <1>1, <1>3, <1>5, <1>6
<1>. QED BY <1>3, <1>6, <1>7 DEF d

\* The steps that matter to the number of pods.
LEMMA CountingSteps ==
  ASSUME TypeOK, [Next]_vars
  PROVE  \/ pc' \in {"idle", "truncate"}
         \/ pc # "idle" /\ disturbed'
         \/ StartReconcile
         \/ pc = "revise" /\ BeginSync(Wanted.template)
         \/ CreatePod \/ CreateFails \/ AbandonCreates
         \/ ChooseVictims \/ DeletePod \/ DeleteFails
         \/ UNCHANGED <<pods, disturbed, pc, inst, view, cur, upd, plan, doomed, err>>
<1>1. CASE UserUpdate \/ UserDelete \/ CollectRevision \/ CollectWorkload
  BY <1>1 DEF UserUpdate, UserDelete, CollectRevision, CollectWorkload, passVars
<1>2. CASE CollectPod \/ PodLost
  BY <1>2 DEF CollectPod, PodLost
<1>3. CASE Informers \/ Resync \/ UNCHANGED vars
  BY <1>3 DEF Informers, SyncWorkload, SyncPods, SyncRevisions, Resync, vars,
     apiVars, passVars
<1>4. CASE ReconcileNotFound \/ EndReconcile \/ Crash \/ ReviseFails \/ StatusFails
  BY <1>4 DEF ReconcileNotFound, EndReconcile, Crash, ReviseFails, StatusFails,
     ReturnError
<1>5. CASE ReuseRevision \/ RollBackRevision \/ CreateRevision
  BY <1>5 DEF ReuseRevision, RollBackRevision, CreateRevision
<1>6. CASE StatusUnchanged \/ CommitStatus
  BY <1>6 DEF StatusUnchanged, CommitStatus, BeginTruncate
<1>7. CASE DeleteRevision \/ TruncateFails
  BY <1>7 DEF DeleteRevision, TruncateFails
<1>. QED BY <1>1, <1>2, <1>3, <1>4, <1>5, <1>6, <1>7 DEF Next, Environment, Pass

-----------------------------------------------------------------------------
(* The invariant.                                                          *)

\* Nothing is chosen or counted before the first pass.
LEMMA InitCounts == Init => CountInv
BY InitInvariant DEF Init, CountInv, RevisionsChosen, Counts, KnowsPods,
   CreationsCount, DeletionsCount, ResultCount

\* The current revision is chosen once, from the listing or from the template.
LEMMA NextRevisionsChosen ==
  TypeOK /\ RevisionsChosen /\ [Next]_vars => RevisionsChosen'
<1>. SUFFICES ASSUME TypeOK, RevisionsChosen, [Next]_vars PROVE RevisionsChosen'
  OBVIOUS
<1>1. CASE pc' \in {"idle", "revise"}
  BY <1>1 DEF RevisionsChosen
<1>2. CASE pc = "revise" /\ BeginSync(Wanted.template)
  BY <1>2, WantedType DEF BeginSync, CurrentOr, Listed, RevisionsChosen
<1>3. CASE PassGoesOn
  BY <1>3 DEF PassGoesOn, RevisionsChosen, TypeOK, PassTypeOK
<1>. QED BY <1>1, <1>2, <1>3, PassSteps

\* One creation that may or may not have gone through.
LEMMA OneCreation ==
  ASSUME CountInv, ~disturbed, pc = "create", pc' = "create",
         UNCHANGED <<view, cur, upd>>, Diffs(cur, upd)' = Diffs(cur, upd),
         NEW kind \in {"up", "upOld"}, plan[kind] > 0,
         plan' = [plan EXCEPT ![kind] = @ - 1],
         \/ pods' = pods /\ err'
         \/ \E p \in FreePods : pods' = [pods EXCEPT ![p] = Planned(kind)],
         ~err' => ~err
  PROVE  CreationsCount'
<1>. DEFINE d == Diffs(cur, upd)
<1>1. TypeOK /\ CreationsCount
  BY DEF CountInv, IInv, Counts
<1>2. /\ Found \in Nat /\ There \in Nat /\ Found' = Found
      /\ d.up \in Nat /\ d.upOld \in Nat
      /\ plan.up \in Nat /\ plan.upOld \in Nat
  BY <1>1, ActiveCount, DiffsBalance DEF Found, Active, TypeOK, PassTypeOK
<1>3. plan'.up \in Int /\ plan'.upOld \in Int
      /\ plan'.up + plan'.upOld = plan.up + plan.upOld - 1
  <2>1. CASE kind = "up"
    BY <1>1, <1>2, <2>1 DEF TypeOK, PassTypeOK
  <2>2. CASE kind = "upOld"
    BY <1>1, <1>2, <2>2 DEF TypeOK, PassTypeOK
  <2>. QED BY <2>1, <2>2
<1>4. /\ Active(view) \subseteq Active(pods)
      /\ There + plan.up + plan.upOld <= Found + d.up + d.upOld
      /\ ~err => There + plan.up + plan.upOld = Found + d.up + d.upOld
  BY <1>1 DEF CreationsCount
<1>5. \/ There' = There /\ Active(pods') = Active(pods) /\ err'
      \/ There' = There + 1 /\ Active(pods) \subseteq Active(pods')
  <2>1. CASE pods' = pods /\ err'
    BY <2>1 DEF There, Active
  <2>2. CASE \E p \in FreePods : pods' = [pods EXCEPT ![p] = Planned(kind)]
    <3>1. PICK p \in FreePods : pods' = [pods EXCEPT ![p] = Planned(kind)]
      BY <2>2
    <3>2. p \in Pods /\ pods[p] = None
      BY DEF FreePods
    <3>3. Planned(kind) # None
      BY WantedType, NoneAssumption
         DEF Planned, CountInv, IInv, WorksForWhatItRead, RevisionsChosen
    <3>. QED BY <1>1, <3>1, <3>2, <3>3, PodMade
  <2>. QED BY <2>1, <2>2
<1>6. Active(view') = Active(view)
  BY DEF Active
<1>. HIDE DEF d
<1>7. /\ There' + plan'.up + plan'.upOld <= Found + d.up + d.upOld
      /\ ~err' => There' + plan'.up + plan'.upOld = Found + d.up + d.upOld
  BY <1>2, <1>3, <1>4, <1>5
<1>8. Active(view') \subseteq Active(pods')
  BY <1>4, <1>5, <1>6
<1>. QED BY <1>2, <1>7, <1>8 DEF CreationsCount, d

\* At the choice of the victims, all creations done, there are replicas pods more
\* than there are victims.
LEMMA VictimsChosen ==
  ASSUME CountInv, ~disturbed, ChooseVictims
  PROVE  /\ doomed' \subseteq Active(pods) \/ err'
         /\ There >= Wanted.replicas + Cardinality(doomed') \/ err'
         /\ There >= IntMin(Wanted.replicas, Found)
         /\ There <= Found + Wanted.replicas
<1>. DEFINE d == Diffs(cur, upd)
            new == Updated(view, upd)
            old == NotUpdated(view, upd)
<1>1. TypeOK /\ pc = "create"
  BY DEF CountInv, IInv, ChooseVictims
<1>2. /\ Found \in Nat /\ There \in Nat /\ Wanted.replicas \in Nat
      /\ d.up \in Nat /\ d.upOld \in Nat /\ d.down \in Nat /\ d.downOld \in Nat
      /\ d.up + d.upOld <= Wanted.replicas
      /\ Found + d.up + d.upOld = Wanted.replicas + d.down + d.downOld
  BY <1>1, ActiveCount, DiffsBalance, WantedType
<1>3. /\ Active(view) \subseteq Active(pods)
      /\ plan.up = 0 /\ plan.upOld = 0 /\ ~err
      /\ There + plan.up + plan.upOld = Found + d.up + d.upOld
      /\ plan.down = d.down /\ plan.downOld = d.downOld
  BY <1>1 DEF CountInv, IInv, Counts, CreationsCount, DeletionsAsPlanned,
     ChooseVictims, CreatesDone
<1>. HIDE DEF d
<1>4. There = Found + d.up + d.upOld
  BY <1>2, <1>3
<1>5. There >= IntMin(Wanted.replicas, Found) /\ There <= Found + Wanted.replicas
  BY <1>2, <1>4 DEF IntMin
<1>6. CASE err'
  BY <1>5, <1>6
<1>7. CASE ~err'
  <2>1. PICK V \in SUBSET new, W \in SUBSET old :
             /\ Cardinality(V) = plan.down /\ Cardinality(W) = plan.downOld
             /\ doomed' = V \cup W
    BY <1>7 DEF ChooseVictims
  <2>2. /\ V \in SUBSET Pods /\ W \in SUBSET Pods /\ V \cap W = {}
        /\ V \cup W \subseteq Active(view)
    BY DEF Updated, NotUpdated, Active
  <2>3. Cardinality(V \cup W) = Cardinality(V) + Cardinality(W) - Cardinality({})
    BY <2>2, ActiveCount, FS_Union
  <2>4. Cardinality(doomed') = d.down + d.downOld
    BY <1>2, <1>3, <2>1, <2>3, FS_EmptySet
  <2>. QED BY <1>2, <1>3, <1>4, <1>5, <2>1, <2>2, <2>4
<1>. QED BY <1>6, <1>7

\* While nothing but the pass changes the pods, its counts stay right.
LEMMA NextCounts == CountInv /\ [Next]_vars /\ ~disturbed' => Counts'
<1>. SUFFICES ASSUME CountInv, [Next]_vars, ~disturbed' PROVE Counts'
  OBVIOUS
<1>. /\ TypeOK /\ Found \in Nat /\ There \in Nat
  BY ActiveCount DEF CountInv, IInv
<1>. USE DEF Counts
<1>keep. ASSUME pc # "idle", UNCHANGED <<inst, view>>
         PROVE  /\ Wanted' = Wanted /\ Found' = Found
                /\ Diffs(cur, upd)' = Diffs(cur', upd')
  BY <1>keep, WantedStays DEF Found, Active, Diffs, Updated, NotUpdated
<1>there. UNCHANGED pods => Active(pods') = Active(pods) /\ There' = There
  BY DEF There, Active
<1>result. ASSUME pc' = "status", ResultCount' PROVE Counts'
  BY <1>result DEF KnowsPods, CreationsCount, DeletionsCount
<1>1. CASE pc' \in {"idle", "truncate"}
  BY <1>1 DEF KnowsPods, CreationsCount, DeletionsCount, ResultCount
<1>2. CASE StartReconcile
  BY <1>2 DEF StartReconcile, apiVars, KnowsPods, CreationsCount, DeletionsCount,
     ResultCount
<1>create. ASSUME pc' = "create", CreationsCount' PROVE Counts'
  BY <1>create DEF KnowsPods, DeletionsCount, ResultCount
<1>3. CASE pc = "revise" /\ BeginSync(Wanted.template)
  <2>1. pods' = pods /\ pods = view /\ view' = view /\ inst' = inst /\ ~disturbed
    BY <1>3 DEF BeginSync, CountInv, KnowsPods
  <2>2. There' = Found' /\ Active(view') = Active(pods') /\ Found' \in Nat
    BY <2>1 DEF Found, There
  <2>3. CASE BeingDeleted
    <3>1. pc' = "status" /\ Wanted'.phase # "live"
      BY <1>3, <2>1, <2>3, <1>keep DEF BeginSync, BeingDeleted
    <3>. QED BY <3>1, <1>result DEF ResultCount
  <2>4. CASE ~BeingDeleted
    <3>1. pc' = "create" /\ plan' = Diffs(cur, upd)'
      BY <1>3, <2>1, <2>4, <1>keep DEF BeginSync
    <3>2. There' \in Nat /\ plan'.up \in Nat /\ plan'.upOld \in Nat
      BY <2>2, NextType DEF TypeOK, PassTypeOK
    <3>3. CreationsCount'
      BY <2>2, <3>1, <3>2 DEF CreationsCount
    <3>. QED BY <3>1, <3>3, <1>create
  <2>. QED BY <2>3, <2>4
<1>4. CASE CreatePod
  <2>1. PICK kind \in {"up", "upOld"}, p \in FreePods :
             /\ plan[kind] > 0 /\ plan' = [plan EXCEPT ![kind] = @ - 1]
             /\ pods' = [pods EXCEPT ![p] = Planned(kind)]
    BY <1>4 DEF CreatePod
  <2>2. /\ pc = "create" /\ pc' = "create" /\ ~disturbed /\ err' = err
        /\ UNCHANGED <<inst, view, cur, upd>>
    BY <1>4 DEF CreatePod
  <2>3. Diffs(cur, upd)' = Diffs(cur, upd)
    BY <2>2, <1>keep
  <2>4. CreationsCount'
    BY <2>1, <2>2, <2>3, OneCreation
  <2>. QED BY <2>2, <2>4, <1>create
<1>5. CASE CreateFails
  <2>1. PICK kind \in {"up", "upOld"} :
             /\ plan[kind] > 0 /\ plan' = [plan EXCEPT ![kind] = @ - 1]
             /\ \/ UNCHANGED pods
                \/ \E p \in FreePods : pods' = [pods EXCEPT ![p] = Planned(kind)]
    BY <1>5 DEF CreateFails
  <2>2. /\ pc = "create" /\ pc' = "create" /\ ~disturbed /\ err'
        /\ UNCHANGED <<inst, view, cur, upd>>
    BY <1>5 DEF CreateFails
  <2>3. Diffs(cur, upd)' = Diffs(cur, upd)
    BY <2>2, <1>keep
  <2>4. CreationsCount'
    BY <2>1, <2>2, <2>3, OneCreation
  <2>. QED BY <2>2, <2>4, <1>create
<1>6. CASE AbandonCreates
  <2>1. /\ pc = "create" /\ pc' = "status" /\ ~disturbed
        /\ UNCHANGED <<pods, inst, view>>
    BY <1>6 DEF AbandonCreates, apiVars, passVars
  <2>2. LET d == Diffs(cur, upd)
        IN /\ Active(view) \subseteq Active(pods)
           /\ There + plan.up + plan.upOld <= Found + d.up + d.upOld
           /\ d.up \in Nat /\ d.upOld \in Nat /\ d.up + d.upOld <= Wanted.replicas
    BY <2>1, DiffsBalance DEF CountInv, CreationsCount
  <2>3. plan.up \in Nat /\ plan.upOld \in Nat /\ Wanted.replicas \in Nat
    BY <2>1, WantedType DEF TypeOK, PassTypeOK
  <2>4. Found <= There
    BY <2>2, ActiveCount, FS_Subset DEF Found, There
  <2>5. There >= IntMin(Wanted.replicas, Found) /\ There <= Found + Wanted.replicas
    BY <2>2, <2>3, <2>4 DEF IntMin
  <2>. QED BY <2>1, <2>5, <1>keep, <1>there, <1>result DEF ResultCount
<1>7. CASE ChooseVictims
  <2>1. /\ pc = "create" /\ ~disturbed /\ UNCHANGED <<pods, inst, view>>
        /\ pc' \in {"status", "delete"} /\ (err' => pc' = "status")
    BY <1>7 DEF ChooseVictims, CreatesDone, apiVars
  <2>2. CASE pc' = "status"
    BY <1>7, <2>1, <2>2, VictimsChosen, <1>keep, <1>there, <1>result DEF ResultCount
  <2>3. CASE pc' = "delete"
    BY <1>7, <2>1, <2>3, VictimsChosen, <1>keep, <1>there
       DEF KnowsPods, CreationsCount, DeletionsCount, ResultCount
  <2>. QED BY <2>1, <2>2, <2>3
<1>8. CASE DeletePod \/ DeleteFails
  <2>1. /\ pc = "delete" /\ ~disturbed /\ UNCHANGED <<inst, view>>
        /\ doomed \subseteq Active(pods)
        /\ There >= Wanted.replicas + Cardinality(doomed)
        /\ There <= Found + Wanted.replicas
    BY <1>8 DEF DeletePod, DeleteFails, CountInv, DeletionsCount
  <2>2. PICK p \in doomed : \/ pods' = pods /\ DeleteFails
                            \/ pods' = [pods EXCEPT ![p] = None] /\ DeleteFails
                            \/ /\ pods' = [pods EXCEPT ![p] = None]
                               /\ doomed' = doomed \ {p}
                               /\ pc' = IF doomed' = {} THEN "status" ELSE "delete"
    BY <1>8 DEF DeletePod, DeleteFails, NextVictims
  <2>3. doomed \in SUBSET Pods /\ IsFiniteSet(doomed) /\ Wanted.replicas \in Nat
    BY <2>1, WantedType, ActiveCount DEF TypeOK, PassTypeOK
  <2>4. /\ Cardinality(doomed) \in Nat /\ Cardinality(doomed \ {p}) \in Nat
        /\ Cardinality(doomed \ {p}) = Cardinality(doomed) - 1
    BY <2>3, FS_RemoveElement, FS_CardinalityType
  <2>5. pods' = [pods EXCEPT ![p] = None] =>
          Active(pods') = Active(pods) \ {p} /\ There' = There - 1
    BY <2>1, PodDeleted
  <2>6. CASE DeleteFails
    <3>1. pc' = "status"
      BY <2>6 DEF DeleteFails
    <3>2. There' >= IntMin(Wanted.replicas, Found) /\ There' <= Found + Wanted.replicas
      <4>1. There' = There \/ There' = There - 1
        BY <2>2, <2>5, <2>6, <1>there DEF DeleteFails
      <4>. QED BY <4>1, <2>1, <2>3, <2>4 DEF IntMin
    <3>. QED BY <2>1, <3>1, <3>2, <1>keep, <1>result DEF ResultCount
  <2>7. CASE ~DeleteFails
    <3>1. /\ There' = There - 1 /\ doomed' \subseteq Active(pods')
          /\ Cardinality(doomed') = Cardinality(doomed) - 1
      BY <2>1, <2>2, <2>4, <2>5, <2>7
    <3>2. /\ There' >= Wanted.replicas + Cardinality(doomed')
          /\ There' <= Found + Wanted.replicas
          /\ There' >= IntMin(Wanted.replicas, Found)
      BY <2>1, <2>3, <2>4, <3>1 DEF IntMin
    <3>3. pc' \in {"status", "delete"}
      BY <2>2, <2>7
    <3>. QED BY <2>1, <3>1, <3>2, <3>3, <1>keep
             DEF KnowsPods, CreationsCount, DeletionsCount, ResultCount
  <2>. QED BY <2>6, <2>7
<1>9. CASE UNCHANGED <<pods, disturbed, pc, inst, view, cur, upd, plan, doomed, err>>
  <2>1. Counts
    BY <1>9 DEF CountInv
  <2>2. CASE pc = "idle"
    BY <1>9, <2>2 DEF KnowsPods, CreationsCount, DeletionsCount, ResultCount
  <2>3. CASE pc # "idle"
    BY <1>9, <2>1, <2>3, <1>keep, <1>there
       DEF KnowsPods, CreationsCount, DeletionsCount, ResultCount
  <2>. QED BY <2>2, <2>3
<1>. QED BY <1>1, <1>2, <1>3, <1>4, <1>5, <1>6, <1>7, <1>8, <1>9, CountingSteps

\* The counts hold in every state of every behaviour.
LEMMA CountsInvariant == Spec => []CountInv
<1>1. IInv /\ [Next]_vars => IInv'
  BY NextType, NextWorks, NextDeletions, NextStatusBehind, NextStatusDescribes DEF IInv
<1>2. CountInv /\ [Next]_vars => CountInv'
  BY <1>1, NextRevisionsChosen, NextCounts DEF CountInv, IInv
<1>. QED BY <1>2, InitCounts, PTL DEF Spec

-----------------------------------------------------------------------------
\* A pass that nothing else disturbs keeps the pods that are wanted and there:
\* createPods comes first, deletePods takes only the surplus, and a failure of
\* either leaves more pods, never fewer.
THEOREM AvailabilityAlwaysKept == Spec => []AvailabilityKept
<1>1. ASSUME CountInv PROVE AvailabilityKept
  <2>. SUFFICES ASSUME Syncing, ~disturbed
                PROVE  There >= IntMin(Wanted.replicas, Found)
    BY DEF AvailabilityKept, There, Found
  <2>1. TypeOK /\ Counts /\ pc # "idle" /\ Wanted.phase = "live"
    BY <1>1 DEF CountInv, IInv, Syncing
  <2>2. Found \in Nat /\ There \in Nat /\ Wanted.replicas \in Nat
    BY <2>1, ActiveCount, WantedType
  <2>3. CASE pc = "create"
    <3>1. Found <= There
      BY <2>1, <2>3, ActiveCount, FS_Subset DEF Counts, CreationsCount, Found, There
    <3>. QED BY <2>2, <3>1 DEF IntMin
  <2>4. CASE pc = "delete"
    <3>1. Cardinality(doomed) \in Nat
      BY <2>1, ActiveCount DEF TypeOK, PassTypeOK
    <3>. QED BY <2>1, <2>2, <2>4, <3>1 DEF Counts, DeletionsCount, IntMin
  <2>5. CASE pc = "status"
    BY <2>1, <2>5 DEF Counts, ResultCount
  <2>. QED BY <2>3, <2>4, <2>5 DEF Syncing
<1>. QED BY <1>1, CountsInvariant, PTL

\* Such a pass never has more than replicas pods above what it found, creations
\* whose answers were lost included.
THEOREM SurgeAlwaysBounded == Spec => []SurgeBounded
<1>1. ASSUME CountInv PROVE SurgeBounded
  <2>. SUFFICES ASSUME Syncing, ~disturbed
                PROVE  There <= Found + Wanted.replicas
    BY DEF SurgeBounded, There, Found
  <2>1. TypeOK /\ Counts /\ pc # "idle" /\ Wanted.phase = "live"
    BY <1>1 DEF CountInv, IInv, Syncing
  <2>2. Found \in Nat /\ There \in Nat /\ Wanted.replicas \in Nat
    BY <2>1, ActiveCount, WantedType
  <2>3. CASE pc = "create"
    <3>1. LET d == Diffs(cur, upd)
          IN /\ There + plan.up + plan.upOld <= Found + d.up + d.upOld
             /\ d.up \in Nat /\ d.upOld \in Nat /\ d.up + d.upOld <= Wanted.replicas
      BY <2>1, <2>3, DiffsBalance DEF Counts, CreationsCount
    <3>2. plan.up \in Nat /\ plan.upOld \in Nat
      BY <2>1 DEF TypeOK, PassTypeOK
    <3>. QED BY <2>2, <3>1, <3>2
  <2>4. CASE pc \in {"delete", "status"}
    BY <2>1, <2>4 DEF Counts, DeletionsCount, ResultCount
  <2>. QED BY <2>3, <2>4 DEF Syncing
<1>. QED BY <1>1, CountsInvariant, PTL
=============================================================================
