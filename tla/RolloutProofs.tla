---------------------------- MODULE RolloutProofs ----------------------------
(***************************************************************************)
(* Proofs that a pass of Reconciler does what Rollout promises, for all    *)
(* templates, pods, replica counts, partitions and bounds.                 *)
(***************************************************************************)
EXTENDS AvailabilityProofs

Groups == {"new", "old"}

\* How many pods of a group there are, and what the plan has left for it.
Size(g) == Cardinality(PassGroup(pods, g))
ToMake(g) == IF g = "new" THEN plan.up ELSE plan.upOld
ToTake(g) == IF g = "new" THEN plan.down ELSE plan.downOld
Victims(g) == doomed \cap PassGroup(pods, g)

\* No error is carried over from an earlier pass.
StartsClean == pc = "revise" => ~err

\* Pods that were found are still what they were; nothing is made above the goal,
\* and without a failure the plan leads from what there is to the goal.
GrowsToGoal ==
  pc = "create" =>
    /\ \A p \in Active(view) : pods[p] = view[p]
    /\ \A g \in Groups :
         /\ ToMake(g) > 0 => Size(g) + ToMake(g) <= PassGoal(g)
         /\ ~err => Size(g) + ToMake(g) = PassGoal(g) + ToTake(g)

\* The victims are what a group has above its goal.
ShrinksToGoal ==
  pc = "delete" =>
    /\ ~err /\ doomed \subseteq Active(pods)
    /\ \A g \in Groups : Size(g) = PassGoal(g) + Cardinality(Victims(g))

\* Without an error the goals are reached.
ReachesGoal ==
  pc = "status" /\ Wanted.phase = "live" /\ ~err =>
    \A g \in Groups : Size(g) = PassGoal(g)

GroupsRight == StartsClean /\ GrowsToGoal /\ ShrinksToGoal /\ ReachesGoal

GroupInv == CountInv /\ (~disturbed => GroupsRight)
-----------------------------------------------------------------------------
(* Groups of pods and what is planned for them.                            *)

\* The differences of a group are made up one way only.
LEMMA OneWay ==
  ASSUME NEW r \in Nat, NEW p \in Partitions, NEW n \in Nat, NEW o \in Nat,
         NEW one \in BOOLEAN
  PROVE  LET d == CalculateDiffs(r, p, n, o, one)
         IN (d.up = 0 \/ d.down = 0) /\ (d.upOld = 0 \/ d.downOld = 0)
<1>1. EffectivePartition(r, p) \in Nat
  BY EffectivePartitionRange
<1>. QED BY <1>1 DEF CalculateDiffs, Missing, Surplus, Abs

\* What a pass computes from the pods it found leads to the goals.
LEMMA PlanLeadsToGoal ==
  ASSUME TypeOK, pc # "idle", NEW c, NEW u
  PROVE  LET d == Diffs(c, u)
             n == Cardinality(Updated(view, u))
             o == Cardinality(NotUpdated(view, u))
             target == EffectivePartition(Wanted.replicas, Wanted.partition)
         IN /\ c = u => /\ Found + d.up = Wanted.replicas + d.down
                        /\ d.upOld = 0 /\ d.downOld = 0
            /\ c # u => /\ n + d.up = target + d.down
                        /\ o + d.upOld = Wanted.replicas - target + d.downOld
            /\ (d.up = 0 \/ d.down = 0) /\ (d.upOld = 0 \/ d.downOld = 0)
            /\ target \in Nat /\ target <= Wanted.replicas
<1>. DEFINE d == Diffs(c, u)
            n == Cardinality(Updated(view, u))
            o == Cardinality(NotUpdated(view, u))
            r == Wanted.replicas
            part == Wanted.partition
            target == EffectivePartition(r, part)
<1>1. /\ n \in Nat /\ o \in Nat /\ Found = n + o /\ r \in Nat /\ part \in Partitions
      /\ d \in [up : Nat, upOld : Nat, down : Nat, downOld : Nat]
  BY GroupsFinite, GroupsAddUp, WantedType, DiffsOfPass
<1>2. d = CalculateDiffs(r, part, n, o, c = u)
  BY DEF Diffs
<1>3. target \in Nat /\ target <= r
  BY <1>1, EffectivePartitionRange
<1>. HIDE DEF d, n, o, r, part, target
<1>4. (d.up = 0 \/ d.down = 0) /\ (d.upOld = 0 \/ d.downOld = 0)
  <2>1. \A one \in BOOLEAN :
          LET e == CalculateDiffs(r, part, n, o, one)
          IN (e.up = 0 \/ e.down = 0) /\ (e.upOld = 0 \/ e.downOld = 0)
    BY <1>1, OneWay
  <2>. QED BY <1>2, <2>1
<1>5. CASE c = u
  <2>1. d = CalculateDiffs(r, part, n, o, TRUE)
    BY <1>2, <1>5
  <2>2. n + o + d.up - d.down = r /\ d.upOld = 0 /\ d.downOld = 0
    <3>1. LET e == CalculateDiffs(r, part, n, o, TRUE)
          IN n + o + e.up - e.down = r /\ e.upOld = 0 /\ e.downOld = 0
      BY <1>1, OneRevisionReachesReplicas
    <3>. QED BY <2>1, <3>1
  <2>. QED BY <1>1, <1>3, <1>4, <1>5, <2>2 DEF d, n, o, r, part, target
<1>6. CASE c # u
  <2>1. d = CalculateDiffs(r, part, n, o, FALSE)
    BY <1>2, <1>6
  <2>2. n + d.up - d.down = target /\ o + d.upOld - d.downOld = r - target
    BY <1>1, <1>3, <2>1 DEF target, CalculateDiffs, Missing, Surplus, Abs
  <2>3. n + d.up = target + d.down /\ o + d.upOld = r - target + d.downOld
    BY <1>1, <1>3, <2>2
  <2>. QED BY <1>3, <1>4, <1>6, <2>3 DEF d, n, o, r, part, target
<1>. QED BY <1>5, <1>6

\* Goals and sizes are natural numbers.
LEMMA GroupTypes ==
  ASSUME TypeOK
  PROVE  \A g \in Groups :
           /\ PassGroup(pods, g) \subseteq Active(pods)
           /\ IsFiniteSet(PassGroup(pods, g)) /\ Size(g) \in Nat
           /\ IsFiniteSet(Victims(g)) /\ Cardinality(Victims(g)) \in Nat
           /\ pc # "idle" => PassGoal(g) \in Nat
<1>. TAKE g \in Groups
<1>1. /\ PassGroup(pods, g) \subseteq Active(pods)
      /\ PassGroup(pods, g) \in SUBSET Pods /\ Victims(g) \in SUBSET Pods
  BY DEF PassGroup, Updated, NotUpdated, Active, Victims
<1>2. ASSUME pc # "idle" PROVE PassGoal(g) \in Nat
  <2>1. Wanted.replicas \in Nat /\ Wanted.partition \in Partitions
    BY <1>2, WantedType
  <2>2. /\ EffectivePartition(Wanted.replicas, Wanted.partition) \in Nat
        /\ EffectivePartition(Wanted.replicas, Wanted.partition) <= Wanted.replicas
    BY <2>1, EffectivePartitionRange
  <2>. QED BY <2>1, <2>2 DEF PassGoal
<1>. QED BY <1>1, <1>2, ActiveCount DEF Size

\* A pod that is made joins the group it is planned for.
LEMMA GroupGrows ==
  ASSUME TypeOK, NEW p \in Pods, pods[p] = None, UNCHANGED <<cur, upd>>,
         cur \in Templates, upd \in Templates,
         NEW g \in Groups, g = "old" => cur # upd,
         pods' = [pods EXCEPT ![p] = IF g = "new" THEN upd ELSE cur]
  PROVE  /\ Size(g)' = Size(g) + 1
         /\ \A h \in Groups \ {g} : Size(h)' = Size(h)
<1>1. /\ Active(pods') = Active(pods) \cup {p} /\ p \notin Active(pods)
      /\ \A q \in Pods \ {p} : pods'[q] = pods[q]
      /\ pods'[p] = IF g = "new" THEN upd ELSE cur
  BY NoneAssumption DEF Active, TypeOK, ApiTypeOK
<1>2. /\ PassGroup(pods, g)' = PassGroup(pods, g) \cup {p}
      /\ \A h \in Groups \ {g} : PassGroup(pods, h)' = PassGroup(pods, h)
  BY <1>1 DEF PassGroup, Updated, NotUpdated, Active, Groups
<1>3. p \notin PassGroup(pods, g) /\ IsFiniteSet(PassGroup(pods, g))
  BY <1>1, GroupTypes
<1>. QED BY <1>2, <1>3, FS_AddElement DEF Size

\* A pod that goes leaves one group.
LEMMA GroupShrinks ==
  ASSUME TypeOK, NEW p \in Active(pods), UNCHANGED <<cur, upd>>,
         pods' = [pods EXCEPT ![p] = None]
  PROVE  \E g \in Groups :
           /\ p \in PassGroup(pods, g)
           /\ PassGroup(pods, g)' = PassGroup(pods, g) \ {p}
           /\ Size(g)' = Size(g) - 1
           /\ \A h \in Groups \ {g} : /\ PassGroup(pods, h)' = PassGroup(pods, h)
                                        /\ p \notin PassGroup(pods, h)
<1>1. /\ Active(pods') = Active(pods) \ {p} /\ p \in Pods
      /\ \A q \in Pods \ {p} : pods'[q] = pods[q]
  BY DEF Active, TypeOK, ApiTypeOK
<1>. USE DEF Groups
<1>2. \E g \in Groups :
           /\ p \in PassGroup(pods, g)
           /\ PassGroup(pods, g)' = PassGroup(pods, g) \ {p}
           /\ \A h \in Groups \ {g} : /\ PassGroup(pods, h)' = PassGroup(pods, h)
                                        /\ p \notin PassGroup(pods, h)
  <2>1. CASE cur = upd \/ pods[p] = upd
    <3>. WITNESS "new" \in Groups
    <3>. QED BY <1>1, <2>1 DEF PassGroup, Updated, NotUpdated, Active, Groups
  <2>2. CASE ~(cur = upd \/ pods[p] = upd)
    <3>. WITNESS "old" \in Groups
    <3>. QED BY <1>1, <2>2 DEF PassGroup, Updated, NotUpdated, Active, Groups
  <2>. QED BY <2>1, <2>2
<1>3. \A g \in Groups : IsFiniteSet(PassGroup(pods, g))
  BY GroupTypes
<1>4. PICK g \in Groups :
           /\ p \in PassGroup(pods, g)
           /\ PassGroup(pods, g)' = PassGroup(pods, g) \ {p}
           /\ \A h \in Groups \ {g} : /\ PassGroup(pods, h)' = PassGroup(pods, h)
                                        /\ p \notin PassGroup(pods, h)
  BY <1>2
<1>5. Size(g)' = Size(g) - 1
  BY <1>3, <1>4, FS_RemoveElement DEF Size
<1>. QED BY <1>4, <1>5

-----------------------------------------------------------------------------
(* The invariant.                                                          *)

\* Before the first pass there is nothing to be right.
LEMMA InitGroups == Init => GroupInv
BY InitCounts DEF Init, GroupInv, GroupsRight, StartsClean, GrowsToGoal,
   ShrinksToGoal, ReachesGoal

\* At the start of the creations the plan leads from what was found to the goal.
LEMMA BeginSyncPlans ==
  ASSUME CountInv, ~disturbed, StartsClean, pc = "revise", BeginSync(Wanted.template),
         pc' = "create", Wanted' = Wanted
  PROVE  ~err' /\ GrowsToGoal'
<1>. DEFINE d == Diffs(cur', upd')
            n == Cardinality(Updated(view, upd'))
            o == Cardinality(NotUpdated(view, upd'))
            r == Wanted.replicas
            target == EffectivePartition(r, Wanted.partition)
<1>1. TypeOK /\ pods = view /\ pods' = pods /\ view' = view /\ ~err /\ err' = err
  BY DEF CountInv, IInv, Counts, KnowsPods, BeginSync, StartsClean
<1>2. plan' = d
  BY DEF BeginSync
<1>3. /\ cur' = upd' => Found + d.up = r + d.down /\ d.upOld = 0 /\ d.downOld = 0
      /\ cur' # upd' => n + d.up = target + d.down /\ o + d.upOld = r - target + d.downOld
      /\ (d.up = 0 \/ d.down = 0) /\ (d.upOld = 0 \/ d.downOld = 0)
  BY <1>1, PlanLeadsToGoal
<1>4. /\ n \in Nat /\ o \in Nat /\ r \in Nat /\ target \in Nat /\ target <= r
      /\ d.up \in Nat /\ d.upOld \in Nat /\ d.down \in Nat /\ d.downOld \in Nat
      /\ Found \in Nat
  BY <1>1, GroupsFinite, WantedType, DiffsBalance, EffectivePartitionRange, ActiveCount
<1>5. /\ Size("new")' = IF cur' = upd' THEN Found ELSE n
      /\ Size("old")' = IF cur' = upd' THEN 0 ELSE o
  BY <1>1, FS_EmptySet DEF Size, PassGroup, Found
<1>6. /\ PassGoal("new")' = IF cur' = upd' THEN r ELSE target
      /\ PassGoal("old")' = IF cur' = upd' THEN r - r ELSE r - target
  BY DEF PassGoal
<1>. HIDE DEF d, n, o, r, target
<1>7. ASSUME NEW g \in Groups
      PROVE  /\ ToMake(g)' > 0 => Size(g)' + ToMake(g)' <= PassGoal(g)'
             /\ Size(g)' + ToMake(g)' = PassGoal(g)' + ToTake(g)'
  <2>1. CASE g = "new"
    BY <1>2, <1>3, <1>4, <1>5, <1>6, <2>1 DEF ToMake, ToTake
  <2>2. CASE g = "old"
    BY <1>2, <1>3, <1>4, <1>5, <1>6, <2>2 DEF ToMake, ToTake
  <2>. QED BY <2>1, <2>2 DEF Groups
<1>8. \A p \in Active(view') : pods'[p] = view'[p]
  BY <1>1
<1>. QED BY <1>1, <1>7, <1>8 DEF GrowsToGoal

\* What a step of the creations does to the group it is for.
LEMMA OneCreationGrows ==
  ASSUME CountInv, ~disturbed, GrowsToGoal, pc = "create",
         UNCHANGED <<view, cur, upd>>, \A g \in Groups : PassGoal(g)' = PassGoal(g),
         NEW kind \in {"up", "upOld"}, plan[kind] > 0,
         plan' = [plan EXCEPT ![kind] = @ - 1],
         \/ pods' = pods /\ err'
         \/ \E p \in FreePods : pods' = [pods EXCEPT ![p] = Planned(kind)],
         ~err' => ~err
  PROVE  /\ GrowsToGoal'
         /\ \/ pods' = pods
            \/ \E g \in Groups : /\ Size(g) < PassGoal(g) /\ Size(g)' = Size(g) + 1
                                 /\ \A h \in Groups \ {g} : Size(h)' = Size(h)
<1>. DEFINE k == IF kind = "up" THEN "new" ELSE "old"
<1>1. /\ TypeOK /\ k \in Groups /\ ToMake(k) > 0
      /\ \A g \in Groups : /\ Size(g) \in Nat /\ PassGoal(g) \in Nat
                           /\ ToMake(g) \in Nat /\ ToTake(g) \in Nat
  BY GroupTypes DEF CountInv, IInv, TypeOK, PassTypeOK, ToMake, ToTake, Groups
<1>2. /\ ToMake(k)' = ToMake(k) - 1 /\ ToTake(k)' = ToTake(k)
      /\ \A h \in Groups \ {k} : ToMake(h)' = ToMake(h) /\ ToTake(h)' = ToTake(h)
  <2>1. plan \in [up : Nat, upOld : Nat, down : Nat, downOld : Nat]
    BY <1>1 DEF TypeOK, PassTypeOK
  <2>2. CASE kind = "up"
    BY <2>1, <2>2 DEF ToMake, ToTake, Groups
  <2>3. CASE kind = "upOld"
    BY <2>1, <2>3 DEF ToMake, ToTake, Groups
  <2>. QED BY <2>2, <2>3
<1>3. /\ \A p \in Active(view) : pods[p] = view[p]
      /\ \A g \in Groups : /\ ToMake(g) > 0 => Size(g) + ToMake(g) <= PassGoal(g)
                           /\ ~err => Size(g) + ToMake(g) = PassGoal(g) + ToTake(g)
  BY DEF GrowsToGoal
<1>4. CASE pods' = pods /\ err'
  <2>1. \A g \in Groups : Size(g)' = Size(g)
    BY <1>4 DEF Size, PassGroup, Updated, NotUpdated, Active
  <2>2. \A g \in Groups : ToMake(g)' > 0 => Size(g)' + ToMake(g)' <= PassGoal(g)'
    BY <1>1, <1>2, <1>3, <2>1
  <2>. QED BY <1>3, <1>4, <2>2 DEF GrowsToGoal, Active
<1>5. CASE \E p \in FreePods : pods' = [pods EXCEPT ![p] = Planned(kind)]
  <2>1. PICK p \in FreePods : pods' = [pods EXCEPT ![p] = Planned(kind)]
    BY <1>5
  <2>2. p \in Pods /\ pods[p] = None /\ p \notin Active(view)
    BY DEF FreePods, Active
  <2>3. cur \in Templates /\ upd \in Templates
    BY <1>1, WantedType DEF CountInv, IInv, WorksForWhatItRead, RevisionsChosen
  <2>4. k = "old" => cur # upd
    <3>1. ASSUME k = "old", cur = upd PROVE PassGoal(k) <= 0
      <4>1. Wanted.replicas \in Nat
        BY <1>1, WantedType
      <4>. QED BY <3>1, <4>1 DEF PassGoal
    <3>. QED BY <1>1, <1>3, <3>1
  <2>5. pods' = [pods EXCEPT ![p] = IF k = "new" THEN upd ELSE cur]
    BY <2>1 DEF Planned
  <2>6. /\ Size(k)' = Size(k) + 1
        /\ \A h \in Groups \ {k} : Size(h)' = Size(h)
    <3>. HIDE DEF k
    <3>. QED BY <1>1, <2>2, <2>3, <2>4, <2>5, GroupGrows
  <2>7. Active(view') = Active(view) /\ \A q \in Active(view) : pods'[q] = view'[q]
    BY <1>1, <1>3, <2>1, <2>2 DEF Active, TypeOK, ApiTypeOK
  <2>. HIDE DEF k
  <2>8. \A g \in Groups : /\ ToMake(g)' > 0 => Size(g)' + ToMake(g)' <= PassGoal(g)'
                          /\ ~err' => Size(g)' + ToMake(g)' = PassGoal(g)' + ToTake(g)'
    <3>1. /\ ToMake(k)' > 0 => Size(k)' + ToMake(k)' <= PassGoal(k)'
          /\ ~err' => Size(k)' + ToMake(k)' = PassGoal(k)' + ToTake(k)'
      BY <1>1, <1>2, <1>3, <2>6
    <3>2. ASSUME NEW g \in Groups \ {k}
          PROVE  /\ ToMake(g)' > 0 => Size(g)' + ToMake(g)' <= PassGoal(g)'
                 /\ ~err' => Size(g)' + ToMake(g)' = PassGoal(g)' + ToTake(g)'
      BY <1>1, <1>2, <1>3, <2>6, <3>2
    <3>. QED BY <3>1, <3>2
  <2>9. Size(k) < PassGoal(k)
    BY <1>1, <1>3
  <2>. QED BY <1>1, <2>6, <2>7, <2>8, <2>9 DEF GrowsToGoal
<1>. QED BY <1>4, <1>5

\* The victims that are chosen are what the groups have above their goals.
LEMMA VictimsAreSurplus ==
  ASSUME CountInv, ~disturbed, GrowsToGoal, ChooseVictims, ~err'
  PROVE  /\ doomed' \subseteq Active(pods)
         /\ \A g \in Groups :
              Size(g) = PassGoal(g) + Cardinality(doomed' \cap PassGroup(pods, g))
<1>. DEFINE new == Updated(view, upd)
            old == NotUpdated(view, upd)
            d == Diffs(cur, upd)
<1>1. /\ TypeOK /\ pc = "create" /\ ~err /\ plan.up = 0 /\ plan.upOld = 0
      /\ plan.down = d.down /\ plan.downOld = d.downOld
      /\ Active(view) \subseteq Active(pods)
      /\ \A p \in Active(view) : pods[p] = view[p]
      /\ \A g \in Groups : Size(g) + ToMake(g) = PassGoal(g) + ToTake(g)
  BY DEF CountInv, IInv, Counts, CreationsCount, DeletionsAsPlanned, ChooseVictims,
     CreatesDone, GrowsToGoal
<1>2. PICK V \in SUBSET new, W \in SUBSET old :
             /\ Cardinality(V) = plan.down /\ Cardinality(W) = plan.downOld
             /\ doomed' = V \cup W
  BY DEF ChooseVictims
<1>3. /\ V \in SUBSET Pods /\ W \in SUBSET Pods /\ V \cap W = {}
      /\ doomed' \subseteq Active(view) /\ doomed' \subseteq Active(pods)
  BY <1>1, <1>2 DEF Updated, NotUpdated, Active
<1>4. \A g \in Groups : Size(g) = PassGoal(g) + ToTake(g)
  <2>1. \A g \in Groups : /\ Size(g) \in Nat /\ PassGoal(g) \in Nat
                          /\ ToMake(g) = 0 /\ ToTake(g) \in Nat
    BY <1>1, GroupTypes DEF TypeOK, PassTypeOK, ToMake, ToTake
  <2>. QED BY <1>1, <2>1
<1>5. \A g \in Groups : Cardinality(doomed' \cap PassGroup(pods, g)) = ToTake(g)
  <2>1. CASE cur = upd
    <3>1. plan.downOld = 0 /\ plan.down \in Nat
      BY <1>1, <2>1, PlanLeadsToGoal DEF TypeOK, PassTypeOK
    <3>2. W = {}
      BY <1>2, <1>3, <3>1, ActiveCount, FS_EmptySet
    <3>3. /\ doomed' \cap PassGroup(pods, "new") = V
          /\ doomed' \cap PassGroup(pods, "old") = {}
      BY <1>2, <1>3, <2>1, <3>2 DEF PassGroup
    <3>. QED BY <1>2, <3>1, <3>3, FS_EmptySet DEF ToTake, Groups
  <2>2. CASE cur # upd
    <3>1. /\ doomed' \cap PassGroup(pods, "new") = V
          /\ doomed' \cap PassGroup(pods, "old") = W
      BY <1>1, <1>2, <2>2 DEF PassGroup, Updated, NotUpdated, Active
    <3>. QED BY <1>2, <3>1 DEF ToTake, Groups
  <2>. QED BY <2>1, <2>2
<1>. QED BY <1>3, <1>4, <1>5

\* Deleting a victim takes one pod from a group that has too many.
LEMMA OneDeletion ==
  ASSUME TypeOK, pc = "delete", ShrinksToGoal, UNCHANGED <<cur, upd>>, NEW p \in doomed,
         pods' = [pods EXCEPT ![p] = None]
  PROVE  /\ doomed \ {p} \subseteq Active(pods')
         /\ \E g \in Groups :
              /\ Size(g) > PassGoal(g) /\ Size(g)' = Size(g) - 1
              /\ \A h \in Groups \ {g} : Size(h)' = Size(h)
         /\ \A g \in Groups : Size(g)' = PassGoal(g)
              + Cardinality((doomed \ {p}) \cap PassGroup(pods, g)')
<1>1. /\ p \in Active(pods) /\ doomed \subseteq Active(pods)
      /\ \A g \in Groups : /\ Size(g) = PassGoal(g) + Cardinality(Victims(g))
                           /\ Size(g) \in Nat /\ PassGoal(g) \in Nat
                           /\ IsFiniteSet(Victims(g)) /\ Cardinality(Victims(g)) \in Nat
  BY GroupTypes DEF ShrinksToGoal
<1>2. PICK g \in Groups :
           /\ p \in PassGroup(pods, g)
           /\ PassGroup(pods, g)' = PassGroup(pods, g) \ {p}
           /\ Size(g)' = Size(g) - 1
           /\ \A h \in Groups \ {g} : /\ PassGroup(pods, h)' = PassGroup(pods, h)
                                        /\ p \notin PassGroup(pods, h)
  BY <1>1, GroupShrinks
<1>3. /\ (doomed \ {p}) \cap PassGroup(pods, g)' = Victims(g) \ {p} /\ p \in Victims(g)
      /\ \A h \in Groups \ {g} :
           /\ (doomed \ {p}) \cap PassGroup(pods, h)' = Victims(h)
           /\ Size(h)' = Size(h)
  BY <1>2 DEF Victims, Size
<1>4. Cardinality(Victims(g) \ {p}) = Cardinality(Victims(g)) - 1
  BY <1>1, <1>3, FS_RemoveElement
<1>5. Cardinality(Victims(g)) > 0
  <2>1. Cardinality(Victims(g)) # 0
    BY <1>1, <1>3, FS_EmptySet
  <2>. QED BY <1>1, <2>1
<1>6. Active(pods') = Active(pods) \ {p}
  BY <1>1, PodDeleted
<1>7. /\ Size(g) > PassGoal(g)
      /\ Size(g)' = PassGoal(g) + Cardinality(Victims(g) \ {p})
  BY <1>1, <1>2, <1>4, <1>5
<1>8. \A h \in Groups : Size(h)' = PassGoal(h)
              + Cardinality((doomed \ {p}) \cap PassGroup(pods, h)')
  BY <1>1, <1>3, <1>7
<1>. QED BY <1>1, <1>2, <1>3, <1>6, <1>7, <1>8

\* While nothing but the pass changes the pods, the groups stay right.
LEMMA NextGroups == GroupInv /\ [Next]_vars /\ ~disturbed' => GroupsRight'
<1>. SUFFICES ASSUME GroupInv, [Next]_vars, ~disturbed' PROVE GroupsRight'
  OBVIOUS
<1>. TypeOK /\ CountInv /\ (~disturbed => GroupsRight)
  BY DEF GroupInv, CountInv, IInv
<1>. USE DEF GroupsRight
<1>only. /\ pc' = "revise" /\ StartsClean' => GroupsRight'
         /\ pc' = "create" /\ GrowsToGoal' => GroupsRight'
         /\ pc' = "delete" /\ ShrinksToGoal' => GroupsRight'
         /\ pc' = "status" /\ ReachesGoal' => GroupsRight'
         /\ pc' \in {"idle", "truncate"} => GroupsRight'
  BY DEF StartsClean, GrowsToGoal, ShrinksToGoal, ReachesGoal
<1>goal. ASSUME pc # "idle", UNCHANGED <<inst, cur, upd>>
         PROVE  Wanted' = Wanted /\ \A g \in Groups : PassGoal(g)' = PassGoal(g)
  BY <1>goal, WantedStays DEF PassGoal
<1>size. UNCHANGED <<pods, cur, upd>> =>
           \A g \in Groups : /\ Size(g)' = Size(g)
                             /\ PassGroup(pods, g)' = PassGroup(pods, g)
  BY DEF Size, PassGroup, Updated, NotUpdated, Active
<1>1. CASE pc' \in {"idle", "truncate"}
  BY <1>1, <1>only
<1>2. CASE StartReconcile
  BY <1>2, <1>only DEF StartReconcile, StartsClean
<1>3. CASE pc = "revise" /\ BeginSync(Wanted.template)
  <2>1. Wanted' = Wanted /\ ~disturbed
    BY <1>3, WantedStays DEF BeginSync
  <2>2. CASE pc' = "status"
    BY <1>3, <1>only, <2>1, <2>2 DEF BeginSync, BeingDeleted, ReachesGoal
  <2>3. CASE pc' = "create"
    BY <1>3, <1>only, <2>1, <2>3, BeginSyncPlans
  <2>. QED BY <1>3, <2>2, <2>3 DEF BeginSync
<1>4. CASE CreatePod \/ CreateFails
  <2>1. PICK kind \in {"up", "upOld"} :
             /\ plan[kind] > 0 /\ plan' = [plan EXCEPT ![kind] = @ - 1]
             /\ \/ pods' = pods /\ err'
                \/ \E p \in FreePods : pods' = [pods EXCEPT ![p] = Planned(kind)]
    BY <1>4 DEF CreatePod, CreateFails
  <2>2. /\ pc = "create" /\ pc' = "create" /\ ~disturbed /\ (~err' => ~err)
        /\ UNCHANGED <<inst, view, cur, upd>>
    BY <1>4 DEF CreatePod, CreateFails
  <2>3. GrowsToGoal'
    BY <2>1, <2>2, <1>goal, OneCreationGrows
  <2>. QED BY <1>only, <2>2, <2>3
<1>5. CASE AbandonCreates
  BY <1>5, <1>only DEF AbandonCreates, passVars, ReachesGoal
<1>6. CASE ChooseVictims
  <2>1. /\ pc = "create" /\ ~disturbed /\ UNCHANGED <<pods, inst, view, cur, upd>>
        /\ pc' \in {"status", "delete"} /\ (err' => pc' = "status")
        /\ pc' = "status" /\ ~err' => doomed' = {}
    BY <1>6 DEF ChooseVictims, CreatesDone, apiVars
  <2>2. ASSUME ~err'
        PROVE  /\ doomed' \subseteq Active(pods)
               /\ \A g \in Groups :
                    Size(g) = PassGoal(g) + Cardinality(doomed' \cap PassGroup(pods, g))
    BY <1>6, <2>1, <2>2, VictimsAreSurplus
  <2>3. CASE pc' = "status"
    <3>1. ASSUME ~err' PROVE \A g \in Groups : Size(g) = PassGoal(g)
      <4>1. \A g \in Groups : Size(g) = PassGoal(g) + 0 /\ PassGoal(g) \in Nat
        BY <2>1, <2>2, <2>3, <3>1, FS_EmptySet, GroupTypes
      <4>. QED BY <4>1
    <3>. QED BY <1>only, <1>goal, <1>size, <2>1, <2>3, <3>1 DEF ReachesGoal
  <2>4. CASE pc' = "delete"
    <3>1. ~err' /\ Active(pods') = Active(pods)
      BY <2>1, <2>4
    <3>. QED BY <1>only, <1>goal, <1>size, <2>1, <2>2, <2>4, <3>1
             DEF ShrinksToGoal, Victims
  <2>. QED BY <2>1, <2>3, <2>4
<1>7. CASE DeletePod
  <2>1. PICK p \in doomed :
             /\ pods' = [pods EXCEPT ![p] = None] /\ doomed' = doomed \ {p}
             /\ pc' = IF doomed' = {} THEN "status" ELSE "delete"
    BY <1>7 DEF DeletePod, NextVictims
  <2>2. /\ pc = "delete" /\ ~disturbed /\ UNCHANGED <<inst, cur, upd, err>>
        /\ ~err /\ ShrinksToGoal
    BY <1>7 DEF DeletePod, ShrinksToGoal
  <2>3. /\ doomed' \subseteq Active(pods')
        /\ \A g \in Groups : /\ Size(g)' = PassGoal(g)
                                  + Cardinality(doomed' \cap PassGroup(pods, g)')
                             /\ PassGoal(g) \in Nat
    BY <2>1, <2>2, OneDeletion, GroupTypes
  <2>4. CASE doomed' = {}
    <3>1. \A g \in Groups : Size(g)' = PassGoal(g) + 0
      BY <2>3, <2>4, FS_EmptySet
    <3>2. \A g \in Groups : PassGoal(g)' = PassGoal(g)
      BY <1>goal, <2>2
    <3>3. \A g \in Groups : Size(g)' = PassGoal(g)'
      <4>. TAKE g \in Groups
      <4>1. Size(g)' = PassGoal(g) + 0 /\ PassGoal(g) \in Nat /\ PassGoal(g)' = PassGoal(g)
        BY <2>3, <3>1, <3>2
      <4>. QED BY <4>1
    <3>. QED BY <1>only, <2>1, <2>4, <3>3 DEF ReachesGoal
  <2>5. CASE doomed' # {}
    BY <1>only, <1>goal, <2>1, <2>2, <2>3, <2>5 DEF ShrinksToGoal, Victims
  <2>. QED BY <2>4, <2>5
<1>8. CASE DeleteFails
  BY <1>8, <1>only DEF DeleteFails, ReachesGoal
<1>9. CASE UNCHANGED <<pods, disturbed, pc, inst, view, cur, upd, plan, doomed, err>>
  <2>1. CASE pc = "idle"
    BY <1>9, <1>only, <2>1
  <2>2. CASE pc # "idle"
    <3>1. GroupsRight /\ Active(view') = Active(view) /\ Active(pods') = Active(pods)
      BY <1>9
    <3>2. \A g \in Groups : /\ Size(g)' = Size(g) /\ PassGoal(g)' = PassGoal(g)
                            /\ ToMake(g)' = ToMake(g) /\ ToTake(g)' = ToTake(g)
                            /\ Victims(g)' = Victims(g)
      BY <1>9, <1>goal, <1>size, <2>2 DEF ToMake, ToTake, Victims
    <3>3. Wanted' = Wanted
      BY <1>9, <1>goal, <2>2
    <3>4. StartsClean' /\ GrowsToGoal'
      BY <1>9, <3>1, <3>2 DEF StartsClean, GrowsToGoal
    <3>5. ShrinksToGoal'
      BY <1>9, <3>1, <3>2 DEF ShrinksToGoal
    <3>6. ReachesGoal'
      BY <1>9, <3>1, <3>2, <3>3 DEF ReachesGoal
    <3>. QED BY <3>4, <3>5, <3>6
  <2>. QED BY <2>1, <2>2
<1>. QED BY <1>1, <1>2, <1>3, <1>4, <1>5, <1>6, <1>7, <1>8, <1>9, CountingSteps

\* The groups are right in every state of every behaviour.
LEMMA GroupsInvariant == Spec => []GroupInv
<1>1. CountInv /\ [Next]_vars => CountInv'
  BY NextType, NextWorks, NextDeletions, NextStatusBehind, NextStatusDescribes,
     NextRevisionsChosen, NextCounts DEF CountInv, IInv
<1>2. GroupInv /\ [Next]_vars => GroupInv'
  BY <1>1, NextGroups DEF GroupInv
<1>. QED BY <1>2, InitGroups, PTL DEF Spec

-----------------------------------------------------------------------------
(* The refinement of Rollout.                                              *)

Have == [g \in {"new", "old"} |->
           IF Open THEN 0 ELSE Cardinality(PassGroup(pods, g))]
Goal == [g \in {"new", "old"} |-> IF Open THEN 0 ELSE PassGoal(g)]

\* The numbers of an undisturbed pass, and of anything else.
LEMMA MappedNumbers ==
  /\ Open => Have = [g \in Groups |-> 0] /\ Goal = [g \in Groups |-> 0]
  /\ ~Open => /\ Have = [g \in Groups |-> Size(g)]
              /\ Goal = [g \in Groups |-> PassGoal(g)]
BY DEF Have, Goal, Groups, Size

\* Before the first pass nothing is promised.
LEMMA InitPromise == Init => Promise!Init
<1>. SUFFICES ASSUME Init PROVE Promise!Init
  OBVIOUS
<1>1. Open /\ PassPhase = "open"
  BY DEF Init, Open, Syncing, PassPhase
<1>2. Have = [g \in Groups |-> 0] /\ Goal = [g \in Groups |-> 0]
  BY <1>1, MappedNumbers
<1>. QED BY <1>1, <1>2
         DEF Promise!Init, Promise!NoCounts, Promise!Groups, Have, Goal, Groups

\* Every step of the controller, the users and the cluster is a step of Rollout
\* or changes nothing in it.
LEMMA NextPromise ==
  GroupInv /\ GroupInv' /\ [Next]_vars => [Promise!Next]_(Promise!vars)
<1>. SUFFICES ASSUME GroupInv, GroupInv', [Next]_vars
              PROVE  Promise!Next \/ UNCHANGED <<PassPhase, Have, Goal>>
  BY DEF Promise!vars, Have, Goal
<1>. /\ TypeOK /\ CountInv /\ (~disturbed => GroupsRight)
     /\ (~disturbed' => GroupsRight') /\ TypeOK'
  BY DEF GroupInv, CountInv, IInv
<1>leave. CASE Open'
  <2>1. PassPhase' = "open"
    BY <1>leave DEF PassPhase
  <2>2. Have' = [g \in Groups |-> 0] /\ Goal' = [g \in Groups |-> 0]
    BY <1>leave DEF Have, Goal, Groups, Open
  <2>3. Promise!Leave
    BY <2>1, <2>2 DEF Promise!Leave, Promise!NoCounts, Promise!Groups, Have, Goal, Groups
  <2>. QED BY <2>3 DEF Promise!Next
<1>. SUFFICES ASSUME ~Open'
              PROVE  Promise!Next \/ UNCHANGED <<PassPhase, Have, Goal>>
  BY <1>leave
<1>0. /\ pc' \in {"create", "delete", "status"} /\ Wanted'.phase = "live" /\ ~disturbed'
      /\ Have' = [g \in Groups |-> Size(g)'] /\ Goal' = [g \in Groups |-> PassGoal(g)']
      /\ PassPhase' = IF pc' = "create" THEN IF err' THEN "failing" ELSE "grow"
                      ELSE IF err' THEN "failed"
                      ELSE IF pc' = "delete" THEN "shrink" ELSE "done"
      /\ GroupsRight'
  BY DEF Open, Syncing, Have, Goal, Groups, Size, PassPhase
<1>goes. ASSUME pc \in {"create", "delete", "status"}, ~disturbed, UNCHANGED <<inst, cur, upd>>
         PROVE  /\ ~Open /\ GroupsRight
                /\ Have = [g \in Groups |-> Size(g)]
                /\ Goal = [g \in Groups |-> PassGoal(g)]
                /\ Goal' = Goal /\ \A g \in Groups : Size(g) \in Nat /\ PassGoal(g) \in Nat
  <2>1. Wanted' = Wanted /\ ~Open
    BY <1>0, <1>goes, WantedStays DEF Open, Syncing
  <2>2. \A g \in Groups : PassGoal(g)' = PassGoal(g)
    BY <1>goes, <2>1 DEF PassGoal
  <2>. QED BY <1>0, <1>goes, <2>1, <2>2, MappedNumbers, GroupTypes
<1>size. UNCHANGED <<pods, cur, upd>> => \A g \in Groups : Size(g)' = Size(g)
  BY DEF Size, PassGroup, Updated, NotUpdated, Active
<1>. USE DEF Groups
<1>1. CASE pc = "revise" /\ BeginSync(Wanted.template)
  <2>1. Open /\ PassPhase = "open" /\ pc' = "create" /\ ~err'
    <3>1. Wanted' = Wanted /\ pc' = "create" /\ ~disturbed /\ err' = err
      BY <1>0, <1>1, WantedStays DEF BeginSync, BeingDeleted
    <3>. QED BY <1>1, <3>1 DEF Open, Syncing, PassPhase, GroupsRight, StartsClean
  <2>2. \A g \in Groups : Size(g)' \in Nat /\ PassGoal(g)' \in Nat
    <3>1. Wanted' = Wanted /\ Wanted.replicas \in Nat /\ Wanted.partition \in Partitions
      BY <1>1, WantedStays, WantedType DEF BeginSync
    <3>2. /\ EffectivePartition(Wanted.replicas, Wanted.partition) \in Nat
          /\ EffectivePartition(Wanted.replicas, Wanted.partition) <= Wanted.replicas
      BY <3>1, EffectivePartitionRange
    <3>3. \A g \in Groups : PassGoal(g)' \in Nat
      BY <3>1, <3>2 DEF PassGoal
    <3>4. \A g \in Groups : PassGroup(pods, g)' \in SUBSET Pods
      BY DEF PassGroup, Updated, NotUpdated, Active
    <3>. QED BY <3>3, <3>4, ActiveCount DEF Size
  <2>3. Have' \in [Groups -> Nat] /\ Goal' \in [Groups -> Nat]
    BY <1>0, <2>2
  <2>. QED BY <1>0, <2>1, <2>3
           DEF Promise!Next, Promise!Begin, Promise!Counts, Promise!Groups, Have, Goal
<1>2. CASE CreatePod \/ CreateFails
  <2>1. PICK kind \in {"up", "upOld"} :
             /\ plan[kind] > 0 /\ plan' = [plan EXCEPT ![kind] = @ - 1]
             /\ \/ pods' = pods /\ err'
                \/ \E p \in FreePods : pods' = [pods EXCEPT ![p] = Planned(kind)]
    BY <1>2 DEF CreatePod, CreateFails
  <2>2. /\ pc = "create" /\ pc' = "create" /\ ~disturbed /\ (~err' => ~err)
        /\ UNCHANGED <<inst, view, cur, upd>>
    BY <1>0, <1>2 DEF CreatePod, CreateFails
  <2>3. /\ ~Open /\ GrowsToGoal /\ Goal' = Goal
        /\ \A g \in Groups : PassGoal(g)' = PassGoal(g)
    BY <2>2, <1>goes, WantedStays DEF GroupsRight, PassGoal
  <2>4. \/ pods' = pods
        \/ \E g \in Groups : /\ Size(g) < PassGoal(g) /\ Size(g)' = Size(g) + 1
                             /\ \A h \in Groups \ {g} : Size(h)' = Size(h)
    BY <2>1, <2>2, <2>3, OneCreationGrows
  <2>5. /\ PassPhase = (IF err THEN "failing" ELSE "grow")
        /\ PassPhase' = (IF err' THEN "failing" ELSE "grow")
    BY <1>0, <2>2, <2>3 DEF PassPhase
  <2>6. CASE pods' = pods
    <3>1. Have' = Have
      BY <1>0, <1>goes, <1>size, <2>2, <2>6
    <3>2. (Promise!Fail \/ PassPhase' = PassPhase) \/ (err /\ ~err')
      BY <2>3, <2>5, <3>1 DEF Promise!Fail, Have, Goal
    <3>. QED BY <2>2, <2>3, <3>1, <3>2 DEF Promise!Next
  <2>7. ASSUME NEW g \in Groups, Size(g) < PassGoal(g), Size(g)' = Size(g) + 1,
               \A h \in Groups \ {g} : Size(h)' = Size(h)
        PROVE  Promise!Make
    <3>1. Have[g] < Goal[g] /\ Have' = [Have EXCEPT ![g] = @ + 1]
      BY <1>0, <1>goes, <2>2, <2>7
    <3>2. PassPhase \in {"grow", "failing"} /\ PassPhase' \in {PassPhase, "failing"}
      BY <2>2, <2>5
    <3>. QED BY <2>3, <3>1, <3>2 DEF Promise!Make, Promise!Groups, Have, Goal
  <2>. QED BY <2>4, <2>6, <2>7 DEF Promise!Next
<1>3. CASE AbandonCreates
  <2>1. /\ pc = "create" /\ pc' = "status" /\ err /\ err'
        /\ UNCHANGED <<pods, inst, cur, upd, disturbed>>
    BY <1>3 DEF AbandonCreates, apiVars, passVars
  <2>2. ~Open /\ Have' = Have /\ Goal' = Goal
    BY <1>0, <1>goes, <1>size, <2>1
  <2>3. PassPhase = "failing" /\ PassPhase' = "failed"
    BY <1>0, <2>1, <2>2 DEF PassPhase
  <2>. QED BY <2>2, <2>3 DEF Promise!Next, Promise!Fail, Have, Goal
<1>4. CASE ChooseVictims
  <2>1. /\ pc = "create" /\ pc' \in {"status", "delete"} /\ ~err /\ ~disturbed
        /\ UNCHANGED <<pods, inst, cur, upd>> /\ (err' => pc' = "status")
    BY <1>0, <1>4 DEF ChooseVictims, CreatesDone, apiVars
  <2>2. /\ ~Open /\ Have' = Have /\ Goal' = Goal
        /\ Have = [g \in Groups |-> Size(g)] /\ Goal = [g \in Groups |-> PassGoal(g)]
    BY <1>0, <1>goes, <1>size, <2>1
  <2>3. PassPhase = "grow"
    BY <2>1, <2>2 DEF PassPhase
  <2>4. CASE err'
    BY <1>0, <2>1, <2>2, <2>3, <2>4 DEF Promise!Next, Promise!Fail, Have, Goal
  <2>5. CASE ~err' /\ pc' = "status"
    <3>1. \A g \in Groups : Size(g)' = PassGoal(g)'
      BY <1>0, <2>5 DEF GroupsRight, ReachesGoal
    <3>2. Have' = Goal'
      BY <1>0, <3>1
    <3>. QED BY <1>0, <2>2, <2>3, <2>5, <3>2 DEF Promise!Next, Promise!Finish, Have, Goal
  <2>6. CASE ~err' /\ pc' = "delete"
    <3>1. \A g \in Groups : Have[g] >= Goal[g]
      <4>1. /\ GrowsToGoal /\ plan.up = 0 /\ plan.upOld = 0
            /\ plan.down \in Nat /\ plan.downOld \in Nat
        BY <1>4, <2>1 DEF GroupsRight, ChooseVictims, CreatesDone, TypeOK, PassTypeOK
      <4>2. \A g \in Groups : Size(g) + ToMake(g) = PassGoal(g) + ToTake(g)
        BY <2>1, <4>1 DEF GrowsToGoal
      <4>3. \A g \in Groups : /\ ToMake(g) = 0 /\ ToTake(g) \in Nat
                              /\ Size(g) \in Nat /\ PassGoal(g) \in Nat
        BY <2>1, <4>1, GroupTypes DEF ToMake, ToTake
      <4>4. \A g \in Groups : Size(g) >= PassGoal(g)
        BY <4>2, <4>3
      <4>. QED BY <2>2, <4>4
    <3>2. PassPhase' = "shrink"
      BY <1>0, <2>6
    <3>. QED BY <2>2, <2>3, <3>1, <3>2
             DEF Promise!Next, Promise!StartShrinking, Promise!Groups, Have, Goal
  <2>. QED BY <2>1, <2>4, <2>5, <2>6
<1>5. CASE DeletePod \/ DeleteFails
  <2>1. PICK p \in doomed :
             \/ pods' = pods /\ DeleteFails
             \/ pods' = [pods EXCEPT ![p] = None]
    BY <1>5 DEF DeletePod, DeleteFails, NextVictims
  <2>2. /\ pc = "delete" /\ pc' \in {"delete", "status"} /\ ~disturbed
        /\ UNCHANGED <<inst, cur, upd>>
        /\ DeleteFails => err' /\ pc' = "status"
        /\ DeletePod => err' = err
    BY <1>0, <1>5 DEF DeletePod, DeleteFails
  <2>3. /\ ~Open /\ Goal' = Goal /\ ShrinksToGoal /\ ~err
        /\ Have = [g \in Groups |-> Size(g)] /\ Goal = [g \in Groups |-> PassGoal(g)]
    BY <1>goes, <2>2 DEF GroupsRight, ShrinksToGoal
  <2>4. PassPhase = "shrink"
    BY <2>2, <2>3 DEF PassPhase
  <2>5. CASE pods' = pods /\ DeleteFails
    <3>1. Have' = Have /\ PassPhase' = "failed"
      BY <1>0, <1>goes, <1>size, <2>2, <2>5
    <3>. QED BY <2>3, <2>4, <3>1 DEF Promise!Next, Promise!Fail, Have, Goal
  <2>6. CASE pods' = [pods EXCEPT ![p] = None]
    <3>1. PICK g \in Groups : /\ Size(g) > PassGoal(g) /\ Size(g)' = Size(g) - 1
                              /\ \A h \in Groups \ {g} : Size(h)' = Size(h)
      BY <2>2, <2>3, <2>6, OneDeletion
    <3>2. Have[g] > Goal[g] /\ Have' = [Have EXCEPT ![g] = @ - 1]
      BY <1>0, <2>3, <3>1
    <3>3. CASE PassPhase' \in {"shrink", "failed"}
      BY <2>3, <2>4, <3>2, <3>3 DEF Promise!Next, Promise!Remove, Promise!Groups, Have, Goal
    <3>4. CASE PassPhase' = "done"
      <4>1. pc' = "status" /\ ~err'
        BY <1>0, <2>2, <3>4
      <4>2. \A h \in Groups : Size(h)' = PassGoal(h)'
        BY <1>0, <4>1 DEF GroupsRight, ReachesGoal
      <4>3. Have' = Goal'
        BY <1>0, <4>2
      <4>. QED BY <2>3, <2>4, <3>2, <3>4, <4>3
               DEF Promise!Next, Promise!Finish, Promise!Groups, Have, Goal
    <3>. QED BY <1>0, <2>2, <3>3, <3>4
  <2>. QED BY <2>1, <2>5, <2>6
<1>6. CASE UNCHANGED <<pods, disturbed, pc, inst, view, cur, upd, plan, doomed, err>>
  <2>1. ~Open /\ Have' = Have /\ Goal' = Goal
    BY <1>0, <1>6, <1>goes, <1>size
  <2>. QED BY <1>0, <1>6, <2>1 DEF PassPhase
<1>7. ~StartReconcile
  BY <1>0 DEF StartReconcile
<1>. QED BY <1>0, <1>1, <1>2, <1>3, <1>4, <1>5, <1>6, <1>7, CountingSteps

-----------------------------------------------------------------------------
\* A pass does what Rollout promises: createPods makes what the groups are
\* missing, deletePods takes no more than their surplus and only after every
\* creation succeeded, and no error is reported for exactly the numbers asked for.
THEOREM PassAlwaysKeepsPromise == Spec => PassKeepsPromise
<1>. QED BY GroupsInvariant, InitPromise, NextPromise, PTL
         DEF Spec, PassKeepsPromise, Promise!Spec

\* A pass that ends its work on the pods without an error has reached the numbers
\* that calculateDiffs was asked for.
THEOREM PassAlwaysReachesTarget == Spec => []PassReachesTarget
<1>1. ASSUME GroupInv PROVE PassReachesTarget
  <2>. SUFFICES ASSUME pc = "status", Wanted.phase = "live", ~err, ~disturbed
                PROVE  LET new == Cardinality(Updated(pods, upd))
                           old == Cardinality(NotUpdated(pods, upd))
                           target == EffectivePartition(Wanted.replicas, Wanted.partition)
                       IN IF cur # upd THEN new = target /\ old = Wanted.replicas - target
                                       ELSE new + old = Wanted.replicas
    BY DEF PassReachesTarget, Syncing
  <2>1. Size("new") = PassGoal("new") /\ Size("old") = PassGoal("old")
    BY <1>1 DEF GroupInv, GroupsRight, ReachesGoal, Groups
  <2>2. CASE cur # upd
    BY <2>1, <2>2 DEF Size, PassGroup, PassGoal
  <2>3. CASE cur = upd
    <3>1. Cardinality(Active(pods)) =
            Cardinality(Updated(pods, upd)) + Cardinality(NotUpdated(pods, upd))
      <4>1. /\ Updated(pods, upd) \cup NotUpdated(pods, upd) = Active(pods)
            /\ Updated(pods, upd) \cap NotUpdated(pods, upd) = {}
            /\ Updated(pods, upd) \in SUBSET Pods /\ NotUpdated(pods, upd) \in SUBSET Pods
        BY DEF Updated, NotUpdated, Active
      <4>2. Cardinality(Active(pods)) = Cardinality(Updated(pods, upd))
              + Cardinality(NotUpdated(pods, upd)) - Cardinality({})
        BY <4>1, ActiveCount, FS_Union
      <4>. QED BY <4>1, <4>2, ActiveCount, FS_EmptySet
    <3>2. Cardinality(Active(pods)) = Wanted.replicas
      BY <2>1, <2>3 DEF Size, PassGroup, PassGoal
    <3>. QED BY <2>3, <3>1, <3>2
  <2>. QED BY <2>2, <2>3
<1>. QED BY <1>1, GroupsInvariant, PTL
=============================================================================
