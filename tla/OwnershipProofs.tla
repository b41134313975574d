--------------------------- MODULE OwnershipProofs ---------------------------
(***************************************************************************)
(* Proofs about Ownership for all workloads, pods, labels, selectors,      *)
(* replica counts and bounds.                                              *)
(***************************************************************************)
EXTENDS Ownership, FiniteSetTheorems, TLAPS

\* What has not been written since the informer saw it is cached as it is.
CacheFollows == \A p \in Pods : p \notin outdated => podCache[p] = pods[p]

\* The same for what the pass listed, which is not newer than the cache.
ViewFollows ==
  pc # "idle" => /\ outdated \subseteq stale
                 /\ \A p \in Pods : p \notin stale => view[p] = pods[p]

\* Nobody's uid is no workload's.
UidsAreSomebody ==
  \A n \in Names : /\ works[n].phase # "absent" => works[n].uid # 0
                   /\ workCache[n].phase # "absent" => workCache[n].uid # 0

\* A pod the cache shows with an owner has no other one: to adopt it, a pass has
\* to have seen it without.
CachedOwners ==
  \A p \in Pods : podCache[p] # None /\ podCache[p].owner # 0 /\ pods[p] # None
                    => pods[p].owner \in {podCache[p].owner, 0}

\* What is still to do is to adopt what matches and release what does not.
TodoAsListed ==
  \A p \in todo : /\ view[p] # None
                  /\ IF view[p].owner = 0 THEN view[p].label \in inst.selector
                     ELSE /\ view[p].owner = inst.uid
                          /\ view[p].label \notin inst.selector

\* The pass has claimed pods that it listed; no pass, no pods.
ClaimedAsListed ==
  /\ claimed \subseteq Exists(view)
  /\ pc = "idle" => claimed = {} /\ todo = {}

IInv == /\ TypeOK /\ CacheFollows /\ ViewFollows /\ UidsAreSomebody
        /\ CachedOwners /\ TodoAsListed /\ ClaimedAsListed /\ ClaimedStayOurs

-----------------------------------------------------------------------------
(* Types.                                                                  *)

\* The values that stand for nothing have the types of their variables.
LEMMA ConstantTypes ==
  /\ Absent \in Workload /\ NoPods \in [Pods -> Pod \cup {None}]
  /\ None \notin Pod /\ None \notin Names
BY NoneAssumption DEF Absent, Workload, Phases, NoPods, Pod

\* A pod that is there is a pod, in every copy.
LEMMA PodType ==
  ASSUME TypeOK, NEW p \in Pods
  PROVE  /\ pods[p] # None => pods[p] \in Pod
         /\ podCache[p] # None => podCache[p] \in Pod
         /\ view[p] # None => view[p] \in Pod
BY DEF TypeOK

\* A pod with another label or another owner is a pod.
LEMMA ChangedPodType ==
  ASSUME NEW pod \in Pod, NEW l \in Labels, NEW o \in Nat
  PROVE  /\ [pod EXCEPT !.label = l] \in Pod /\ [pod EXCEPT !.owner = o] \in Pod
         /\ [label |-> l, owner |-> o] \in Pod
         /\ [pod EXCEPT !.label = l].owner = pod.owner
         /\ [pod EXCEPT !.owner = o].owner = o
BY DEF Pod

\* A write keeps the types of what it writes.
LEMMA SetPodType ==
  ASSUME TypeOK, NEW p \in Pods, NEW new \in Pod \cup {None}, SetPod(p, new)
  PROVE  /\ pods' \in [Pods -> Pod \cup {None}]
         /\ outdated' \subseteq Pods /\ stale' \subseteq Pods
<1>1. pods' \in [Pods -> Pod \cup {None}]
  BY DEF TypeOK, SetPod, WritePod
<1>2. outdated' \subseteq Pods /\ stale' \subseteq Pods
  BY DEF TypeOK, SetPod, WritePod
<1>. QED BY <1>1, <1>2

\* Spending leaves a bound.
LEMMA SpendType ==
  ASSUME TypeOK, NEW act \in Acts, Spend(act)
  PROVE  budget' \in [Acts -> Nat]
BY DEF Spend, TypeOK

\* The locals of a pass that is over.
LEMMA ResetPassType ==
  ASSUME ResetPass
  PROVE  /\ name' = None /\ inst' \in Workload /\ view' \in [Pods -> Pod \cup {None}]
         /\ stale' = {} /\ todo' = {} /\ claimed' = {}
         /\ adoptable' \in {"unknown", "yes", "no"} /\ failed' \in BOOLEAN
         /\ missing' \in Int
<1>1. inst' \in Workload /\ view' \in [Pods -> Pod \cup {None}]
  BY ConstantTypes DEF ResetPass
<1>2. failed' \in BOOLEAN
  BY DEF ResetPass
<1>3. missing' \in Int /\ adoptable' \in {"unknown", "yes", "no"}
  BY DEF ResetPass
<1>. QED BY <1>1, <1>2, <1>3 DEF ResetPass

\* A workload that users write has a workload's type.
LEMMA WrittenWorkloadType ==
  ASSUME TypeOK, NEW n \in Names, NEW s \in Selectors[n]
  PROVE  /\ s \in (SUBSET Labels) \cup {Invalid}
         /\ [works EXCEPT ![n] = [phase |-> "live", uid |-> lastUid + 1, selector |-> s]]
              \in [Names -> Workload]
         /\ [works EXCEPT ![n].selector = s] \in [Names -> Workload]
<1>1. s \in (SUBSET Labels) \cup {Invalid}
  BY LabelsAssumption
<1>2. [phase |-> "live", uid |-> lastUid + 1, selector |-> s] \in Workload
  BY <1>1 DEF TypeOK, Workload, Phases
<1>3. works[n] \in Workload /\ works \in [Names -> Workload]
  BY DEF TypeOK
<1>4. [works[n] EXCEPT !.selector = s] \in Workload
  BY <1>1, <1>3 DEF Workload
<1>. QED BY <1>1, <1>2, <1>3, <1>4

\* So does one that is being deleted, or gone.
LEMMA DeletedWorkloadType ==
  ASSUME TypeOK, NEW n \in Names, NEW phase \in Phases
  PROVE  /\ [works EXCEPT ![n] = Absent] \in [Names -> Workload]
         /\ [works EXCEPT ![n].phase = phase] \in [Names -> Workload]
<1>1. works[n] \in Workload /\ works \in [Names -> Workload]
  BY DEF TypeOK
<1>2. [works[n] EXCEPT !.phase = phase] \in Workload
  BY <1>1 DEF Workload
<1>. QED BY <1>1, <1>2, ConstantTypes

\* Every variable starts with its type.
LEMMA InitType == Init => TypeOK
<1>. SUFFICES ASSUME Init PROVE TypeOK
  OBVIOUS
<1>1. Cardinality(Names) \in Nat
  BY NamesAssumption, FS_CardinalityType
<1>2. UNION {Selectors[n] : n \in Names} \subseteq (SUBSET Labels) \cup {Invalid}
  BY LabelsAssumption
<1>. DEFINE Fresh == [phase : {"live"}, uid : 1..Cardinality(Names),
                       selector : UNION {Selectors[n] : n \in Names}]
<1>3. Fresh \subseteq Workload
  <2>1. {"live"} \subseteq Phases /\ 1..Cardinality(Names) \subseteq Nat
    BY <1>1 DEF Phases
  <2>. QED BY <2>1, <1>2 DEF Workload
<1>4. works \in [Names -> Workload] /\ workCache = works
  BY <1>3 DEF Init
<1>5. /\ inst \in Workload /\ pods \in [Pods -> Pod \cup {None}]
      /\ view = pods /\ podCache = pods
  BY ConstantTypes DEF Init
<1>6. missing \in Int /\ lastUid \in Nat /\ budget \in [Acts -> Nat]
  BY <1>1, BudgetAssumption DEF Init
<1>7. failed \in BOOLEAN
  BY DEF Init
<1>. QED BY <1>4, <1>5, <1>6, <1>7 DEF Init, TypeOK

\* What is still to claim are pods that were listed.
LEMMA TodoType ==
  ASSUME IInv, NEW p \in todo
  PROVE  p \in Pods /\ view[p] \in Pod
BY PodType DEF IInv, TodoAsListed, TypeOK

\* A pod with the owner of a pass or with none is a pod.
LEMMA ClaimedPodType ==
  ASSUME TypeOK, NEW pod \in Pod
  PROVE  /\ [pod EXCEPT !.owner = inst.uid] \in Pod
         /\ [pod EXCEPT !.owner = 0] \in Pod
BY DEF TypeOK, Workload, Pod

\* So is the pod that a pass makes.
LEMMA NewPodType ==
  ASSUME TypeOK, pc = "sync"
  PROVE  NewPod \in Pod
<1>1. Template[name] \in Labels /\ inst.uid \in Nat
  BY LabelsAssumption DEF TypeOK, Workload
<1>. QED BY <1>1 DEF NewPod, ControllerRef, Pod

\* A failing creation or deletion makes a pod nobody has seen, removes one, or
\* does nothing.
LEMMA SyncFailsWrites ==
  ASSUME TypeOK, SyncFails
  PROVE  \/ UNCHANGED <<pods, outdated>>
         \/ \E p \in Pods, new \in Pod \cup {None} :
               WritePod(p, new) /\ (new = None \/ Unused(p))
<1>1. NewPod \in Pod /\ claimed \subseteq Pods
  BY NewPodType DEF SyncFails, TypeOK
<1>2. CASE \E p \in Pods : Unused(p) /\ WritePod(p, NewPod)
  BY <1>1, <1>2
<1>3. CASE \E p \in claimed : WritePod(p, None)
  BY <1>1, <1>3
<1>. QED BY <1>2, <1>3 DEF SyncFails

\* Claimed pods can be counted.
LEMMA ClaimedFinite ==
  ASSUME TypeOK
  PROVE  Cardinality(claimed) \in Nat
BY FS_Subset, FS_CardinalityType, NamesAssumption DEF TypeOK

\* Every step keeps the types.
LEMMA TypeStep == IInv /\ [Next]_vars => TypeOK'
<1>. SUFFICES ASSUME IInv, [Next]_vars PROVE TypeOK'
  OBVIOUS
<1>. TypeOK
  BY DEF IInv
<1>. USE DEF apiVars, cacheVars, passVars
<1>1. CASE UserCreates
  <2>0. PICK n \in Names : \E s \in Selectors[n] :
          works' = [works EXCEPT ![n] = [phase |-> "live", uid |-> lastUid + 1,
                                         selector |-> s]]
    BY <1>1 DEF UserCreates
  <2>1. PICK s \in Selectors[n] :
          works' = [works EXCEPT ![n] = [phase |-> "live", uid |-> lastUid + 1,
                                         selector |-> s]]
    BY <2>0
  <2>2. works' \in [Names -> Workload]
    BY <2>1, WrittenWorkloadType
  <2>3. lastUid' \in Nat /\ budget' \in [Acts -> Nat]
    BY <1>1, SpendType DEF UserCreates, TypeOK, Acts
  <2>. QED BY <1>1, <2>2, <2>3 DEF UserCreates, TypeOK
<1>2. CASE UserDeletes
  <2>1. PICK n \in Names :
          \/ works' = [works EXCEPT ![n] = Absent]
          \/ \E phase \in Phases : works' = [works EXCEPT ![n].phase = phase]
    BY <1>2 DEF UserDeletes, Phases
  <2>2. works' \in [Names -> Workload]
    <3>1. ASSUME NEW phase \in Phases, works' = [works EXCEPT ![n].phase = phase]
          PROVE  works' \in [Names -> Workload]
      BY <3>1, DeletedWorkloadType
    <3>2. ASSUME works' = [works EXCEPT ![n] = Absent] PROVE works' \in [Names -> Workload]
      BY <3>2, DeletedWorkloadType DEF Phases
    <3>. QED BY <2>1, <3>1, <3>2
  <2>3. budget' \in [Acts -> Nat]
    BY <1>2, SpendType DEF UserDeletes, Acts
  <2>. QED BY <1>2, <2>2, <2>3 DEF UserDeletes, TypeOK
<1>3. CASE UserEditsSelector
  <2>0. PICK n \in Names : \E s \in Selectors[n] : works' = [works EXCEPT ![n].selector = s]
    BY <1>3 DEF UserEditsSelector
  <2>1. PICK s \in Selectors[n] : works' = [works EXCEPT ![n].selector = s]
    BY <2>0
  <2>2. works' \in [Names -> Workload]
    BY <2>1, WrittenWorkloadType
  <2>3. budget' \in [Acts -> Nat]
    BY <1>3, SpendType DEF UserEditsSelector, Acts
  <2>. QED BY <1>3, <2>2, <2>3 DEF UserEditsSelector, TypeOK
<1>4. CASE UserRelabels
  <2>1. PICK p \in Exists(pods), l \in Labels : SetPod(p, [pods[p] EXCEPT !.label = l])
    BY <1>4 DEF UserRelabels
  <2>2. p \in Pods /\ [pods[p] EXCEPT !.label = l] \in Pod
    BY <2>1, PodType, ChangedPodType DEF Exists
  <2>3. budget' \in [Acts -> Nat]
    BY <1>4, SpendType DEF UserRelabels, Acts
  <2>. QED BY <1>4, <2>1, <2>2, <2>3, SetPodType DEF UserRelabels, TypeOK
<1>5. CASE UserCreatesPod
  <2>1. PICK p \in Pods, l \in Labels : SetPod(p, [label |-> l, owner |-> 0])
    BY <1>5 DEF UserCreatesPod
  <2>2. [label |-> l, owner |-> 0] \in Pod
    BY <2>1 DEF Pod
  <2>3. budget' \in [Acts -> Nat]
    BY <1>5, SpendType DEF UserCreatesPod, Acts
  <2>. QED BY <1>5, <2>1, <2>2, <2>3, SetPodType DEF UserCreatesPod, TypeOK
<1>6. CASE PodLost
  <2>1. PICK p \in Pods : SetPod(p, None)
    BY <1>6 DEF PodLost, Exists
  <2>3. budget' \in [Acts -> Nat]
    BY <1>6, SpendType DEF PodLost, Acts
  <2>. QED BY <1>6, <2>1, <2>3, SetPodType DEF PodLost, TypeOK
<1>7. CASE CollectPod
  <2>1. PICK p \in Pods : SetPod(p, None)
    BY <1>7 DEF CollectPod, Exists
  <2>. QED BY <1>7, <2>1, SetPodType DEF CollectPod, TypeOK
<1>8. CASE OrphanPod
  <2>1. PICK p \in Pods : pods[p] # None /\ SetPod(p, [pods[p] EXCEPT !.owner = 0])
    BY <1>8 DEF OrphanPod, Exists, OwnedBy
  <2>2. [pods[p] EXCEPT !.owner = 0] \in Pod
    BY <2>1, PodType DEF Pod
  <2>. QED BY <1>8, <2>1, <2>2, SetPodType DEF OrphanPod, TypeOK
<1>9. CASE EndDeletion
  <2>1. PICK n \in Names : works' = [works EXCEPT ![n] = Absent]
    BY <1>9 DEF EndDeletion
  <2>2. works' \in [Names -> Workload]
    BY <2>1, DeletedWorkloadType DEF Phases
  <2>. QED BY <1>9, <2>2 DEF EndDeletion, TypeOK
<1>10. CASE SyncWorks
  BY <1>10 DEF SyncWorks, TypeOK
<1>11. CASE SyncPods
  BY <1>11 DEF SyncPods, TypeOK
<1>12. ASSUME NEW n \in Names, Resync(n) PROVE TypeOK'
  BY <1>12 DEF Resync, TypeOK
<1>13. ASSUME NEW n \in Names, SkipReconcile(n) PROVE TypeOK'
  BY <1>13 DEF SkipReconcile, TypeOK
<1>14. ASSUME NEW n \in Names, StartReconcile(n) PROVE TypeOK'
  <2>1. claimed' \subseteq Pods /\ todo' \subseteq Pods
    BY <1>14 DEF StartReconcile, Orphans, OwnedBy, Matches, Exists
  <2>2. inst' \in Workload /\ view' \in [Pods -> Pod \cup {None}] /\ stale' \subseteq Pods
    BY <1>14 DEF StartReconcile, TypeOK
  <2>. QED BY <1>14, <2>1, <2>2 DEF StartReconcile, TypeOK
<1>15. CASE Release
  <2>1. PICK p \in todo : SetPod(p, [view[p] EXCEPT !.owner = 0]) /\ todo' = todo \ {p}
    BY <1>15 DEF Release
  <2>2. p \in Pods /\ [view[p] EXCEPT !.owner = 0] \in Pod
    BY <2>1, TodoType, ClaimedPodType
  <2>. QED BY <1>15, <2>1, <2>2, SetPodType DEF Release, TypeOK
<1>16. CASE Adopt
  <2>1. PICK p \in todo : /\ SetPod(p, [view[p] EXCEPT !.owner = inst.uid])
                          /\ todo' = todo \ {p} /\ claimed' = claimed \cup {p}
                          /\ adoptable' = "yes"
    BY <1>16 DEF Adopt, ControllerRef
  <2>2. p \in Pods /\ [view[p] EXCEPT !.owner = inst.uid] \in Pod
    BY <2>1, TodoType, ClaimedPodType
  <2>. QED BY <1>16, <2>1, <2>2, SetPodType DEF Adopt, TypeOK
<1>17. CASE ClaimFails
  <2>1. PICK p \in todo :
          /\ todo' = todo \ {p} /\ adoptable' \in {adoptable, "yes", "no"}
          /\ \/ UnchangedPods
             \/ \E o \in {inst.uid, 0} : SetPod(p, [view[p] EXCEPT !.owner = o])
    BY <1>17 DEF ClaimFails, AskOwner, ControllerRef
  <2>2. p \in Pods /\ \A o \in {inst.uid, 0} : [view[p] EXCEPT !.owner = o] \in Pod
    BY <2>1, TodoType, ClaimedPodType
  <2>3. pods' \in [Pods -> Pod \cup {None}] /\ outdated' \subseteq Pods /\ stale' \subseteq Pods
    BY <2>1, <2>2, SetPodType DEF UnchangedPods, TypeOK
  <2>4. budget' \in [Acts -> Nat]
    BY <1>17, SpendType DEF ClaimFails, TypeOK, Acts
  <2>5. failed' \in BOOLEAN
    BY <1>17 DEF ClaimFails
  <2>. QED BY <1>17, <2>1, <2>3, <2>4, <2>5 DEF ClaimFails, TypeOK
<1>18. CASE EndClaims
  <2>1. CASE failed
    <3>1. ResetPass /\ pc' = "idle" /\ queued' = queued \cup {name} /\ name \in Names
      BY <1>18, <2>1 DEF EndClaims, Requeue, TypeOK
    <3>. QED BY <1>18, <3>1, ResetPassType DEF EndClaims, TypeOK
  <2>2. CASE ~failed
    <3>1. missing' \in Int
      BY <1>18, <2>2, ClaimedFinite, ReplicasAssumption DEF EndClaims
    <3>. QED BY <1>18, <2>2, <3>1 DEF EndClaims, TypeOK
  <2>. QED BY <2>1, <2>2
<1>19. CASE CreatePod
  <2>1. PICK p \in Pods : SetPod(p, NewPod)
    BY <1>19 DEF CreatePod
  <2>2. NewPod \in Pod
    BY <1>19, NewPodType DEF CreatePod
  <2>3. missing' \in Int
    BY <1>19 DEF CreatePod, TypeOK
  <2>. QED BY <1>19, <2>1, <2>2, <2>3, SetPodType DEF CreatePod, TypeOK
<1>20. CASE DeletePod
  <2>1. PICK p \in claimed : SetPod(p, None) /\ claimed' = claimed \ {p}
    BY <1>20 DEF DeletePod
  <2>2. p \in Pods
    BY <2>1 DEF TypeOK
  <2>3. missing' \in Int
    BY <1>20 DEF DeletePod, TypeOK
  <2>. QED BY <1>20, <2>1, <2>2, <2>3, SetPodType DEF DeletePod, TypeOK
<1>21. CASE SyncFails
  <2>1. ResetPass /\ pc' = "idle" /\ queued' = queued \cup {name} /\ name \in Names
    BY <1>21 DEF SyncFails, Requeue, TypeOK
  <2>2. budget' \in [Acts -> Nat]
    BY <1>21, SpendType DEF SyncFails, TypeOK, Acts
  <2>3. pods' \in [Pods -> Pod \cup {None}] /\ outdated' \subseteq Pods
    <3>1. CASE UNCHANGED <<pods, outdated>>
      BY <3>1 DEF TypeOK
    <3>2. CASE \E p \in Pods, new \in Pod \cup {None} : WritePod(p, new)
      BY <3>2 DEF WritePod, TypeOK
    <3>. QED BY <1>21, <3>1, <3>2, SyncFailsWrites
  <2>. QED BY <1>21, <2>1, <2>2, <2>3, ResetPassType DEF SyncFails, TypeOK
<1>22. CASE EndReconcile
  BY <1>22, ResetPassType DEF EndReconcile, TypeOK
<1>23. CASE Crash
  <2>1. budget' \in [Acts -> Nat] /\ ResetPass
    BY <1>23, SpendType DEF Crash, Acts
  <2>2. /\ workCache' \in [Names -> Workload] /\ podCache' \in [Pods -> Pod \cup {None}]
        /\ outdated' \subseteq Pods /\ queued' \subseteq Names
    BY <1>23 DEF Crash, TypeOK
  <2>. QED BY <1>23, <2>1, <2>2, ResetPassType DEF Crash, TypeOK
<1>24. CASE UNCHANGED vars
  BY <1>24 DEF vars, TypeOK
<1>. QED
  BY <1>1, <1>2, <1>3, <1>4, <1>5, <1>6, <1>7, <1>8, <1>9, <1>10, <1>11, <1>12, <1>13,
     <1>14, <1>15, <1>16, <1>17, <1>18, <1>19, <1>20, <1>21, <1>22, <1>23, <1>24
     DEF Next, Environment, Claims, Sync

-----------------------------------------------------------------------------
(* What the cache, the pass and the pods know of each other.               *)

\* A write that gives no pod an owner, or makes one that nobody has seen.
Harmless(p, new) ==
  \/ new = None \/ Unused(p)
  \/ pods[p] # None /\ new.owner \in {pods[p].owner, 0}

\* The part of the invariant that is about pods.
PodsInv == /\ CacheFollows /\ ViewFollows /\ CachedOwners
           /\ TodoAsListed /\ ClaimedAsListed /\ ClaimedStayOurs

\* Whatever is written, caches and lists know what is out of date.
LEMMA WriteOutdates ==
  ASSUME IInv, NEW p \in Pods, NEW new \in Pod \cup {None}, SetPod(p, new),
         UNCHANGED <<pc, podCache, view>>
  PROVE  /\ CacheFollows' /\ ViewFollows'
         /\ \A q \in Pods \ {p} : pods'[q] = pods[q]
         /\ pods'[p] = new
<1>1. \A q \in Pods \ {p} : pods'[q] = pods[q]
  BY DEF SetPod, WritePod, IInv, TypeOK
<1>2. pods'[p] = new
  BY DEF SetPod, WritePod, IInv, TypeOK
<1>3. CacheFollows'
  BY <1>1 DEF SetPod, WritePod, CacheFollows, IInv
<1>4. ViewFollows'
  BY <1>1 DEF SetPod, WritePod, ViewFollows, IInv
<1>. QED BY <1>1, <1>2, <1>3, <1>4

\* Such a write disturbs nothing, however little remains to be done.
LEMMA HarmlessWrite ==
  ASSUME IInv, NEW p \in Pods, NEW new \in Pod \cup {None}, SetPod(p, new),
         Harmless(p, new), UNCHANGED <<pc, podCache, view, inst>>,
         todo' \subseteq todo, claimed' \subseteq claimed
  PROVE  PodsInv'
<1>1. /\ CacheFollows' /\ ViewFollows'
      /\ \A q \in Pods \ {p} : pods'[q] = pods[q]
      /\ pods'[p] = new
  BY WriteOutdates
<1>2. CachedOwners'
  BY <1>1 DEF CachedOwners, IInv, Harmless, Unused
<1>3. TodoAsListed' /\ ClaimedAsListed'
  BY DEF TodoAsListed, ClaimedAsListed, IInv, Exists
<1>4. ClaimedStayOurs'
  BY <1>1 DEF ClaimedStayOurs, ClaimedAsListed, IInv, Harmless, Unused, Exists
<1>. QED BY <1>1, <1>2, <1>3, <1>4 DEF PodsInv

\* What is still to be claimed and is current is as it was listed, and as it is
\* cached.
LEMMA CurrentAsListed ==
  ASSUME IInv, pc = "claim", NEW p \in todo, Current(p)
  PROVE  p \in Pods /\ pods[p] = view[p] /\ podCache[p] = view[p]
BY DEF IInv, ViewFollows, CacheFollows, Current, TypeOK

\* To adopt a current orphan disturbs nothing: the cache shows it as an orphan too.
LEMMA AdoptingWrite ==
  ASSUME IInv, pc = "claim", NEW p \in todo, view[p].owner = 0, Current(p),
         SetPod(p, [view[p] EXCEPT !.owner = inst.uid]),
         UNCHANGED <<pc, podCache, view, inst>>,
         todo' \subseteq todo, claimed' \subseteq claimed \cup {p}
  PROVE  PodsInv'
<1>1. p \in Pods /\ view[p] \in Pod /\ pods[p] = view[p] /\ podCache[p] = view[p]
  BY CurrentAsListed, TodoType
<1>2. [view[p] EXCEPT !.owner = inst.uid] \in Pod
  BY <1>1, ClaimedPodType DEF IInv
<1>3. /\ CacheFollows' /\ ViewFollows'
      /\ \A q \in Pods \ {p} : pods'[q] = pods[q]
      /\ pods'[p] = [view[p] EXCEPT !.owner = inst.uid]
  BY <1>1, <1>2, WriteOutdates
<1>4. pods'[p].owner = inst.uid
  BY <1>1, <1>3 DEF Pod
<1>5. CachedOwners'
  BY <1>1, <1>3 DEF CachedOwners, IInv
<1>6. TodoAsListed' /\ ClaimedAsListed'
  BY <1>1, ConstantTypes DEF TodoAsListed, ClaimedAsListed, IInv, Exists
<1>7. ClaimedStayOurs'
  BY <1>3, <1>4 DEF ClaimedStayOurs, ClaimedAsListed, IInv, Exists
<1>. QED BY <1>3, <1>5, <1>6, <1>7 DEF PodsInv

\* To release a current pod is harmless.
LEMMA ReleaseHarmless ==
  ASSUME IInv, pc = "claim", NEW p \in todo, Current(p)
  PROVE  Harmless(p, [view[p] EXCEPT !.owner = 0])
<1>1. view[p] \in Pod /\ pods[p] = view[p]
  BY CurrentAsListed, TodoType
<1>2. [view[p] EXCEPT !.owner = 0].owner = 0
  BY <1>1 DEF Pod
<1>. QED BY <1>1, <1>2, ConstantTypes DEF Harmless

\* A step that writes no pod and leaves the pass its view disturbs nothing.
LEMMA NoWrite ==
  ASSUME IInv, UNCHANGED <<pods, podCache, outdated, stale, pc, view, inst>>,
         todo' \subseteq todo, claimed' \subseteq claimed
  PROVE  PodsInv'
BY DEF IInv, PodsInv, CacheFollows, ViewFollows, CachedOwners, TodoAsListed,
       ClaimedAsListed, ClaimedStayOurs, Exists

\* Nor does the end of a pass.
LEMMA PassEnds ==
  ASSUME IInv, UNCHANGED <<pods, podCache, outdated>>, pc' = "idle", ResetPass
  PROVE  PodsInv'
BY DEF IInv, PodsInv, ResetPass, CacheFollows, ViewFollows, CachedOwners, TodoAsListed,
       ClaimedAsListed, ClaimedStayOurs

\* Nor does a pod that its last, failing request made or deleted.
LEMMA LastWrite ==
  ASSUME IInv, NEW p \in Pods, NEW new \in Pod \cup {None}, WritePod(p, new),
         new = None \/ Unused(p), UNCHANGED podCache, pc' = "idle", ResetPass
  PROVE  PodsInv'
<1>1. pods'[p] = new /\ \A q \in Pods \ {p} : pods'[q] = pods[q]
  BY DEF WritePod, IInv, TypeOK
<1>2. CacheFollows'
  BY <1>1 DEF WritePod, CacheFollows, IInv
<1>3. CachedOwners'
  BY <1>1 DEF CachedOwners, IInv, Unused
<1>. QED BY <1>2, <1>3 DEF PodsInv, ResetPass, ViewFollows, TodoAsListed,
                           ClaimedAsListed, ClaimedStayOurs

\* Every step keeps what caches, pass and pods know of each other.
LEMMA PodsStep == IInv /\ [Next]_vars => PodsInv'
<1>. SUFFICES ASSUME IInv, [Next]_vars PROVE PodsInv'
  OBVIOUS
<1>. TypeOK
  BY DEF IInv
<1>. USE DEF apiVars, cacheVars, passVars
<1>1. CASE UserCreates
  BY <1>1, NoWrite DEF UserCreates
<1>2. CASE UserDeletes
  BY <1>2, NoWrite DEF UserDeletes
<1>3. CASE UserEditsSelector
  BY <1>3, NoWrite DEF UserEditsSelector
<1>4. CASE UserRelabels
  <2>1. PICK p \in Exists(pods), l \in Labels : SetPod(p, [pods[p] EXCEPT !.label = l])
    BY <1>4 DEF UserRelabels
  <2>2. p \in Pods /\ pods[p] # None /\ pods[p] \in Pod
    BY <2>1, PodType DEF Exists
  <2>3. /\ [pods[p] EXCEPT !.label = l] \in Pod
        /\ [pods[p] EXCEPT !.label = l].owner = pods[p].owner
    BY <2>2 DEF Pod
  <2>4. Harmless(p, [pods[p] EXCEPT !.label = l])
    BY <2>2, <2>3 DEF Harmless
  <2>. QED BY <1>4, <2>1, <2>2, <2>3, <2>4, HarmlessWrite DEF UserRelabels
<1>5. CASE UserCreatesPod
  <2>1. PICK p \in Pods, l \in Labels : Unused(p) /\ SetPod(p, [label |-> l, owner |-> 0])
    BY <1>5 DEF UserCreatesPod
  <2>2. [label |-> l, owner |-> 0] \in Pod
    BY DEF Pod
  <2>. QED BY <1>5, <2>1, <2>2, HarmlessWrite DEF UserCreatesPod, Harmless
<1>6. CASE PodLost
  <2>1. PICK p \in Pods : SetPod(p, None)
    BY <1>6 DEF PodLost, Exists
  <2>. QED BY <1>6, <2>1, HarmlessWrite DEF PodLost, Harmless
<1>7. CASE CollectPod
  <2>1. PICK p \in Pods : SetPod(p, None)
    BY <1>7 DEF CollectPod, Exists
  <2>. QED BY <1>7, <2>1, HarmlessWrite DEF CollectPod, Harmless
<1>8. CASE OrphanPod
  <2>1. PICK p \in Pods : pods[p] # None /\ SetPod(p, [pods[p] EXCEPT !.owner = 0])
    BY <1>8 DEF OrphanPod, Exists, OwnedBy
  <2>2. [pods[p] EXCEPT !.owner = 0] \in Pod /\ [pods[p] EXCEPT !.owner = 0].owner = 0
    BY <2>1, PodType DEF Pod
  <2>. QED BY <1>8, <2>1, <2>2, HarmlessWrite DEF OrphanPod, Harmless
<1>9. CASE EndDeletion
  BY <1>9, NoWrite DEF EndDeletion
<1>10. CASE SyncWorks
  BY <1>10, NoWrite DEF SyncWorks
<1>11. CASE SyncPods
  BY <1>11 DEF SyncPods, IInv, PodsInv, CacheFollows, ViewFollows, CachedOwners,
               TodoAsListed, ClaimedAsListed, ClaimedStayOurs, Exists
<1>12. ASSUME NEW n \in Names, Resync(n) PROVE PodsInv'
  BY <1>12, NoWrite DEF Resync
<1>13. ASSUME NEW n \in Names, SkipReconcile(n) PROVE PodsInv'
  BY <1>13, NoWrite DEF SkipReconcile
<1>14. ASSUME NEW n \in Names, StartReconcile(n) PROVE PodsInv'
  <2>1. workCache[n].uid # 0 /\ inst' = workCache[n] /\ view' = podCache
    BY <1>14 DEF StartReconcile, IInv, UidsAreSomebody
  <2>2. CacheFollows' /\ ViewFollows' /\ CachedOwners'
    BY <1>14 DEF StartReconcile, IInv, CacheFollows, ViewFollows, CachedOwners
  <2>3. TodoAsListed'
    BY <1>14, <2>1 DEF StartReconcile, TodoAsListed, Orphans, OwnedBy, Matches, Exists
  <2>4. ClaimedAsListed'
    BY <1>14 DEF StartReconcile, ClaimedAsListed, OwnedBy, Matches, Exists
  <2>5. ClaimedStayOurs'
    BY <1>14, <2>1 DEF StartReconcile, ClaimedStayOurs, CachedOwners, IInv, OwnedBy,
                       Matches, Exists
  <2>. QED BY <2>2, <2>3, <2>4, <2>5 DEF PodsInv
<1>15. CASE Release
  <2>1. PICK p \in todo : /\ SetPod(p, [view[p] EXCEPT !.owner = 0]) /\ Current(p)
                          /\ pc = "claim" /\ todo' = todo \ {p}
    BY <1>15 DEF Release
  <2>2. p \in Pods /\ [view[p] EXCEPT !.owner = 0] \in Pod
    BY <2>1, TodoType, ClaimedPodType
  <2>. QED BY <1>15, <2>1, <2>2, ReleaseHarmless, HarmlessWrite DEF Release
<1>16. CASE Adopt
  <2>1. PICK p \in todo :
          /\ view[p].owner = 0 /\ Current(p) /\ pc = "claim"
          /\ SetPod(p, [view[p] EXCEPT !.owner = inst.uid])
          /\ todo' = todo \ {p} /\ claimed' = claimed \cup {p}
    BY <1>16 DEF Adopt, ControllerRef
  <2>. QED BY <1>16, <2>1, AdoptingWrite DEF Adopt
<1>17. CASE ClaimFails
  <2>1. PICK p \in todo :
          /\ pc = "claim" /\ todo' = todo \ {p}
          /\ \/ UnchangedPods
             \/ /\ Current(p)
                /\ \/ /\ view[p].owner = 0
                      /\ SetPod(p, [view[p] EXCEPT !.owner = inst.uid])
                   \/ SetPod(p, [view[p] EXCEPT !.owner = 0])
    BY <1>17 DEF ClaimFails, ControllerRef
  <2>2. p \in Pods /\ [view[p] EXCEPT !.owner = 0] \in Pod
    BY <2>1, TodoType, ClaimedPodType
  <2>3. CASE UnchangedPods
    BY <1>17, <2>1, <2>3, NoWrite DEF ClaimFails, UnchangedPods
  <2>4. CASE /\ Current(p) /\ view[p].owner = 0
             /\ SetPod(p, [view[p] EXCEPT !.owner = inst.uid])
    BY <1>17, <2>1, <2>4, AdoptingWrite DEF ClaimFails
  <2>5. CASE Current(p) /\ SetPod(p, [view[p] EXCEPT !.owner = 0])
    BY <1>17, <2>1, <2>2, <2>5, ReleaseHarmless, HarmlessWrite DEF ClaimFails
  <2>. QED BY <2>1, <2>3, <2>4, <2>5
<1>18. CASE EndClaims
  <2>1. CASE failed
    BY <1>18, <2>1, PassEnds DEF EndClaims
  <2>2. CASE ~failed
    BY <1>18, <2>2 DEF EndClaims, IInv, PodsInv, CacheFollows, ViewFollows, CachedOwners,
                       TodoAsListed, ClaimedAsListed, ClaimedStayOurs, Exists
  <2>. QED BY <2>1, <2>2
<1>19. CASE CreatePod
  <2>1. PICK p \in Pods : Unused(p) /\ SetPod(p, NewPod)
    BY <1>19 DEF CreatePod
  <2>2. NewPod \in Pod
    BY <1>19, NewPodType DEF CreatePod
  <2>. QED BY <1>19, <2>1, <2>2, HarmlessWrite DEF CreatePod, Harmless
<1>20. CASE DeletePod
  <2>1. PICK p \in claimed : SetPod(p, None) /\ claimed' = claimed \ {p}
    BY <1>20 DEF DeletePod
  <2>2. p \in Pods
    BY <2>1 DEF TypeOK
  <2>. QED BY <1>20, <2>1, <2>2, HarmlessWrite DEF DeletePod, Harmless
<1>21. CASE SyncFails
  <2>1. pc' = "idle" /\ ResetPass /\ UNCHANGED podCache
    BY <1>21 DEF SyncFails
  <2>2. CASE UNCHANGED <<pods, outdated>>
    BY <2>1, <2>2, PassEnds
  <2>3. CASE \E p \in Pods, new \in Pod \cup {None} :
               WritePod(p, new) /\ (new = None \/ Unused(p))
    BY <2>1, <2>3, LastWrite
  <2>. QED BY <1>21, <2>2, <2>3, SyncFailsWrites
<1>22. CASE EndReconcile
  BY <1>22, PassEnds DEF EndReconcile
<1>23. CASE Crash
  BY <1>23 DEF Crash, ResetPass, PodsInv, CacheFollows, ViewFollows, CachedOwners,
               TodoAsListed, ClaimedAsListed, ClaimedStayOurs
<1>24. CASE UNCHANGED vars
  BY <1>24, NoWrite DEF vars
<1>. QED
  BY <1>1, <1>2, <1>3, <1>4, <1>5, <1>6, <1>7, <1>8, <1>9, <1>10, <1>11, <1>12, <1>13,
     <1>14, <1>15, <1>16, <1>17, <1>18, <1>19, <1>20, <1>21, <1>22, <1>23, <1>24
     DEF Next, Environment, Claims, Sync

\* Workloads keep their uids, and new ones get a new one.
LEMMA UidsStep == IInv /\ [Next]_vars => UidsAreSomebody'
<1>. SUFFICES ASSUME IInv, [Next]_vars PROVE UidsAreSomebody'
  OBVIOUS
<1>. /\ TypeOK /\ UidsAreSomebody
  BY DEF IInv
<1>. USE DEF apiVars, cacheVars, passVars
<1>1. CASE UNCHANGED works
  <2>1. workCache' \in {workCache, works}
    BY <1>1 DEF Next, Environment, Claims, Sync, UserCreates, UserDeletes,
         UserEditsSelector, UserRelabels, UserCreatesPod, PodLost, CollectPod, OrphanPod,
         EndDeletion, SyncWorks, SyncPods, Resync, SkipReconcile, StartReconcile, Release,
         Adopt, ClaimFails, EndClaims, CreatePod, DeletePod, SyncFails, EndReconcile,
         Crash, vars
  <2>. QED BY <1>1, <2>1 DEF UidsAreSomebody
<1>2. CASE UserCreates
  <2>1. PICK n \in Names : \E s \in Selectors[n] :
          works' = [works EXCEPT ![n] = [phase |-> "live", uid |-> lastUid + 1,
                                         selector |-> s]]
    BY <1>2 DEF UserCreates
  <2>2. works'[n].uid = lastUid + 1 /\ \A m \in Names \ {n} : works'[m] = works[m]
    BY <2>1 DEF TypeOK
  <2>3. lastUid + 1 # 0 /\ workCache' = workCache
    BY <1>2 DEF UserCreates, TypeOK
  <2>. QED BY <2>2, <2>3 DEF UidsAreSomebody
<1>3. CASE UserDeletes
  <2>1. PICK n \in Names : /\ works[n].phase = "live"
                           /\ \/ works' = [works EXCEPT ![n] = Absent]
                              \/ \E phase \in {"deleting", "orphaning"} :
                                    works' = [works EXCEPT ![n].phase = phase]
    BY <1>3 DEF UserDeletes
  <2>2. \A m \in Names : works'[m].phase # "absent" => works'[m].uid = works[m].uid
    BY <2>1 DEF TypeOK, Absent, Workload
  <2>3. \A m \in Names : works'[m].phase # "absent" => works[m].phase # "absent"
    BY <2>1 DEF TypeOK, Absent, Workload
  <2>. QED BY <1>3, <2>2, <2>3 DEF UidsAreSomebody, UserDeletes
<1>4. CASE UserEditsSelector
  <2>1. PICK n \in Names : \E s \in Selectors[n] : works' = [works EXCEPT ![n].selector = s]
    BY <1>4 DEF UserEditsSelector
  <2>2. \A m \in Names : works'[m].phase = works[m].phase /\ works'[m].uid = works[m].uid
    BY <2>1 DEF TypeOK, Workload
  <2>. QED BY <1>4, <2>2 DEF UidsAreSomebody, UserEditsSelector
<1>5. CASE EndDeletion
  <2>1. PICK n \in Names : works' = [works EXCEPT ![n] = Absent]
    BY <1>5 DEF EndDeletion
  <2>2. \A m \in Names : works'[m].phase # "absent" => works'[m] = works[m]
    BY <2>1 DEF TypeOK, Absent
  <2>. QED BY <1>5, <2>2 DEF UidsAreSomebody, EndDeletion
<1>6. UNCHANGED works \/ UserCreates \/ UserDeletes \/ UserEditsSelector \/ EndDeletion
  BY DEF Next, Environment, Claims, Sync, UserRelabels, UserCreatesPod, PodLost,
       CollectPod, OrphanPod, SyncWorks, SyncPods, Resync, SkipReconcile, StartReconcile,
       Release, Adopt, ClaimFails, EndClaims, CreatePod, DeletePod, SyncFails,
       EndReconcile, Crash, vars
<1>. QED BY <1>1, <1>2, <1>3, <1>4, <1>5, <1>6

-----------------------------------------------------------------------------
(* The theorems.                                                           *)

\* The invariant holds before anything has happened.
LEMMA InitInvariant == Init => IInv
<1>. SUFFICES ASSUME Init PROVE IInv
  OBVIOUS
<1>1. TypeOK
  BY InitType
<1>2. UidsAreSomebody
  BY NamesAssumption, FS_CardinalityType DEF Init, UidsAreSomebody
<1>3. CacheFollows /\ ViewFollows /\ CachedOwners
  BY DEF Init, CacheFollows, ViewFollows, CachedOwners
<1>4. TodoAsListed /\ ClaimedAsListed /\ ClaimedStayOurs
  BY DEF Init, TodoAsListed, ClaimedAsListed, ClaimedStayOurs
<1>. QED BY <1>1, <1>2, <1>3, <1>4 DEF IInv

\* The invariant of the ownership model is one.
LEMMA Invariant == Spec => []IInv
<1>1. IInv /\ [Next]_vars => IInv'
  BY TypeStep, PodsStep, UidsStep DEF IInv, PodsInv
<1>. QED BY <1>1, InitInvariant, PTL DEF Spec

\* Every variable keeps its type (the state of API server, caches and claimPods).
THEOREM OwnershipTypes == Spec => []TypeOK
BY Invariant, PTL DEF IInv

\* The pods that claimPods returned, and that scaling deletes by name, never belong
\* to another workload, however many there are, however their selectors overlap and
\* however far the cache lags.
THEOREM ClaimedPodsStayOurs == Spec => []ClaimedStayOurs
BY Invariant, PTL DEF IInv

\* A pod that has an owner is not touched by claiming but to release it.
LEMMA NoStealingStep ==
  ASSUME IInv, Next, NEW p \in Pods, pods[p] # None, pods'[p] # None, pods[p].owner # 0
  PROVE  pods'[p].owner \in {pods[p].owner, 0}
<1>. TypeOK /\ pods[p] \in Pod
  BY PodType DEF IInv
<1>. USE DEF apiVars, cacheVars, passVars
<1>0. CASE pods'[p] = pods[p]
  BY <1>0
<1>1. CASE UserRelabels
  <2>1. PICK q \in Exists(pods), l \in Labels : SetPod(q, [pods[q] EXCEPT !.label = l])
    BY <1>1 DEF UserRelabels
  <2>2. pods'[p].owner = pods[p].owner
    BY <2>1 DEF SetPod, WritePod, TypeOK, Pod
  <2>. QED BY <2>2
<1>2. CASE UserCreatesPod \/ CreatePod
  <2>1. PICK q \in Pods : Unused(q) /\ \E new : SetPod(q, new)
    BY <1>2 DEF UserCreatesPod, CreatePod
  <2>2. q # p
    BY <2>1 DEF Unused
  <2>. QED BY <2>1, <2>2 DEF SetPod, WritePod, TypeOK
<1>3. CASE PodLost \/ CollectPod \/ DeletePod
  <2>1. PICK q : SetPod(q, None)
    BY <1>3 DEF PodLost, CollectPod, DeletePod
  <2>. QED BY <2>1 DEF SetPod, WritePod, TypeOK
<1>4. CASE OrphanPod
  <2>1. PICK q \in Pods : SetPod(q, [pods[q] EXCEPT !.owner = 0])
    BY <1>4 DEF OrphanPod, OwnedBy, Exists
  <2>2. pods'[p] = pods[p] \/ pods'[p].owner = 0
    BY <2>1 DEF SetPod, WritePod, TypeOK, Pod
  <2>. QED BY <2>2
<1>5. CASE Release \/ Adopt \/ ClaimFails
  <2>1. PICK q \in todo :
          /\ pc = "claim"
          /\ \/ pods' = pods
             \/ /\ Current(q)
                /\ \/ /\ view[q].owner = 0
                      /\ SetPod(q, [view[q] EXCEPT !.owner = inst.uid])
                   \/ SetPod(q, [view[q] EXCEPT !.owner = 0])
    BY <1>5 DEF Release, Adopt, ClaimFails, UnchangedPods, ControllerRef
  <2>2. Current(q) => view[q] = pods[q] /\ view[q] \in Pod /\ q \in Pods
    BY <2>1, CurrentAsListed, TodoType
  <2>3. CASE Current(q) /\ SetPod(q, [view[q] EXCEPT !.owner = 0])
    <3>1. pods'[p] = pods[p] \/ pods'[p].owner = 0
      BY <2>2, <2>3 DEF SetPod, WritePod, TypeOK, Pod
    <3>. QED BY <3>1
  <2>4. CASE /\ Current(q) /\ view[q].owner = 0
             /\ SetPod(q, [view[q] EXCEPT !.owner = inst.uid])
    BY <2>2, <2>4 DEF SetPod, WritePod, TypeOK
  <2>. QED BY <2>1, <2>3, <2>4
<1>6. CASE SyncFails
  <2>1. CASE pods' = pods
    BY <2>1
  <2>2. CASE \E q \in Pods, new \in Pod \cup {None} :
               WritePod(q, new) /\ (new = None \/ Unused(q))
    BY <2>2 DEF WritePod, TypeOK, Unused
  <2>. QED BY <1>6, <2>1, <2>2, SyncFailsWrites DEF IInv
<1>7. \/ pods' = pods \/ UserRelabels \/ UserCreatesPod \/ CreatePod \/ PodLost
      \/ CollectPod \/ DeletePod \/ SyncFails \/ OrphanPod
      \/ Release \/ Adopt \/ ClaimFails
  BY DEF Next, Environment, Claims, Sync, UserCreates, UserDeletes, UserEditsSelector,
       EndDeletion, SyncWorks, SyncPods, Resync, SkipReconcile, StartReconcile,
       EndClaims, EndReconcile, Crash
<1>. QED BY <1>0, <1>1, <1>2, <1>3, <1>4, <1>5, <1>6, <1>7

\* No pod passes from one owner to another one without being nobody's in between:
\* adopt() updates the version that was listed without an owner.
THEOREM PodsAreNotStolen == Spec => NoStealing
<1>1. IInv /\ [Next]_vars =>
        [\A p \in Pods : pods[p] # None /\ pods'[p] # None /\ pods[p].owner # 0
                           => pods'[p].owner \in {pods[p].owner, 0}]_vars
  BY NoStealingStep
<1>. QED BY <1>1, Invariant, PTL DEF Spec, NoStealing

\* What claiming writes is what the labels of that moment ask for.
LEMMA ClaimsStep ==
  ASSUME IInv, Claims, NEW p \in Pods, pods'[p] # pods[p]
  PROVE  IF pods[p].owner = 0 THEN pods[p].label \in inst.selector
         ELSE pods[p].owner = inst.uid /\ pods[p].label \notin inst.selector
<1>1. Release \/ Adopt \/ ClaimFails
  BY DEF Claims, EndClaims, apiVars
<1>2. PICK q \in todo : pc = "claim" /\ Current(q) /\ \E new : SetPod(q, new)
  BY <1>1 DEF Release, Adopt, ClaimFails, UnchangedPods
<1>3. q = p
  BY <1>2 DEF SetPod, WritePod, IInv, TypeOK
<1>. QED BY <1>2, <1>3, CurrentAsListed DEF IInv, TodoAsListed

\* A pass adopts and releases by the labels that pods have when it does, although
\* it decides by labels it read from a cache.
THEOREM ClaimsFollowLabels == Spec => OwnersFollowLabels
<1>1. IInv /\ [Next]_vars =>
        [Claims => \A p \in Pods : pods'[p] # pods[p] =>
           IF pods[p].owner = 0 THEN pods[p].label \in inst.selector
                                ELSE /\ pods[p].owner = inst.uid
                                     /\ pods[p].label \notin inst.selector]_vars
  BY ClaimsStep
<1>. QED BY <1>1, Invariant, PTL DEF Spec, OwnersFollowLabels
=============================================================================
