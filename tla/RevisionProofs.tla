---------------------------- MODULE RevisionProofs ----------------------------
(***************************************************************************)
(* Proofs about the history in Reconciler where no pass starts on lagging  *)
(* caches: whatever users edit, and whatever fails, crashes or is lost,    *)
(* the revisions that pods and status name stay stored.                    *)
(***************************************************************************)
EXTENDS ReconcilerProofs

\* The bound of such a history.
NoLag == Budget["stale"] = 0

\* A pass that has named its revisions.
Running == pc \in {"create", "delete", "status", "truncate"}

StatusNamesStored == {status.current, status.update} \subseteq Listed(revs) \cup {None}

\* The pass claimed a pod of every revision that pods carry, or made it itself.
PassKnowsPods ==
  \A p \in Active(pods) :
     /\ pc = "revise" => Updated(view, pods[p]) # {}
     /\ Running => pods[p] \in {cur, upd} \/ Updated(view, pods[p]) # {}

\* Until it names its revisions, a pass knows all that is stored; then they are.
PassKnowsRevisions ==
  /\ pc = "revise" => revList = revs
  /\ Running => {cur, upd} \subseteq Listed(revs)

\* It knows the status until it writes one itself, which names its revisions.
PassKnowsStatus ==
  /\ pc \in {"revise", "create", "delete", "status"} => inst.status = status
  /\ pc = "truncate" => status.update = upd /\ status.current \in {cur, upd}

\* It deletes no revision that it or a pod it claimed uses.
TrashUnused ==
  pc = "truncate" => \A t \in trash : t \notin {cur, upd} /\ Updated(view, t) = {}

Kept == /\ \A p \in Active(pods) : pods[p] \in Listed(revs)
        /\ StatusNamesStored /\ PassKnowsPods /\ PassKnowsRevisions
        /\ PassKnowsStatus /\ TrashUnused

\* The inductive invariant: once the workload is being deleted anything may go.
RInv == /\ TypeOK /\ budget["stale"] = 0
        /\ Phase = "live" => Kept

-----------------------------------------------------------------------------
(* What a step keeps.                                                      *)

\* It holds at first.
LEMMA InitKept == NoLag /\ Init => RInv
<1> SUFFICES ASSUME NoLag, Init PROVE RInv OBVIOUS
<1>1. TypeOK BY InitInvariant DEF IInv
<1>2. budget["stale"] = 0 BY DEF Init, NoLag
<1>3. Active(pods) = {} /\ pc = "idle" BY DEF Init, Active, NoPods
<1>4. StatusNamesStored BY DEF Init, NoStatus, StatusNamesStored
<1>5. Kept
  BY <1>3, <1>4 DEF Kept, PassKnowsPods, PassKnowsRevisions, PassKnowsStatus,
     TrashUnused, Running
<1>6. QED BY <1>1, <1>2, <1>5 DEF RInv

\* A step spends one thing at the most.
LEMMA BudgetSteps ==
  ASSUME [Next]_vars PROVE UNCHANGED budget \/ \E a \in Acts : Spend(a)
<1> {"stale", "edits", "deletes", "losses", "errors", "crashes"} \subseteq Acts
  BY DEF Acts, Faults
<1>1. CASE UNCHANGED vars BY <1>1 DEF vars
<1>2. CASE Environment \/ Informers \/ Resync \/ Crash
  BY <1>2 DEF Environment, UserUpdate, UserDelete, CollectPod, CollectRevision,
     CollectWorkload, PodLost, Informers, SyncWorkload, SyncPods, SyncRevisions,
     Resync, Crash
<1>3. CASE Pass
  BY <1>3 DEF Pass, ReconcileNotFound, StartReconcile, ReuseRevision,
     RollBackRevision, CreateRevision, BeginSync, ReviseFails, CreatePod, CreateFails,
     AbandonCreates, ChooseVictims, DeletePod, DeleteFails, StatusUnchanged,
     CommitStatus, BeginTruncate, StatusFails, DeleteRevision, TruncateFails,
     EndReconcile
<1>4. QED BY <1>1, <1>2, <1>3 DEF Next

\* What is not spent is not there later either.
LEMMA NoLagStep ==
  ASSUME RInv, [Next]_vars PROVE budget'["stale"] = 0
<1>1. ASSUME NEW a \in Acts, Spend(a) PROVE budget'["stale"] = 0
  BY <1>1 DEF Spend, RInv, TypeOK, Acts, Faults
<1>2. CASE UNCHANGED budget BY <1>2 DEF RInv
<1>3. QED BY <1>1, <1>2, BudgetSteps

\* A workload that is being deleted or gone stays so.
LEMMA LiveBefore ==
  ASSUME TypeOK, [Next]_vars, Phase' = "live" PROVE Phase = "live"
<1>1. CASE UNCHANGED specs BY <1>1 DEF Phase, Gen
<1>2. CASE ~UNCHANGED specs
  <2>1. UserUpdate \/ UserDelete \/ CollectWorkload
    <3>1. ~UNCHANGED vars BY <1>2 DEF vars, apiVars
    <3>2. ~CollectPod /\ ~CollectRevision /\ ~PodLost /\ ~Informers /\ ~Resync /\ ~Crash
      BY <1>2 DEF CollectPod, CollectRevision, PodLost, Informers, SyncWorkload, SyncPods,
         SyncRevisions, Resync, Crash, apiVars
    <3>3. ~Pass
      BY <1>2 DEF Pass, ReconcileNotFound, StartReconcile, ReuseRevision,
         RollBackRevision, CreateRevision, BeginSync, ReviseFails, CreatePod, CreateFails,
         AbandonCreates, ChooseVictims, DeletePod, DeleteFails, StatusUnchanged,
         CommitStatus, BeginTruncate, StatusFails, DeleteRevision, TruncateFails,
         EndReconcile, apiVars
    <3>4. QED BY <3>1, <3>2, <3>3 DEF Next, Environment
  <2>2. CASE UserUpdate \/ UserDelete BY <2>2 DEF UserUpdate, UserDelete
  <2>3. ~CollectWorkload
    <3>1. ASSUME CollectWorkload PROVE FALSE
      <4>1. specs' = Append(specs, [specs[Gen] EXCEPT !.phase = "gone"])
        BY <3>1 DEF CollectWorkload
      <4>2. specs[Gen] \in Version /\ specs \in Seq(Version)
        BY DEF TypeOK, ApiTypeOK, Gen
      <4>3. [specs[Gen] EXCEPT !.phase = "gone"] \in Version
        BY <4>2 DEF Version, Phases
      <4>4. Gen' = Gen + 1 /\ specs'[Gen'] = [specs[Gen] EXCEPT !.phase = "gone"]
        BY <4>1, <4>2, <4>3 DEF Gen
      <4>5. Phase' = "gone" BY <4>2, <4>4 DEF Phase, Version
      <4>6. QED BY <4>5
    <3>2. QED BY <3>1
  <2>4. QED BY <2>1, <2>2, <2>3
<1>3. QED BY <1>1, <1>2

\* Pods may go at any time.
LEMMA KeptWithoutPods ==
  ASSUME Kept, UNCHANGED <<status, revs, pc, inst, view, revList, cur, upd, trash>>,
         \A p \in Active(pods)' : p \in Active(pods) /\ pods'[p] = pods[p]
  PROVE  Kept'
BY DEF Kept, StatusNamesStored, PassKnowsPods, PassKnowsRevisions, PassKnowsStatus,
   TrashUnused, Running, Listed, Updated, Active

\* The pass may go on, or make pods of its revisions.
LEMMA KeptByScaling ==
  ASSUME Kept, pc \in {"create", "delete", "status"},
         pc' \in {"create", "delete", "status"},
         UNCHANGED <<status, revs, inst, view, revList, cur, upd, trash>>,
         \A p \in Active(pods)' : pods'[p] \in {cur, upd}
                                   \/ (p \in Active(pods) /\ pods'[p] = pods[p])
  PROVE  Kept'
<1>1. \A p \in Active(pods)' : pods'[p] \in Listed(revs)
  BY DEF Kept, PassKnowsRevisions, Running
<1>2. PassKnowsPods'
  BY DEF Kept, PassKnowsPods, Running, Updated, Active
<1>3. QED
  BY <1>1, <1>2 DEF Kept, StatusNamesStored, PassKnowsRevisions, PassKnowsStatus,
     TrashUnused, Running, Listed

\* It may end.
LEMMA KeptAtRest ==
  ASSUME Kept, pc' = "idle", UNCHANGED <<status, revs, pods>>
  PROVE  Kept'
BY DEF Kept, StatusNamesStored, PassKnowsPods, PassKnowsRevisions, PassKnowsStatus,
   TrashUnused, Running, Listed, Active

\* Clearing a pod leaves the others.
LEMMA ClearedPod ==
  ASSUME TypeOK, NEW q, pods' = [pods EXCEPT ![q] = None]
  PROVE  \A p \in Active(pods)' : p \in Active(pods) /\ pods'[p] = pods[p]
BY DEF TypeOK, ApiTypeOK, Active

\* Making a pod leaves the others.
LEMMA MadePod ==
  ASSUME TypeOK, NEW q \in Pods, NEW kind \in {"up", "upOld"},
         pods' = [pods EXCEPT ![q] = Planned(kind)]
  PROVE  \A p \in Active(pods)' : pods'[p] \in {cur, upd}
                                   \/ (p \in Active(pods) /\ pods'[p] = pods[p])
<1>1. PICK made \in {cur, upd} : made = Planned(kind) BY DEF Planned
<1>2. pods' = [p \in Pods |-> IF p = q THEN made ELSE pods[p]]
  BY <1>1 DEF TypeOK, ApiTypeOK
<1>3. SUFFICES ASSUME NEW p \in Pods, pods'[p] # None
               PROVE  pods'[p] \in {cur, upd} \/ (pods[p] # None /\ pods'[p] = pods[p])
  BY DEF Active
<1>4. CASE p = q BY <1>1, <1>2, <1>4
<1>5. CASE p # q BY <1>2, <1>3, <1>5
<1>6. QED BY <1>4, <1>5

\* Naming its revisions, the pass finds or makes the update revision, and the
\* current one that the status names.
LEMMA KeptByNaming ==
  ASSUME TypeOK, Kept, pc = "revise", NEW t, BeginSync(t), t \in Listed(revs'),
         Listed(revs) \subseteq Listed(revs')
  PROVE  Kept'
<1>1. pc' \in {"status", "create"} /\ upd' = t /\ cur' = CurrentOr(t)
  BY DEF BeginSync
<1>2. {cur', upd'} \subseteq Listed(revs')
  BY <1>1 DEF CurrentOr, Kept, PassKnowsRevisions
<1>3. UNCHANGED <<status, pods, inst, view, revList, trash>>
  BY DEF BeginSync
<1>4. \A p \in Active(pods)' : pods'[p] \in Listed(revs')
  BY <1>3 DEF Kept, Active
<1>5. PassKnowsPods'
  BY <1>1, <1>3 DEF Kept, PassKnowsPods, Running, Active, Updated
<1>6. StatusNamesStored'
  BY <1>3 DEF Kept, StatusNamesStored
<1>7. QED
  BY <1>1, <1>2, <1>3, <1>4, <1>5, <1>6 DEF Kept, PassKnowsRevisions, PassKnowsStatus,
     TrashUnused, Running

\* The status it leaves names its revisions, and what it will delete is unused.
LEMMA KeptByStatus ==
  ASSUME Kept, pc = "status", BeginTruncate,
         status'.update = upd, status'.current \in {cur, upd}
  PROVE  Kept'
<1>1. trash' \subseteq NonLive /\ pc' = "truncate"
  BY DEF BeginTruncate
<1>2. UNCHANGED <<pods, revs, inst, view, revList, cur, upd>>
  BY DEF BeginTruncate
<1>3. {cur, upd} \subseteq Listed(revs) BY DEF Kept, PassKnowsRevisions, Running
<1>4. StatusNamesStored' BY <1>2, <1>3 DEF StatusNamesStored
<1>5. TrashUnused'
  BY <1>1, <1>2 DEF TrashUnused, NonLive, Updated, Active
<1>6. PassKnowsPods'
  BY <1>1, <1>2 DEF Kept, PassKnowsPods, Running, Updated, Active
<1>7. PassKnowsStatus' /\ PassKnowsRevisions'
  BY <1>1, <1>2, <1>3 DEF PassKnowsStatus, PassKnowsRevisions, Running
<1>8. QED BY <1>2, <1>4, <1>5, <1>6, <1>7 DEF Kept, Active

\* A pass may end with its status written all the same.
LEMMA KeptByLostStatus ==
  ASSUME Kept, pc = "status", pc' = "idle", UNCHANGED <<revs, pods>>,
         status'.update = upd, status'.current \in {cur, upd}
  PROVE  Kept'
<1>1. {cur, upd} \subseteq Listed(revs) BY DEF Kept, PassKnowsRevisions, Running
<1>2. StatusNamesStored' BY <1>1 DEF StatusNamesStored
<1>3. QED
  BY <1>2 DEF Kept, PassKnowsPods, PassKnowsRevisions, PassKnowsStatus, TrashUnused,
     Running, Active

\* It may end with more revisions stored.
LEMMA KeptByLostRevision ==
  ASSUME Kept, pc' = "idle", UNCHANGED <<status, pods>>, Listed(revs) \subseteq Listed(revs')
  PROVE  Kept'
BY DEF Kept, StatusNamesStored, PassKnowsPods, PassKnowsRevisions, PassKnowsStatus,
   TrashUnused, Running, Active

\* Truncation deletes revisions that are not used.
LEMMA KeptByTruncation ==
  ASSUME TypeOK, Kept, pc = "truncate", pc' = "truncate", NEW t \in trash,
         revs' \in {revs, [revs EXCEPT ![t] = 0]}, trash' \subseteq trash,
         UNCHANGED <<status, pods, inst, view, revList, cur, upd>>
  PROVE  Kept'
<1>1. t \notin {cur, upd} /\ Updated(view, t) = {} BY DEF Kept, TrashUnused
<1>2. \A u \in Listed(revs) : u = t \/ u \in Listed(revs')
  BY DEF Listed, TypeOK, ApiTypeOK
<1>3. {cur, upd} \subseteq Listed(revs')
  BY <1>1, <1>2 DEF Kept, PassKnowsRevisions, Running
<1>4. \A p \in Active(pods)' : pods'[p] \in Listed(revs')
  BY <1>1, <1>2 DEF Kept, PassKnowsPods, Running, Active
<1>5. StatusNamesStored'
  BY <1>3 DEF Kept, StatusNamesStored, PassKnowsStatus
<1>6. PassKnowsPods' /\ TrashUnused'
  BY DEF Kept, PassKnowsPods, TrashUnused, Running, Updated, Active
<1>7. PassKnowsStatus' /\ PassKnowsRevisions'
  BY <1>3 DEF Kept, PassKnowsStatus, PassKnowsRevisions, Running
<1>8. QED BY <1>4, <1>5, <1>6, <1>7 DEF Kept

\* A pass starts with all that is stored.
LEMMA KeptByStart ==
  ASSUME RInv, Kept, StartReconcile
  PROVE  Kept'
<1>1. InformersSynced
  <2>1. ~Spend("stale") BY DEF Spend, RInv
  <2>2. QED BY <2>1 DEF StartReconcile
<1>2. /\ pc' = "revise" /\ inst'.status = status /\ view' = pods /\ revList' = revs
      /\ UNCHANGED <<status, pods, revs>>
  BY <1>1 DEF StartReconcile, InformersSynced, Stored, apiVars
<1>3. PassKnowsPods'
  BY <1>2 DEF PassKnowsPods, Running, Updated, Active
<1>4. QED
  BY <1>2, <1>3 DEF Kept, StatusNamesStored, PassKnowsRevisions, PassKnowsStatus,
     TrashUnused, Running, Active

-----------------------------------------------------------------------------
(* The steps.                                                              *)

\* Every step keeps the revisions in use, one step of the proof for each action.
LEMMA NextKept ==
  ASSUME RInv, TypeOK', Next, Phase = "live", Kept PROVE Phase' = "live" => Kept'
<1>. TypeOK BY DEF RInv
<1>0. UNCHANGED <<status, pods, revs, pc, passVars>> => Kept'
  BY KeptWithoutPods DEF passVars, Active
<1>1. CASE UserUpdate \/ UserDelete \/ SyncWorkload \/ SyncPods \/ SyncRevisions
           \/ Resync \/ ReconcileNotFound
  BY <1>0, <1>1 DEF UserUpdate, UserDelete, SyncWorkload, SyncPods, SyncRevisions,
     Resync, ReconcileNotFound, apiVars
<1>2. CASE CollectPod \/ CollectRevision \/ CollectWorkload
  BY <1>2 DEF CollectPod, CollectRevision, CollectWorkload
<1>3. CASE PodLost
  BY <1>3, ClearedPod, KeptWithoutPods DEF PodLost, passVars
<1>4. CASE StatusFails \/ Crash \/ EndReconcile
  <2>1. ASSUME StatusFails PROVE Kept'
    <3>1. /\ pc = "status" /\ pc' = "idle" /\ UNCHANGED <<revs, pods>>
          /\ status' = status \/ status' = NewStatus
      BY <2>1 DEF StatusFails, ReturnError
    <3>2. NewStatus.update = upd /\ NewStatus.current \in {cur, upd}
      BY DEF NewStatus
    <3>3. QED BY <3>1, <3>2, KeptAtRest, KeptByLostStatus
  <2>2. CASE Crash \/ EndReconcile
    BY <2>2, KeptAtRest DEF Crash, EndReconcile, apiVars
  <2>3. QED BY <1>4, <2>1, <2>2
<1>5. CASE StartReconcile
  BY <1>5, KeptByStart
<1>6. CASE ReuseRevision
  <2>1. Wanted.template \in Listed(revs)
    BY <1>6 DEF ReuseRevision, Latest, Kept, PassKnowsRevisions
  <2>2. QED BY <1>6, <2>1, KeptByNaming DEF ReuseRevision
<1>w. ASSUME pc = "revise", WriteRevision(Wanted.template)
      PROVE  Wanted.template \in Listed(revs') /\ Listed(revs) \subseteq Listed(revs')
  <2>1. \A n \in NextRevision(revList) : n \in Nat \ {0}
    BY DEF NextRevision, Latest, Listed, TypeOK, PassTypeOK
  <2>2. \E n \in Nat \ {0} : revs' = [revs EXCEPT ![Wanted.template] = n]
    BY <1>w, <2>1 DEF WriteRevision
  <2>3. QED BY <1>w, <2>2, WantedType DEF Listed, TypeOK, ApiTypeOK
<1>7. ASSUME RollBackRevision \/ CreateRevision PROVE Kept'
  <2>1. pc = "revise" /\ BeginSync(Wanted.template) /\ Wanted.template \in Templates
    BY <1>7, WantedType DEF RollBackRevision, CreateRevision
  <2>2. \/ UNCHANGED revs /\ Wanted.template \in Listed(revs)
        \/ WriteRevision(Wanted.template)
    BY <1>7, <2>1 DEF RollBackRevision, CreateRevision, Listed, Kept, PassKnowsRevisions
  <2>3. Wanted.template \in Listed(revs') /\ Listed(revs) \subseteq Listed(revs')
    BY <1>w, <2>1, <2>2
  <2>4. QED BY <2>1, <2>3, KeptByNaming
<1>f. ASSUME ReviseFails PROVE Kept'
  BY <1>f, <1>w, KeptByLostRevision DEF ReviseFails, ReturnError
<1>8. CASE CreatePod \/ CreateFails
  <2>1. \/ UNCHANGED pods
        \/ \E q \in FreePods, kind \in {"up", "upOld"} : pods' = [pods EXCEPT ![q] = Planned(kind)]
    BY <1>8 DEF CreatePod, CreateFails
  <2>2. \A p \in Active(pods)' : pods'[p] \in {cur, upd}
                                  \/ (p \in Active(pods) /\ pods'[p] = pods[p])
    BY <2>1, MadePod DEF Active, FreePods
  <2>3. QED BY <1>8, <2>2, KeptByScaling DEF CreatePod, CreateFails
<1>9. CASE AbandonCreates \/ ChooseVictims
  BY <1>9, KeptByScaling DEF AbandonCreates, ChooseVictims, apiVars, passVars, Active
<1>10. CASE DeletePod \/ DeleteFails
  <2>1. UNCHANGED pods \/ \E q \in NextVictims : pods' = [pods EXCEPT ![q] = None]
    BY <1>10 DEF DeletePod, DeleteFails
  <2>2. \A p \in Active(pods)' : p \in Active(pods) /\ pods'[p] = pods[p]
    BY <2>1, ClearedPod DEF Active
  <2>3. QED BY <1>10, <2>2, KeptByScaling DEF DeletePod, DeleteFails
<1>11. CASE StatusUnchanged
  <2>1. /\ NewStatus.update = upd /\ NewStatus.current \in {cur, upd}
        /\ NewStatus.update = status.update /\ NewStatus.current = status.current
    BY <1>11 DEF StatusUnchanged, Inconsistent, NewStatus, Kept, PassKnowsStatus
  <2>2. QED BY <1>11, <2>1, KeptByStatus DEF StatusUnchanged
<1>12. CASE CommitStatus
  <2>1. status'.update = upd /\ status'.current \in {cur, upd}
    BY <1>12 DEF CommitStatus, NewStatus
  <2>2. QED BY <1>12, <2>1, KeptByStatus DEF CommitStatus
<1>13. CASE DeleteRevision \/ TruncateFails
  <2>1. PICK t \in trash : revs' \in {revs, [revs EXCEPT ![t] = 0]}
    BY <1>13 DEF DeleteRevision, TruncateFails, Oldest
  <2>2. QED BY <1>13, <2>1, KeptByTruncation DEF DeleteRevision, TruncateFails
<1>. QED
  BY <1>1, <1>2, <1>3, <1>4, <1>5, <1>6, <1>7, <1>f, <1>8, <1>9, <1>10, <1>11, <1>12,
     <1>13 DEF Next, Environment, Informers, Pass

\* Where no pass starts on lagging caches, the invariant holds.
LEMMA KeptAlways == NoLag /\ Spec => []RInv
<1>1. RInv /\ [Next]_vars => RInv'
  <2> SUFFICES ASSUME RInv, [Next]_vars PROVE RInv' OBVIOUS
  <2>1. TypeOK' /\ budget'["stale"] = 0
    BY NextType, NoLagStep DEF RInv
  <2>2. ASSUME Phase' = "live" PROVE Kept'
    <3>1. Phase = "live" /\ Kept BY <2>2, LiveBefore DEF RInv
    <3>2. CASE Next BY <2>1, <2>2, <3>1, <3>2, NextKept
    <3>3. CASE UNCHANGED vars
      BY <3>1, <3>3, KeptWithoutPods DEF vars, apiVars, passVars, Active
    <3>4. QED BY <3>2, <3>3
  <2>3. QED BY <2>1, <2>2 DEF RInv
<1>2. QED BY <1>1, InitKept, PTL DEF Spec

\* The revisions the status names are stored: a roll back to the current one stays
\* possible through edits, failures, lost answers, lost pods and crashes.
THEOREM StatusRevisionsAlwaysExist == NoLag /\ Spec => []StatusRevisionsExist
<1>1. RInv => StatusRevisionsExist
  BY DEF RInv, Kept, StatusNamesStored, StatusRevisionsExist
<1>2. QED BY <1>1, KeptAlways, PTL

\* The revision of every pod is stored.
THEOREM PodRevisionsAlwaysExist == NoLag /\ Spec => []PodRevisionsExist
<1>1. RInv => PodRevisionsExist
  BY DEF RInv, Kept, PodRevisionsExist
<1>2. QED BY <1>1, KeptAlways, PTL

=============================================================================
