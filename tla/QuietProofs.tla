----------------------------- MODULE QuietProofs -----------------------------
(***************************************************************************)
(* Proofs about Reconciler when it has nothing left to do, for all         *)
(* templates, pods, replica counts, partitions, history limits and bounds. *)
(***************************************************************************)
EXTENDS RolloutProofs, RevisionProofs

\* What the cached workload has become since a pass read it is in the queue.
ChangesQueued == pc # "idle" /\ ~queued => pwCache = inst

\* Nothing is queued or about to be: the workload is as the cache has it, and
\* the pass that saw it last has written its status.
Caught == /\ Phase = "live" /\ ~queued /\ pwCache = Stored
          /\ pc \in {"truncate", "idle"}

Reported == status.observed = Gen /\ status.update = specs[Gen].template

\* Then the status speaks of the latest version.
CaughtReported == Caught => Reported

QInv == GroupInv /\ ChangesQueued /\ CaughtReported

\* The current revision is the one that the status read by the pass names, or
\* else the update revision.
CurrentFromStatus == Running => cur \in {upd, inst.status.current}

Unspent == \A f \in {"stale", "losses"} : budget[f] = Budget[f]

\* What is spent does not come back.
BudgetFalls == \A f \in {"stale", "losses"} : budget[f] <= Budget[f]

\* While no pod is lost and no pass starts on a cache that lags, passes of a live
\* workload are alone with its pods,
Undisturbed == Phase = "live" /\ Unspent => ~disturbed

\* and the last of them to succeed has made the pods what is wanted.
CaughtDesired ==
  Caught /\ Unspent /\ (pc = "truncate" => ~err) => Desired

DInv == /\ QInv /\ CurrentFromStatus /\ BudgetFalls /\ Undisturbed /\ CaughtDesired

\* No two revisions of a listing have one number: one of them is last.
NumbersDiffer(list) == \A t, u \in Listed(list) : list[t] = list[u] => t = u

Newest == Phase = "live" =>
  /\ NumbersDiffer(revs)
  /\ Running => Latest(revs) = {upd}
  /\ pc = "idle" /\ Caught => Latest(revs) = {status.update}

NInv == RInv /\ QInv /\ Newest

-----------------------------------------------------------------------------
(* Passes and events follow each other.                                    *)

\* What a pass leaves unsaid of a change of the workload, the queue says.
LEMMA NextChangesQueued ==
  ASSUME TypeOK, ChangesQueued, [Next]_vars PROVE ChangesQueued'
<1>. USE DEF ChangesQueued
<1>1. CASE UNCHANGED <<pc, queued, pwCache, inst>>
  BY <1>1
<1>2. CASE UserUpdate \/ UserDelete \/ CollectPod \/ CollectRevision \/ CollectWorkload
           \/ PodLost \/ SyncPods \/ SyncRevisions \/ UNCHANGED vars
  BY <1>1, <1>2 DEF UserUpdate, UserDelete, CollectPod, CollectRevision,
     CollectWorkload, PodLost, SyncPods, SyncRevisions, vars, cacheVars, passVars
<1>3. CASE SyncWorkload \/ Resync
  BY <1>3 DEF SyncWorkload, Resync
<1>4. CASE ReconcileNotFound \/ ReviseFails \/ StatusFails \/ EndReconcile \/ Crash
  BY <1>4 DEF ReconcileNotFound, ReviseFails, StatusFails, ReturnError, EndReconcile, Crash
<1>5. CASE StartReconcile
  BY <1>5 DEF StartReconcile, cacheVars
<1>6. CASE ReuseRevision \/ RollBackRevision \/ CreateRevision
  BY <1>6 DEF ReuseRevision, RollBackRevision, CreateRevision, BeginSync, cacheVars
<1>7. CASE CreatePod \/ CreateFails \/ AbandonCreates \/ ChooseVictims \/ DeletePod
           \/ DeleteFails
  BY <1>7 DEF CreatePod, CreateFails, AbandonCreates, ChooseVictims, DeletePod,
     DeleteFails, cacheVars, passVars
<1>8. CASE StatusUnchanged \/ CommitStatus \/ DeleteRevision \/ TruncateFails
  BY <1>8 DEF StatusUnchanged, CommitStatus, BeginTruncate, DeleteRevision,
     TruncateFails, cacheVars
<1>. QED BY <1>2, <1>3, <1>4, <1>5, <1>6, <1>7, <1>8 DEF Next, Environment, Informers, Pass

\* A status that is written differs from the one that was read.
LEMMA WriteDiffers ==
  ASSUME TypeOK, pc = "status" PROVE ~Inconsistent(NewStatus, NewStatus)
<1>1. NewStatus.observed \in Nat
  BY NewStatusType DEF WorkloadStatus
<1>. QED BY <1>1 DEF Inconsistent

\* The controller comes to rest by a status that needs no write, and rests until
\* something is queued; only the loss of a pod goes unnoticed.
LEMMA RestSteps ==
  ASSUME TypeOK, ChangesQueued, [Next]_vars, Caught'
  PROVE  /\ UNCHANGED <<specs, status>>
         /\ \/ StatusUnchanged /\ inst = Stored
            \/ /\ Caught
               /\ UNCHANGED <<pc, err>> \/ (pc = "truncate" /\ pc' = "idle" /\ ~err)
               /\ pods' = pods \/ Spend("losses")
<1>. USE DEF Caught
<1>0. pwCache.gen \in 1..Gen /\ Gen \in Nat /\ specs \in Seq(Version) /\ specs[Gen] \in Version
  BY DEF TypeOK, ApiTypeOK, ProcessTypeOK, Gen
<1>1. ASSUME UNCHANGED <<specs, status, queued, pwCache>>,
             UNCHANGED <<pc, err>> \/ (pc = "truncate" /\ pc' = "idle" /\ ~err),
             pods' = pods \/ Spend("losses")
      PROVE  /\ Caught
             /\ UNCHANGED <<pc, err>> \/ (pc = "truncate" /\ pc' = "idle" /\ ~err)
             /\ pods' = pods \/ Spend("losses")
  BY <1>1 DEF Stored, Phase, Gen
<1>2. ASSUME NEW v \in Version, specs' = Append(specs, v), pwCache' = pwCache PROVE FALSE
  BY <1>0, <1>2, SpecsGrow DEF Stored, Gen
<1>3. CASE UserUpdate \/ UserDelete \/ CollectWorkload
  <2>1. \A phase \in Phases : [specs[Gen] EXCEPT !.phase = phase] \in Version
    BY <1>0 DEF Version
  <2>. QED BY <1>2, <1>3, <2>1 DEF UserUpdate, UserDelete, CollectWorkload, Versions,
           Phases, cacheVars
<1>4. CASE CollectPod \/ CollectRevision
  BY <1>4 DEF CollectPod, CollectRevision, Phase, Gen
<1>5. CASE PodLost
  BY <1>1, <1>5 DEF PodLost, cacheVars, passVars
<1>6. CASE SyncPods \/ SyncRevisions \/ UNCHANGED vars
  BY <1>1, <1>6 DEF SyncPods, SyncRevisions, vars, apiVars, cacheVars, passVars
<1>7. CASE SyncWorkload \/ Resync \/ ReviseFails \/ StatusFails
  BY <1>7 DEF SyncWorkload, Resync, ReviseFails, StatusFails, ReturnError
<1>8. CASE Crash
  BY <1>8 DEF Crash, apiVars, Phase, Gen
<1>9. CASE ReconcileNotFound
  BY <1>9 DEF ReconcileNotFound, apiVars, cacheVars, Cached, Stored, Phase, Gen
<1>10. CASE StartReconcile \/ ReuseRevision \/ RollBackRevision \/ CreateRevision
            \/ CreatePod \/ CreateFails \/ AbandonCreates \/ ChooseVictims \/ DeletePod
            \/ DeleteFails
  BY <1>10 DEF StartReconcile, ReuseRevision, RollBackRevision, CreateRevision, BeginSync,
     CreatePod, CreateFails, AbandonCreates, ChooseVictims, DeletePod, DeleteFails
<1>11. CASE StatusUnchanged
  BY <1>11 DEF StatusUnchanged, BeginTruncate, ChangesQueued, cacheVars, Stored, Gen
<1>12. CASE CommitStatus
  <2>1. inst = pwCache /\ pwCache' = pwCache /\ pc = "status" /\ status' = NewStatus
    BY <1>12 DEF CommitStatus, BeginTruncate, ChangesQueued, cacheVars
  <2>2. inst.status = NewStatus
    BY <2>1 DEF Stored
  <2>. QED BY <1>12, <2>1, <2>2, WriteDiffers DEF CommitStatus
<1>13. CASE DeleteRevision \/ TruncateFails
  BY <1>1, <1>13 DEF DeleteRevision, TruncateFails, cacheVars
<1>14. CASE EndReconcile
  BY <1>1, <1>14 DEF EndReconcile, Requeued, apiVars, cacheVars, TypeOK, ProcessTypeOK,
     PassTypeOK
<1>. QED
  BY <1>3, <1>4, <1>5, <1>6, <1>7, <1>8, <1>9, <1>10, <1>11, <1>12, <1>13, <1>14
     DEF Next, Environment, Informers, Pass

\* A status that needs no write speaks of the version it was computed from.
LEMMA UnchangedReports ==
  ASSUME IInv, StatusUnchanged, inst = Stored PROVE Reported
<1>1. /\ TypeOK /\ pc = "status" /\ inst.gen = Gen /\ inst.status = status
      /\ upd = specs[Gen].template /\ status.observed <= Gen
  BY DEF IInv, StatusUnchanged, Stored, WorksForWhatItRead, Wanted, StatusBehindCache
<1>2. NewStatus.observed = Gen /\ NewStatus.update = upd
  BY <1>1 DEF NewStatus
<1>3. status.observed \in Nat /\ Gen \in Nat
  BY <1>1 DEF TypeOK, ApiTypeOK, WorkloadStatus, Gen
<1>. QED BY <1>1, <1>2, <1>3 DEF StatusUnchanged, Inconsistent, Reported

\* At rest the status speaks of the latest version.
LEMMA NextReported ==
  ASSUME IInv, ChangesQueued, CaughtReported, [Next]_vars PROVE CaughtReported'
<1>. SUFFICES ASSUME Caught' PROVE Reported'
  BY DEF CaughtReported
<1>1. TypeOK
  BY DEF IInv
<1>2. UNCHANGED <<specs, status>> /\ Reported
  BY <1>1, RestSteps, UnchangedReports DEF CaughtReported
<1>. QED BY <1>2 DEF Reported, Gen

\* Where events and passes follow each other, the invariant holds.
LEMMA QuietInvariant == Spec => []QInv
<1>1. Init => QInv
  BY InitGroups DEF Init, QInv, ChangesQueued, CaughtReported, Caught
<1>2. QInv /\ GroupInv' /\ [Next]_vars => QInv'
  BY NextChangesQueued, NextReported DEF QInv, GroupInv, CountInv, IInv
<1>. QED BY <1>1, <1>2, GroupsInvariant, PTL DEF Spec

\* The controller stops working only when its status speaks of the latest version,
\* whatever fails, lags, is lost or crashes: an edit during a pass is in the queue
\* or in the cache's future, and a failure puts the key back.
THEOREM QuietAlwaysMeansObserved == Spec => []QuietMeansObserved
<1>1. QInv => QuietMeansObserved
  BY DEF QInv, CaughtReported, Caught, Reported, QuietMeansObserved, Quiet, InformersSynced
<1>. QED BY <1>1, QuietInvariant, PTL

-----------------------------------------------------------------------------
(* While no pod is lost and no pass starts on lagging caches.              *)

\* What is spent was there before.
LEMMA NextBudget ==
  ASSUME TypeOK, BudgetFalls, [Next]_vars
  PROVE  /\ BudgetFalls' /\ (Unspent' => Unspent)
         /\ Unspent' => ~Spend("stale") /\ ~Spend("losses")
<1>. /\ {"stale", "losses"} \subseteq Acts /\ budget \in [Acts -> Nat]
     /\ Budget \in [Acts -> Nat]
  BY BoundsAssumption DEF Acts, Faults, TypeOK
<1>1. ASSUME NEW a \in Acts, Spend(a)
      PROVE  \A f \in {"stale", "losses"} :
               budget'[f] = IF f = a THEN budget[f] - 1 ELSE budget[f]
  BY <1>1 DEF Spend
<1>2. CASE UNCHANGED budget
  <2>1. ASSUME NEW a \in {"stale", "losses"}, Spend(a) PROVE FALSE
    BY <1>1, <1>2, <2>1
  <2>. QED BY <1>2, <2>1 DEF BudgetFalls, Unspent
<1>3. ASSUME NEW a \in Acts, Spend(a) PROVE BudgetFalls' /\ (Unspent' => Unspent)
  BY <1>1, <1>3 DEF BudgetFalls, Unspent
<1>4. ASSUME NEW a \in {"stale", "losses"}, Spend(a) PROVE ~Unspent'
  BY <1>1, <1>4 DEF BudgetFalls, Unspent
<1>. QED BY <1>2, <1>3, <1>4, BudgetSteps

\* The current revision is chosen once, from the status or from the template.
LEMMA NextCurrent ==
  ASSUME TypeOK, CurrentFromStatus, [Next]_vars PROVE CurrentFromStatus'
<1>1. CASE pc' \in {"idle", "revise"}
  BY <1>1 DEF CurrentFromStatus, Running
<1>2. CASE pc = "revise" /\ BeginSync(Wanted.template)
  BY <1>2 DEF BeginSync, CurrentOr, CurrentFromStatus
<1>3. CASE PassGoesOn
  BY <1>3 DEF PassGoesOn, CurrentFromStatus, Running, TypeOK, PassTypeOK
<1>. QED BY <1>1, <1>2, <1>3, PassSteps

\* What changes pods under a pass is the loss of one or the end of the workload.
LEMMA NextUndisturbed ==
  ASSUME TypeOK, BudgetFalls, Undisturbed, [Next]_vars PROVE Undisturbed'
<1>. SUFFICES ASSUME Phase' = "live", Unspent' PROVE ~disturbed'
  BY DEF Undisturbed
<1>0. Phase = "live" /\ ~disturbed /\ ~Spend("stale") /\ ~Spend("losses")
  BY NextBudget, LiveBefore DEF Undisturbed
<1>1. CASE UserUpdate \/ UserDelete \/ CollectRevision \/ CollectWorkload \/ Informers
           \/ Resync \/ ReconcileNotFound \/ UNCHANGED vars
  BY <1>0, <1>1 DEF UserUpdate, UserDelete, CollectRevision, CollectWorkload, Informers,
     SyncWorkload, SyncPods, SyncRevisions, Resync, ReconcileNotFound, vars
<1>2. CASE CollectPod \/ PodLost
  BY <1>0, <1>2 DEF CollectPod, PodLost
<1>3. CASE ReviseFails \/ StatusFails \/ EndReconcile \/ Crash
  BY <1>3 DEF ReviseFails, StatusFails, ReturnError, EndReconcile, Crash, ResetPass
<1>4. CASE StartReconcile
  BY <1>0, <1>4 DEF StartReconcile, InformersSynced
<1>5. CASE ReuseRevision \/ RollBackRevision \/ CreateRevision
  BY <1>0, <1>5 DEF ReuseRevision, RollBackRevision, CreateRevision, BeginSync
<1>6. CASE CreatePod \/ CreateFails \/ AbandonCreates \/ ChooseVictims \/ DeletePod
           \/ DeleteFails
  BY <1>0, <1>6 DEF CreatePod, CreateFails, AbandonCreates, ChooseVictims, DeletePod,
     DeleteFails
<1>7. CASE StatusUnchanged \/ CommitStatus \/ DeleteRevision \/ TruncateFails
  BY <1>0, <1>7 DEF StatusUnchanged, CommitStatus, BeginTruncate, DeleteRevision,
     TruncateFails
<1>. QED BY <1>1, <1>2, <1>3, <1>4, <1>5, <1>6, <1>7 DEF Next, Environment, Pass

\* The target of a pass whose status needs no write is what is wanted: its current
\* revision is the one of the status.
LEMMA UnchangedDesired ==
  ASSUME IInv, CurrentFromStatus, PassReachesTarget, StatusUnchanged, inst = Stored,
         Phase = "live", ~disturbed, ~err
  PROVE  Desired
<1>1. /\ TypeOK /\ pc = "status" /\ Wanted = specs[Gen] /\ upd = specs[Gen].template
      /\ inst.status = status /\ Syncing
  BY DEF IInv, StatusUnchanged, Stored, WorksForWhatItRead, Wanted, Syncing, Phase
<1>2. status.current = NewStatus.current /\ NewStatus.current \in {cur, upd}
  BY <1>1 DEF StatusUnchanged, Inconsistent, NewStatus
<1>3. cur \in {upd, status.current}
  BY <1>1 DEF CurrentFromStatus, Running
<1>4. status.current # upd <=> cur # upd
  BY <1>2, <1>3
<1>. QED BY <1>1, <1>4 DEF PassReachesTarget, Desired

\* At rest the pods are what is wanted.
LEMMA NextDesired ==
  ASSUME DInv, PassReachesTarget, [Next]_vars PROVE CaughtDesired'
<1>. SUFFICES ASSUME Caught', Unspent', pc' = "truncate" => ~err' PROVE Desired'
  BY DEF CaughtDesired
<1>1. IInv /\ TypeOK
  BY DEF DInv, QInv, GroupInv, CountInv, IInv
<1>2. Unspent /\ ~Spend("losses") /\ UNCHANGED <<specs, status>>
  BY <1>1, NextBudget, RestSteps DEF DInv, QInv
<1>3. CASE StatusUnchanged /\ inst = Stored
  <2>1. Phase = "live" /\ ~err /\ ~disturbed /\ pods' = pods
    BY <1>1, <1>2, <1>3, LiveBefore
       DEF Caught, DInv, Undisturbed, StatusUnchanged, BeginTruncate
  <2>2. Desired
    BY <1>1, <1>3, <2>1, UnchangedDesired DEF DInv
  <2>. QED BY <1>2, <2>1, <2>2 DEF Desired, Updated, NotUpdated, Active, Gen
<1>4. CASE ~(StatusUnchanged /\ inst = Stored)
  <2>1. Caught /\ pods' = pods /\ (pc = "truncate" => ~err)
    BY <1>1, <1>2, <1>4, RestSteps DEF DInv, QInv, Caught
  <2>2. Desired
    BY <1>2, <2>1 DEF DInv, CaughtDesired
  <2>. QED BY <1>2, <2>1, <2>2 DEF Desired, Updated, NotUpdated, Active, Gen
<1>. QED BY <1>3, <1>4

\* The invariant holds in every state of every behaviour.
LEMMA DesiredInvariant == Spec => []DInv
<1>1. ASSUME Init, QInv PROVE DInv
  <2>1. BudgetFalls
    BY <1>1, BoundsAssumption DEF Init, BudgetFalls, Acts, Faults
  <2>. QED BY <1>1, <2>1 DEF Init, DInv, CurrentFromStatus, Running, Undisturbed,
           CaughtDesired, Caught
<1>2. DInv /\ PassReachesTarget /\ QInv' /\ [Next]_vars => DInv'
  BY NextBudget, NextCurrent, NextUndisturbed, NextDesired
     DEF DInv, QInv, GroupInv, CountInv, IInv
<1>. QED BY <1>1, <1>2, QuietInvariant, PassAlwaysReachesTarget, PTL DEF Spec

\* The controller stops working only when the pods are as the latest spec wants
\* them, whatever fails or crashes, as long as no pod is lost and no pass starts
\* on a cache that lags.
THEOREM RecoversAlways == Spec => []RecoversFromErrors
<1>1. DInv => RecoversFromErrors
  BY DEF DInv, CaughtDesired, Caught, Unspent, RecoversFromErrors, Quiet, InformersSynced
<1>. QED BY <1>1, DesiredInvariant, PTL

\* Where no pod is ever lost and no pass starts on a cache that lags it stops only
\* then, whatever users edit.
THEOREM QuietAlwaysMeansDesired ==
  NoLag /\ Budget["losses"] = 0 /\ Spec => []QuietMeansDesired
<1>. SUFFICES ASSUME NoLag, Budget["losses"] = 0 PROVE Spec => []QuietMeansDesired
  OBVIOUS
<1>1. DInv => QuietMeansDesired
  <2>. SUFFICES ASSUME DInv, Quiet PROVE Desired
    BY DEF QuietMeansDesired
  <2>1. budget \in [Acts -> Nat] /\ {"stale", "losses"} \subseteq Acts
    BY DEF DInv, QInv, GroupInv, CountInv, IInv, TypeOK, Acts, Faults
  <2>2. Unspent
    BY <2>1 DEF DInv, BudgetFalls, Unspent, NoLag
  <2>. QED BY <2>2 DEF DInv, CaughtDesired, Caught, Quiet, InformersSynced
<1>. QED BY <1>1, DesiredInvariant, PTL

-----------------------------------------------------------------------------
(* The numbers of the revisions, while no pass starts on lagging caches.   *)

\* The one that sorts last is the only one.
LEMMA LastIsNewest ==
  ASSUME NEW list \in [Templates -> Nat], NEW t \in Latest(list),
         NumbersDiffer(list)
  PROVE  Latest(list) = {t}
<1>1. ASSUME NEW u \in Latest(list) PROVE u = t
  <2>1. list[u] = list[t]
    BY <1>1 DEF Latest, Listed
  <2>. QED BY <1>1, <2>1 DEF Latest, NumbersDiffer
<1>. QED BY <1>1

\* The next number is above all others.
LEMMA NextIsNewest ==
  ASSUME NEW list \in [Templates -> Nat], NEW t \in Templates,
         NumbersDiffer(list), NEW n \in NextRevision(list)
  PROVE  LET raised == [list EXCEPT ![t] = n]
         IN Latest(raised) = {t} /\ NumbersDiffer(raised)
<1>. DEFINE raised == [list EXCEPT ![t] = n]
<1>1. n \in Nat \ {0} /\ \A u \in Listed(list) : list[u] < n
  <2>1. CASE Listed(list) = {}
    BY <2>1 DEF NextRevision
  <2>2. CASE Listed(list) # {}
    <3>1. PICK last \in Latest(list) : n = list[last] + 1
      BY <2>2 DEF NextRevision
    <3>. QED BY <3>1 DEF Latest, Listed
  <2>. QED BY <2>1, <2>2
<1>2. /\ raised[t] = n /\ Listed(raised) = Listed(list) \cup {t}
      /\ \A u \in Listed(list) \ {t} : raised[u] = list[u] /\ raised[u] \in Nat /\ raised[u] < n
  BY <1>1 DEF Listed
<1>. HIDE DEF raised
<1>3. NumbersDiffer(raised)
  BY <1>1, <1>2 DEF NumbersDiffer
<1>4. \A u \in Listed(raised) : raised[u] <= n
  BY <1>1, <1>2
<1>5. t \in Latest(raised)
  BY <1>2, <1>4 DEF Latest
<1>6. raised \in [Templates -> Nat]
  BY <1>1 DEF raised
<1>7. Latest(raised) = {t}
  BY <1>1, <1>3, <1>5, <1>6, LastIsNewest
<1>. QED BY <1>3, <1>7 DEF raised

\* Deleting others leaves the last one.
LEMMA StaysNewest ==
  ASSUME NEW list \in [Templates -> Nat], NEW t, Latest(list) = {t}, NEW gone, gone # t,
         NumbersDiffer(list)
  PROVE  LET rest == [list EXCEPT ![gone] = 0]
         IN Latest(rest) = {t} /\ NumbersDiffer(rest)
<1>. DEFINE rest == [list EXCEPT ![gone] = 0]
<1>1. /\ Listed(rest) = Listed(list) \ {gone} /\ t \in Listed(rest)
      /\ \A u \in Listed(rest) : rest[u] = list[u]
      /\ rest \in [Templates -> Nat]
  BY DEF Listed, Latest
<1>. HIDE DEF rest
<1>2. \A u \in Listed(list) : list[u] <= list[t]
  BY DEF Latest
<1>3. t \in Latest(rest)
  BY <1>1, <1>2 DEF Latest
<1>4. NumbersDiffer(rest)
  BY <1>1 DEF NumbersDiffer
<1>5. Latest(rest) = {t}
  BY <1>1, <1>3, <1>4, LastIsNewest
<1>. QED BY <1>4, <1>5 DEF rest

\* All that a step can do to the revisions of a live workload.
LEMMA RevisionSteps ==
  ASSUME TypeOK, [Next]_vars, Phase = "live"
  PROVE  \/ ReuseRevision \/ RollBackRevision \/ CreateRevision
         \/ /\ pc = "truncate" /\ pc' = "truncate" /\ upd' = upd
            /\ \E t \in trash : revs' = [revs EXCEPT ![t] = 0]
         \/ pc = "revise" /\ ReturnError /\ WriteRevision(Wanted.template)
         \/ revs' = revs /\ ~(pc = "revise" /\ BeginSync(Wanted.template))
<1>1. ASSUME revs' = revs, pc = "revise" => pc' \in {"idle", "revise"}
      PROVE  revs' = revs /\ ~(pc = "revise" /\ BeginSync(Wanted.template))
  BY <1>1 DEF BeginSync
<1>2. CASE UserUpdate \/ UserDelete \/ CollectWorkload \/ PodLost \/ Informers \/ Resync
           \/ UNCHANGED vars
  BY <1>1, <1>2 DEF UserUpdate, UserDelete, CollectWorkload, PodLost, Informers,
     SyncWorkload, SyncPods, SyncRevisions, Resync, apiVars, vars
<1>3. CASE CollectPod \/ CollectRevision
  BY <1>3 DEF CollectPod, CollectRevision
<1>4. CASE ReconcileNotFound \/ StartReconcile \/ ReviseFails \/ StatusFails \/ EndReconcile
           \/ Crash
  <2>1. CASE ReviseFails BY <1>1, <2>1 DEF ReviseFails, ReturnError
  <2>2. QED
    BY <1>1, <1>4, <2>1 DEF ReconcileNotFound, StartReconcile, StatusFails, ReturnError,
       EndReconcile, Crash, apiVars
<1>5. CASE CreatePod \/ CreateFails \/ AbandonCreates \/ ChooseVictims \/ DeletePod
           \/ DeleteFails \/ StatusUnchanged \/ CommitStatus
  BY <1>1, <1>5 DEF CreatePod, CreateFails, AbandonCreates, ChooseVictims, DeletePod,
     DeleteFails, StatusUnchanged, CommitStatus, BeginTruncate, apiVars
<1>6. CASE DeleteRevision \/ TruncateFails
  BY <1>1, <1>6 DEF DeleteRevision, TruncateFails, Oldest
<1>. QED BY <1>2, <1>3, <1>4, <1>5, <1>6 DEF Next, Environment, Pass

\* A pass names the newest revision, which it finds so or makes so.
LEMMA NamedIsNewest ==
  ASSUME TypeOK, revList = revs, NumbersDiffer(revs),
         ReuseRevision \/ RollBackRevision \/ CreateRevision
  PROVE  Latest(revs') = {upd'} /\ NumbersDiffer(revs')
<1>. DEFINE t == Wanted.template
<1>1. /\ pc = "revise" /\ upd' = t /\ t \in Templates /\ revs \in [Templates -> Nat]
  BY WantedType DEF ReuseRevision, RollBackRevision, CreateRevision, BeginSync,
     TypeOK, ApiTypeOK
<1>2. CASE ReuseRevision
  BY <1>1, <1>2, LastIsNewest DEF ReuseRevision
<1>3. CASE RollBackRevision \/ CreateRevision
  <2>1. PICK n \in NextRevision(revs) : revs' = [revs EXCEPT ![t] = n]
    <3>1. revs[t] # 0 => ~CreateRevision BY <1>1 DEF CreateRevision, Listed
    <3>2. QED BY <1>1, <1>3, <3>1 DEF RollBackRevision, CreateRevision, WriteRevision
  <2>. HIDE DEF t
  <2>. QED BY <1>1, <2>1, NextIsNewest
<1>. QED BY <1>2, <1>3

\* Every step keeps the update revision the newest.
LEMMA NextNewest ==
  ASSUME NInv, [Next]_vars PROVE Newest'
<1>0. TypeOK /\ IInv /\ ChangesQueued
  BY DEF NInv, QInv, GroupInv, CountInv, IInv
<1>. SUFFICES ASSUME Phase' = "live"
              PROVE  /\ NumbersDiffer(revs') /\ (Running' => Latest(revs') = {upd'})
                     /\ pc' = "idle" /\ Caught' => Latest(revs') = {status'.update}
  BY DEF Newest
<1>1. /\ Phase = "live" /\ Kept /\ NumbersDiffer(revs) /\ (Running => Latest(revs) = {upd})
      /\ pc = "idle" /\ Caught => Latest(revs) = {status.update}
  BY <1>0, LiveBefore DEF NInv, RInv, Newest
<1>2. CASE ReuseRevision \/ RollBackRevision \/ CreateRevision
  <2>1. revList = revs /\ pc' # "idle"
    BY <1>1, <1>2 DEF Kept, PassKnowsRevisions, ReuseRevision, RollBackRevision,
       CreateRevision, BeginSync
  <2>. QED BY <1>0, <1>1, <1>2, <2>1, NamedIsNewest
<1>3. ASSUME pc = "truncate", pc' = "truncate", upd' = upd,
             NEW t \in trash, revs' = [revs EXCEPT ![t] = 0]
      PROVE  NumbersDiffer(revs') /\ Latest(revs') = {upd'}
  <2>1. t # upd /\ Latest(revs) = {upd} /\ revs \in [Templates -> Nat]
    BY <1>0, <1>1, <1>3 DEF Kept, TrashUnused, Running, TypeOK, ApiTypeOK
  <2>. QED BY <1>1, <1>3, <2>1, StaysNewest
<1>4. CASE revs' = revs /\ ~(pc = "revise" /\ BeginSync(Wanted.template))
  <2>1. NumbersDiffer(revs')
    BY <1>1, <1>4
  <2>2. ASSUME Running' PROVE Latest(revs') = {upd'}
    <3>1. PassGoesOn
      BY <1>0, <1>4, <2>2, PassSteps DEF Running
    <3>2. Running /\ upd' = upd
      BY <1>0, <2>2, <3>1 DEF PassGoesOn, Running, TypeOK, PassTypeOK
    <3>. QED BY <1>1, <1>4, <3>2
  <2>3. ASSUME pc' = "idle", Caught' PROVE Latest(revs') = {status'.update}
    <3>1. /\ status' = status
          /\ (pc = "idle" /\ Caught) \/ pc = "truncate"
      BY <1>0, <2>3, RestSteps DEF StatusUnchanged, BeginTruncate
    <3>2. pc = "truncate" => Latest(revs) = {upd} /\ status.update = upd
      BY <1>1 DEF Running, Kept, PassKnowsStatus
    <3>. QED BY <1>1, <1>4, <3>1, <3>2
  <2>. QED BY <2>1, <2>2, <2>3
<1>5. CASE pc = "revise" /\ ReturnError /\ WriteRevision(Wanted.template)
  <2>1. revList = revs /\ Wanted.template \in Templates /\ revs \in [Templates -> Nat]
    BY <1>0, <1>1, <1>5, WantedType DEF Kept, PassKnowsRevisions, TypeOK, ApiTypeOK
  <2>2. PICK n \in NextRevision(revs) : revs' = [revs EXCEPT ![Wanted.template] = n]
    BY <1>5, <2>1 DEF WriteRevision
  <2>3. NumbersDiffer(revs') BY <1>1, <2>1, <2>2, NextIsNewest
  <2>. QED BY <1>5, <2>3 DEF ReturnError, Running, Caught
<1>. QED BY <1>0, <1>1, <1>2, <1>3, <1>4, <1>5, RevisionSteps

\* When the controller stops working the update revision has the highest number of
\* all: creations and roll backs give it, truncation spares it, and failures, lost
\* pods and crashes do not undo it.
THEOREM QuietRevisionAlwaysNewest == NoLag /\ Spec => []QuietRevisionIsNewest
<1>1. ASSUME Init PROVE Newest
  BY <1>1 DEF Init, Newest, NumbersDiffer, Listed, NoRevs, Running, Caught
<1>2. NInv /\ RInv' /\ QInv' /\ [Next]_vars => NInv'
  BY NextNewest DEF NInv
<1>3. NInv => QuietRevisionIsNewest
  BY DEF NInv, Newest, Caught, QuietRevisionIsNewest, Quiet, InformersSynced
<1>. QED BY <1>1, <1>2, <1>3, KeptAlways, QuietInvariant, PTL DEF Spec, NInv

-----------------------------------------------------------------------------
(* While nothing fails and the quota lets every pass finish.               *)

\* Users edit and delete, nothing else happens,
OnlyEdits == \A f \in Faults : Budget[f] = 0

\* and there may be as many pods as a pass finds and makes.
QuotaSuffices == \A r \in ReplicaChoices : 2 * r <= Cardinality(Pods)

NoFaultsLeft == \A f \in Faults : budget[f] = 0

\* More pods of another revision than replicas, and no other revision is current:
\* deletePods refuses, pass after pass.
Stuck ==
  /\ status.current = specs[Gen].template
  /\ Cardinality(NotUpdated(pods, specs[Gen].template)) > specs[Gen].replicas

CountsTrue == /\ status.replicas = Cardinality(Active(pods))
              /\ status.updated = Cardinality(Updated(pods, status.update))

\* Once the status speaks of the latest version the pods are as that wants them,
\* or stuck, and passes leave them alone.
Settled ==
  status.observed = Gen =>
    /\ status.current \in Templates /\ (Desired \/ Stuck)
    /\ pc \in {"create", "delete", "status"} => pods = view /\ pc # "delete"
    /\ status.failed => ~CountsTrue \/ Stuck

\* The status is true when nothing is queued or about to be.
CaughtTrue == Caught /\ (pc = "truncate" => ~err) => StatusIsTrue

\* Only deletePods fails, and only when it refuses.
OnlyRefusals ==
  err => /\ pc \in {"status", "truncate"} /\ cur = upd
         /\ pods = view /\ Cardinality(NotUpdated(view, upd)) > Wanted.replicas

\* A pass finds half of the quota free.
HalfFree ==
  /\ pc # "idle" => 2 * Found <= Cardinality(Pods)
  /\ pc \in {"idle", "revise", "truncate"} => 2 * There <= Cardinality(Pods)
  /\ pc \in {"revise", "create"} => Active(podCache) \subseteq Active(pods)

\* The pass takes the current revision from the status.
CurrentIsKnown ==
  Running /\ inst.status.current # None => cur = inst.status.current

PassIsLive == pc # "idle" => Wanted.phase = "live"

Calm == /\ Settled /\ CaughtTrue /\ OnlyRefusals /\ HalfFree /\ CurrentIsKnown
        /\ PassIsLive

CInv == DInv /\ RInv /\ NoFaultsLeft /\ (Phase = "live" => Calm)

\* What is left at zero stays there.
LEMMA NextNoFaults ==
  ASSUME TypeOK, NoFaultsLeft, [Next]_vars
  PROVE  NoFaultsLeft' /\ \A f \in Faults : ~Spend(f)
<1>1. ASSUME NEW a \in Acts, Spend(a) PROVE a \notin Faults /\ NoFaultsLeft'
  BY <1>1 DEF Spend, NoFaultsLeft, TypeOK, Acts
<1>2. CASE UNCHANGED budget
  BY <1>1, <1>2 DEF NoFaultsLeft, Acts
<1>. QED BY <1>1, <1>2, BudgetSteps DEF Acts

\* What holds of a pass that nothing disturbs.
LEMMA CalmFacts ==
  ASSUME OnlyEdits, CInv, Phase = "live"
  PROVE  /\ TypeOK /\ IInv /\ CountInv /\ Counts /\ GroupsRight /\ ~disturbed
         /\ ChangesQueued /\ Calm /\ Kept
<1>1. GroupInv /\ CountInv /\ IInv /\ TypeOK /\ ChangesQueued /\ Calm /\ Kept
  BY DEF CInv, DInv, QInv, GroupInv, CountInv, IInv, RInv
<1>2. Unspent
  BY DEF CInv, NoFaultsLeft, OnlyEdits, Unspent, Faults
<1>3. ~disturbed
  BY <1>2 DEF CInv, DInv, Undisturbed
<1>. QED BY <1>1, <1>3 DEF GroupInv, CountInv

\* There is room for every pod that a pass still has to make.
LEMMA RoomForPods ==
  ASSUME OnlyEdits, QuotaSuffices, CInv, Phase = "live", pc = "create",
         plan.up > 0 \/ plan.upOld > 0
  PROVE  FreePods # {}
<1>. DEFINE d == Diffs(cur, upd)
            N == Cardinality(Pods)
            r == Wanted.replicas
<1>1. /\ TypeOK /\ Active(view) \subseteq Active(pods) /\ Active(podCache) \subseteq Active(pods)
      /\ There + plan.up + plan.upOld <= Found + d.up + d.upOld
      /\ 2 * Found <= N
  BY CalmFacts DEF Counts, CreationsCount, Calm, HalfFree
<1>2. /\ plan.up \in Nat /\ plan.upOld \in Nat /\ Found \in Nat /\ There \in Nat
      /\ d.up \in Nat /\ d.upOld \in Nat /\ d.up + d.upOld <= r
  BY <1>1, ActiveCount, DiffsBalance DEF TypeOK, PassTypeOK
<1>3. r \in Nat /\ 2 * r <= N /\ N \in Nat
  BY <1>1, WantedType, ActiveCount DEF QuotaSuffices, Version
<1>. HIDE DEF d, N, r
<1>4. There < N
  BY <1>1, <1>2, <1>3
<1>5. PICK p \in Pods : p \notin Active(pods)
  <2>1. Active(pods) # Pods
    BY <1>2, <1>3, <1>4 DEF There, N
  <2>. QED BY <2>1 DEF Active
<1>6. pods[p] = None /\ podCache[p] = None /\ view[p] = None
  BY <1>1, <1>5 DEF Active
<1>. QED BY <1>6 DEF FreePods

\* What a step can be while nothing fails.
LEMMA CalmSteps ==
  ASSUME OnlyEdits, QuotaSuffices, CInv, [Next]_vars, Phase = "live"
  PROVE  \/ /\ \E v \in Version : specs' = Append(specs, v)
            /\ UNCHANGED <<status, pods, podCache, pc, inst, view, cur, upd, err>>
         \/ /\ UNCHANGED <<specs, status, pods, pc, inst, view, cur, upd, err>>
            /\ podCache' \in {podCache, pods}
         \/ StartReconcile /\ InformersSynced
         \/ pc = "revise" /\ BeginSync(Wanted.template)
         \/ CreatePod \/ ChooseVictims \/ DeletePod
         \/ StatusUnchanged \/ CommitStatus \/ EndReconcile
<1>0. /\ TypeOK /\ Kept /\ Calm /\ Counts /\ \A f \in Faults : ~Spend(f)
      /\ {"stale", "losses", "errors", "crashes"} \subseteq Faults
  BY CalmFacts, NextNoFaults DEF CInv, Faults
<1>1. CASE UserUpdate \/ UserDelete
  <2>1. specs[Gen] \in Version
    BY <1>0 DEF TypeOK, ApiTypeOK, Gen
  <2>2. \A phase \in {"deleting", "gone"} : [specs[Gen] EXCEPT !.phase = phase] \in Version
    BY <2>1 DEF Version, Phases
  <2>. QED BY <1>1, <2>2 DEF UserUpdate, UserDelete, Versions, cacheVars, passVars
<1>2. CASE CollectPod \/ CollectRevision \/ CollectWorkload
  BY <1>2 DEF CollectPod, CollectRevision, CollectWorkload
<1>3. CASE Informers \/ Resync \/ UNCHANGED vars
  BY <1>3 DEF Informers, SyncWorkload, SyncPods, SyncRevisions, Resync, vars, apiVars,
     cacheVars, passVars
<1>4. CASE ReconcileNotFound \/ DeleteRevision \/ TruncateFails
  BY <1>4 DEF ReconcileNotFound, DeleteRevision, TruncateFails, apiVars, cacheVars, passVars
<1>5. CASE StartReconcile
  BY <1>0, <1>5 DEF StartReconcile
<1>6. CASE ReuseRevision \/ RollBackRevision \/ CreateRevision
  BY <1>6 DEF ReuseRevision, RollBackRevision, CreateRevision
<1>7. ~ReviseFails /\ ~StatusFails /\ ~PodLost /\ ~Crash
  BY <1>0 DEF ReviseFails, StatusFails, PodLost, Crash, Kept, PassKnowsRevisions
<1>8. ~CreateFails
  BY <1>0, RoomForPods DEF CreateFails
<1>9. ~AbandonCreates
  BY <1>0 DEF AbandonCreates, Calm, OnlyRefusals
<1>10. ~DeleteFails
  BY <1>0 DEF DeleteFails, NextVictims, Counts, DeletionsCount, Active
<1>. QED BY <1>1, <1>2, <1>3, <1>4, <1>5, <1>6, <1>7, <1>8, <1>9, <1>10
         DEF Next, Environment, Pass

\* Creations that were not planned were not made.
LEMMA NothingMade ==
  ASSUME TypeOK, Counts, GrowsToGoal, pc = "create",
         Diffs(cur, upd).up = 0, Diffs(cur, upd).upOld = 0
  PROVE  pods = view
<1>1. /\ Active(view) \subseteq Active(pods) /\ There + plan.up + plan.upOld <= Found + 0 + 0
      /\ \A p \in Active(view) : pods[p] = view[p]
      /\ plan.up \in Nat /\ plan.upOld \in Nat /\ There \in Nat /\ Found \in Nat
  BY ActiveCount DEF Counts, CreationsCount, GrowsToGoal, TypeOK, PassTypeOK
<1>2. Found <= There
  BY <1>1, ActiveCount, FS_Subset DEF Found, There
<1>3. Active(view) = Active(pods)
  BY <1>1, <1>2, ActiveCount, FS_Subset DEF Found, There
<1>. QED BY <1>1, <1>3 DEF Active, TypeOK, ApiTypeOK, PassTypeOK

\* deletePods refuses when a single revision has to give more pods than carry it.
LEMMA RefusalMeansSurplus ==
  ASSUME TypeOK, DeletionsAsPlanned, Counts, GrowsToGoal, ChooseVictims, err'
  PROVE  cur = upd /\ pods = view /\ Cardinality(NotUpdated(view, upd)) > Wanted.replicas
<1>. DEFINE d == Diffs(cur, upd)
            n == Cardinality(Updated(view, upd))
            o == Cardinality(NotUpdated(view, upd))
            r == Wanted.replicas
            part == Wanted.partition
<1>1. /\ pc = "create" /\ ~Feasible(plan, n, o)
      /\ plan.down = d.down /\ plan.downOld = d.downOld
  BY DEF ChooseVictims, CreatesDone, DeletionsAsPlanned
<1>2. /\ n \in Nat /\ o \in Nat /\ r \in Nat /\ part \in Partitions
      /\ d = CalculateDiffs(r, part, n, o, cur = upd)
  BY <1>1, GroupsFinite, WantedType DEF Diffs
<1>. HIDE DEF d, n, o, r, part
<1>3. ~Feasible(d, n, o)
  BY <1>1 DEF Feasible
<1>4. cur = upd
  <2>1. ASSUME cur # upd PROVE FALSE
    <3>1. d = CalculateDiffs(r, part, n, o, FALSE)
      BY <1>2, <2>1
    <3>2. Feasible(CalculateDiffs(r, part, n, o, FALSE), n, o)
      BY <1>2, DiffsFeasible
    <3>. QED BY <1>3, <3>1, <3>2
  <2>. QED BY <2>1
<1>5. d = CalculateDiffs(r, part, n, o, TRUE)
  BY <1>2, <1>4
<1>6. o > r /\ d.up = 0 /\ d.upOld = 0
  BY <1>2, <1>3, <1>5 DEF CalculateDiffs, Feasible, Missing, Surplus, Abs
<1>. QED BY <1>1, <1>4, <1>6, NothingMade DEF d, o, r

\* A pass for the version that the status speaks of has its goals from the status.
LEMMA SettledPass ==
  ASSUME OnlyEdits, CInv, Phase = "live", status.observed = Gen,
         pc \in {"create", "delete", "status"}
  PROVE  /\ Wanted = specs[Gen] /\ upd = specs[Gen].template /\ pods = view
         /\ cur = status.current
         /\ \A g \in Groups : Size(g) = PassGoal(g) \/ (g = "new" /\ Stuck)
<1>1. /\ TypeOK /\ IInv /\ Kept /\ Settled /\ CurrentIsKnown
  BY CalmFacts DEF Calm
<1>2. inst.gen = Gen
  BY <1>1 DEF IInv, StatusBehindCache, TypeOK, ApiTypeOK, PassTypeOK, Gen
<1>3. Wanted = specs[Gen] /\ upd = specs[Gen].template /\ pods = view
  BY <1>1, <1>2 DEF Wanted, IInv, WorksForWhatItRead, Settled
<1>4. cur = status.current /\ (Desired \/ Stuck)
  BY <1>1, NoneAssumption DEF Settled, Kept, PassKnowsStatus, CurrentIsKnown, Running
<1>5. CASE cur # upd
  BY <1>3, <1>4, <1>5 DEF Desired, Stuck, Size, PassGroup, PassGoal, Groups
<1>6. CASE cur = upd
  <2>1. Size("old") = 0 /\ PassGoal("old") = 0 /\ PassGoal("new") = Wanted.replicas
    BY <1>1, <1>6, FS_EmptySet, WantedType DEF Size, PassGroup, PassGoal
  <2>2. Size("new") = Cardinality(Updated(pods, upd)) + Cardinality(NotUpdated(pods, upd))
    BY <1>3, <1>6, GroupsAddUp DEF Size, PassGroup, Found
  <2>. QED BY <1>3, <1>4, <1>6, <2>1, <2>2 DEF Desired, Groups
<1>. QED BY <1>3, <1>4, <1>5, <1>6

\* A stuck one has more pods of other revisions than it wants in all.
LEMMA StuckPass ==
  ASSUME OnlyEdits, CInv, Phase = "live", status.observed = Gen,
         pc \in {"create", "delete", "status"}, Stuck
  PROVE  LET n == Cardinality(Updated(view, upd))
             o == Cardinality(NotUpdated(view, upd))
         IN /\ cur = upd /\ n \in Nat /\ o \in Nat /\ PassGoal("new") \in Nat
            /\ Size("new") = n + o /\ o > PassGoal("new")
<1>1. TypeOK /\ cur = upd /\ upd = specs[Gen].template /\ Wanted = specs[Gen] /\ pods = view
  BY SettledPass, CalmFacts DEF Stuck
<1>2. /\ Size("new") = Cardinality(Updated(view, upd)) + Cardinality(NotUpdated(view, upd))
      /\ PassGoal("new") = Wanted.replicas /\ Wanted.replicas \in Nat
  BY <1>1, GroupsAddUp, WantedType DEF Size, PassGroup, PassGoal, Found
<1>3. Cardinality(NotUpdated(view, upd)) > Wanted.replicas
  BY <1>1 DEF Stuck
<1>. QED BY <1>1, <1>2, <1>3, GroupsFinite

\* Such a pass makes nothing,
LEMMA SettledMakesNothing ==
  ASSUME OnlyEdits, CInv, Phase = "live", status.observed = Gen, pc = "create",
         NEW g \in Groups
  PROVE  ToMake(g) = 0
<1>1. /\ TypeOK /\ Size(g) \in Nat /\ PassGoal(g) \in Nat /\ ToMake(g) \in Nat
      /\ ToMake(g) > 0 => Size(g) + ToMake(g) <= PassGoal(g)
  BY CalmFacts, GroupTypes DEF GroupsRight, GrowsToGoal, TypeOK, PassTypeOK, ToMake
<1>2. CASE Size(g) = PassGoal(g)
  BY <1>1, <1>2
<1>3. CASE g = "new" /\ Stuck
  BY <1>1, <1>3, StuckPass
<1>. QED BY <1>2, <1>3, SettledPass

\* and takes nothing.
LEMMA SettledTakesNothing ==
  ASSUME OnlyEdits, CInv, Phase = "live", status.observed = Gen, ChooseVictims
  PROVE  pc' = "status"
<1>1. /\ pc = "create" /\ ~err /\ TypeOK
      /\ \A g \in Groups : Size(g) + ToMake(g) = PassGoal(g) + ToTake(g)
  BY CalmFacts DEF ChooseVictims, CreatesDone, GroupsRight, GrowsToGoal
<1>2. \A g \in Groups : /\ Size(g) \in Nat /\ PassGoal(g) \in Nat
                        /\ ToMake(g) = 0 /\ ToTake(g) \in Nat
  BY <1>1, GroupTypes, SettledMakesNothing DEF TypeOK, PassTypeOK, ToTake
<1>3. \A g \in Groups : Size(g) = PassGoal(g) + ToTake(g)
  BY <1>1, <1>2
<1>4. CASE Stuck
  <2>. DEFINE n == Cardinality(Updated(view, upd))
              o == Cardinality(NotUpdated(view, upd))
  <2>1. /\ n \in Nat /\ o \in Nat /\ PassGoal("new") \in Nat
        /\ Size("new") = n + o /\ o > PassGoal("new")
    BY <1>1, <1>4, StuckPass
  <2>2. n + o = PassGoal("new") + plan.down /\ plan.down \in Nat
    BY <1>2, <1>3, <2>1 DEF ToTake, Groups
  <2>. HIDE DEF n, o
  <2>3. ~(plan.down <= n)
    BY <2>1, <2>2
  <2>. QED BY <2>3 DEF ChooseVictims, Feasible, n
<1>5. CASE ~Stuck
  <2>1. \A g \in Groups : ToTake(g) = 0
    BY <1>1, <1>2, <1>3, <1>5, SettledPass
  <2>2. plan.down = 0 /\ plan.downOld = 0
    BY <2>1 DEF ToTake, Groups
  <2>3. /\ \A S \in SUBSET Pods : Cardinality(S) = 0 => S = {}
        /\ SUBSET Updated(view, upd) \subseteq SUBSET Pods
        /\ SUBSET NotUpdated(view, upd) \subseteq SUBSET Pods
    BY ActiveCount, FS_EmptySet DEF Updated, NotUpdated, Active
  <2>. QED BY <2>2, <2>3 DEF ChooseVictims
<1>. QED BY <1>4, <1>5

\* What a write leaves: the pods are as wanted, whether or not the update revision
\* becomes the current one, or deletePods has refused.
LEMMA CommitSettles ==
  ASSUME OnlyEdits, CInv, PassReachesTarget, Phase = "live", CommitStatus,
         inst.gen = Gen
  PROVE  /\ status'.current \in Templates /\ (Desired' \/ Stuck')
         /\ status'.failed => Stuck'
<1>1. /\ TypeOK /\ IInv /\ RevisionsChosen /\ OnlyRefusals /\ ~disturbed /\ PassIsLive
      /\ pc = "status" /\ Wanted = specs[Gen] /\ upd = specs[Gen].template
      /\ UNCHANGED <<specs, pods>> /\ status' = NewStatus
  BY CalmFacts DEF Calm, CountInv, CommitStatus, BeginTruncate, IInv, WorksForWhatItRead, Wanted
<1>2. /\ NewStatus.current \in {cur, upd} /\ (cur = upd => NewStatus.current = upd)
      /\ NewStatus.failed = err
      /\ cur \in Templates /\ upd \in Templates
  BY <1>1, WantedType DEF NewStatus, RevisionsChosen
<1>. DEFINE t == specs[Gen].template
<1>3. /\ Desired' <=>
           LET new == Cardinality(Updated(pods, t))
               old == Cardinality(NotUpdated(pods, t))
               target == EffectivePartition(specs[Gen].replicas, specs[Gen].partition)
           IN IF NewStatus.current # t THEN new = target /\ old = specs[Gen].replicas - target
                                       ELSE new + old = specs[Gen].replicas
      /\ Stuck' <=> /\ NewStatus.current = t
                    /\ Cardinality(NotUpdated(pods, t)) > specs[Gen].replicas
  BY <1>1 DEF Desired, Stuck, Gen, Updated, NotUpdated, Active
<1>4. CASE err
  BY <1>1, <1>2, <1>3, <1>4 DEF OnlyRefusals
<1>5. CASE ~err
  <2>1. Syncing /\ Wanted.replicas \in Nat /\ Wanted.partition \in Partitions
    BY <1>1, WantedType DEF Syncing, PassIsLive
  <2>2. /\ EffectivePartition(Wanted.replicas, Wanted.partition) \in Nat
        /\ EffectivePartition(Wanted.replicas, Wanted.partition) <= Wanted.replicas
    BY <2>1, EffectivePartitionRange
  <2>3. CASE cur = upd
    BY <1>1, <1>2, <1>3, <1>5, <2>1, <2>3 DEF PassReachesTarget
  <2>4. CASE cur # upd
    <3>1. /\ Cardinality(Updated(pods, upd)) = EffectivePartition(Wanted.replicas, Wanted.partition)
          /\ Cardinality(NotUpdated(pods, upd)) =
               Wanted.replicas - EffectivePartition(Wanted.replicas, Wanted.partition)
      BY <1>1, <1>5, <2>1, <2>4 DEF PassReachesTarget
    <3>2. CASE NewStatus.current = upd
      BY <1>1, <1>2, <1>3, <1>5, <2>1, <2>2, <3>1, <3>2
    <3>3. CASE NewStatus.current = cur
      BY <1>1, <1>2, <1>3, <1>5, <2>4, <3>1, <3>3
    <3>. QED BY <1>2, <3>2, <3>3
  <2>. QED BY <2>3, <2>4
<1>. QED BY <1>1, <1>2, <1>4, <1>5

\* Once settled, pods stay so until another version is written.
LEMMA NextSettled ==
  ASSUME OnlyEdits, QuotaSuffices, CInv, PassReachesTarget, [Next]_vars, Phase = "live"
  PROVE  Settled'
<1>0. /\ TypeOK /\ IInv /\ Counts /\ Settled /\ PassIsLive /\ ~disturbed /\ pwCache.gen <= Gen
      /\ status.observed <= pwCache.gen /\ status.observed \in Nat /\ Gen \in Nat
      /\ pwCache.gen \in Nat
  BY CalmFacts DEF Calm, IInv, StatusBehindCache, TypeOK, ApiTypeOK, ProcessTypeOK,
     WorkloadStatus, Gen
<1>same. ASSUME UNCHANGED <<specs, status, pods>>,
                status.observed = Gen /\ pc' \in {"create", "delete", "status"}
                  => pods' = view' /\ pc' # "delete"
         PROVE  Settled'
  <2>1. /\ Desired' = Desired /\ Stuck' = Stuck /\ CountsTrue' = CountsTrue /\ Gen' = Gen
    BY <1>same DEF Desired, Stuck, CountsTrue, Updated, NotUpdated, Active, Gen
  <2>. QED BY <1>0, <1>same, <2>1 DEF Settled
<1>1. ASSUME NEW v \in Version, specs' = Append(specs, v), status' = status PROVE Settled'
  <2>1. Gen' = Gen + 1
    BY <1>0, <1>1, SpecsGrow DEF Gen, TypeOK, ApiTypeOK
  <2>. QED BY <1>0, <1>1, <2>1 DEF Settled
<1>2. CASE UNCHANGED <<specs, status, pods, pc, inst, view, cur, upd, err>>
  BY <1>0, <1>2, <1>same DEF Settled
<1>3. CASE StartReconcile
  BY <1>3, <1>same DEF StartReconcile, apiVars
<1>4. CASE pc = "revise" /\ BeginSync(Wanted.template)
  <2>1. pods' = view' /\ pc' = "create"
    BY <1>0, <1>4 DEF BeginSync, BeingDeleted, PassIsLive, Counts, KnowsPods
  <2>. QED BY <1>4, <2>1, <1>same DEF BeginSync
<1>5. CASE CreatePod
  <2>1. status.observed # Gen
    <3>1. ASSUME status.observed = Gen PROVE plan.up = 0 /\ plan.upOld = 0
      BY <1>5, <3>1, SettledMakesNothing DEF CreatePod, ToMake, Groups
    <3>. QED BY <1>5, <3>1 DEF CreatePod
  <2>. QED BY <1>5, <2>1 DEF CreatePod, Settled, Gen
<1>6. CASE ChooseVictims
  <2>1. status.observed = Gen => pods = view /\ pc' = "status"
    BY <1>0, <1>6, SettledTakesNothing DEF Settled, ChooseVictims
  <2>. QED BY <1>6, <2>1, <1>same DEF ChooseVictims, apiVars
<1>7. CASE DeletePod
  BY <1>0, <1>7 DEF DeletePod, Settled, Gen
<1>8. CASE StatusUnchanged \/ EndReconcile
  BY <1>8, <1>same DEF StatusUnchanged, BeginTruncate, EndReconcile, apiVars
<1>9. CASE CommitStatus
  <2>1. status'.observed = inst.gen /\ specs' = specs /\ pc' = "truncate"
    BY <1>9 DEF CommitStatus, NewStatus, BeginTruncate
  <2>. QED BY <1>9, <2>1, CommitSettles DEF Settled, Gen
<1>. QED BY <1>1, <1>2, <1>3, <1>4, <1>5, <1>6, <1>7, <1>8, <1>9, CalmSteps

\* A status that needs no write is true: the pods are as the pass found them, and
\* an old failure would have made it differ.
LEMMA UnchangedTrue ==
  ASSUME OnlyEdits, CInv, PassReachesTarget, Phase = "live", StatusUnchanged,
         inst = Stored, ~err
  PROVE  StatusIsTrue
<1>1. /\ TypeOK /\ IInv /\ Settled /\ PassIsLive /\ ~disturbed /\ pc = "status"
      /\ inst.status = status
  BY CalmFacts DEF Calm, StatusUnchanged, Stored
<1>2. Reported
  BY <1>1, UnchangedReports
<1>3. /\ upd = status.update /\ Wanted = specs[Gen] /\ upd = specs[Gen].template
      /\ pods = view /\ cur = status.current
  BY <1>1, <1>2, SettledPass DEF Reported
<1>4. CountsTrue
  BY <1>1, <1>3 DEF StatusUnchanged, Inconsistent, NewStatus, CountsTrue
<1>5. ~Stuck
  <2>1. ASSUME Stuck PROVE FALSE
    <3>. DEFINE n == Cardinality(Updated(pods, upd))
                o == Cardinality(NotUpdated(pods, upd))
    <3>1. /\ n \in Nat /\ o \in Nat /\ o > Wanted.replicas /\ Wanted.replicas \in Nat
          /\ cur = upd
      BY <1>1, <1>3, <2>1, GroupsFinite, WantedType DEF Stuck
    <3>2. n + o = Wanted.replicas
      BY <1>1, <3>1 DEF PassReachesTarget, Syncing, PassIsLive
    <3>. QED BY <3>1, <3>2
  <2>. QED BY <2>1
<1>. QED BY <1>1, <1>2, <1>4, <1>5 DEF Settled, Reported, StatusIsTrue, CountsTrue

\* At rest the status is true.
LEMMA NextCaughtTrue ==
  ASSUME OnlyEdits, CInv, PassReachesTarget, [Next]_vars, Phase = "live"
  PROVE  CaughtTrue'
<1>. SUFFICES ASSUME Caught', pc' = "truncate" => ~err' PROVE StatusIsTrue'
  BY DEF CaughtTrue
<1>0. TypeOK /\ ChangesQueued /\ CaughtTrue /\ ~Spend("losses") /\ UNCHANGED <<specs, status>>
  BY CalmFacts, NextNoFaults, RestSteps DEF Calm, CInv, Faults
<1>1. CASE StatusUnchanged /\ inst = Stored
  <2>1. ~err /\ pods' = pods
    BY <1>1 DEF StatusUnchanged, BeginTruncate
  <2>2. StatusIsTrue
    BY <1>1, <2>1, UnchangedTrue
  <2>. QED BY <1>0, <2>1, <2>2 DEF StatusIsTrue, Updated, Active, Gen
<1>2. CASE ~(StatusUnchanged /\ inst = Stored)
  <2>1. Caught /\ pods' = pods /\ (pc = "truncate" => ~err)
    BY <1>0, <1>2, RestSteps DEF Caught
  <2>2. StatusIsTrue
    BY <1>0, <2>1 DEF CaughtTrue
  <2>. QED BY <1>0, <2>1, <2>2 DEF StatusIsTrue, Updated, Active, Gen
<1>. QED BY <1>1, <1>2

\* Nothing fails but deletePods, for want of pods to delete.
LEMMA NextOnlyRefusals ==
  ASSUME OnlyEdits, QuotaSuffices, CInv, [Next]_vars, Phase = "live"
  PROVE  OnlyRefusals'
<1>0. /\ TypeOK /\ IInv /\ Counts /\ GroupsRight /\ OnlyRefusals
  BY CalmFacts DEF Calm
<1>same. ASSUME UNCHANGED <<pods, inst, view, cur, upd, err>>, pc # "idle",
                pc' = pc \/ pc' \in {"status", "truncate"}
         PROVE  OnlyRefusals'
  <2>1. Wanted' = Wanted
    BY <1>0, <1>same, WantedStays
  <2>. QED BY <1>0, <1>same, <2>1 DEF OnlyRefusals, NotUpdated, Updated, Active
<1>1. CASE UNCHANGED <<pods, pc, inst, view, cur, upd, err>>
  BY <1>0, <1>1, <1>same DEF OnlyRefusals
<1>2. CASE StartReconcile
  BY <1>2 DEF StartReconcile, OnlyRefusals
<1>3. CASE pc = "revise" /\ BeginSync(Wanted.template)
  BY <1>0, <1>3 DEF BeginSync, OnlyRefusals
<1>4. CASE CreatePod \/ DeletePod
  BY <1>0, <1>4 DEF CreatePod, DeletePod, OnlyRefusals
<1>5. CASE ChooseVictims
  <2>1. CASE ~err'
    BY <2>1 DEF OnlyRefusals
  <2>2. CASE err'
    <3>1. /\ cur = upd /\ pods = view /\ Cardinality(NotUpdated(view, upd)) > Wanted.replicas
          /\ pc = "create" /\ pc' = "status" /\ UNCHANGED <<pods, inst, view, cur, upd>>
      BY <1>0, <1>5, <2>2, RefusalMeansSurplus
         DEF IInv, GroupsRight, ChooseVictims, CreatesDone, apiVars
    <3>2. Wanted' = Wanted
      BY <1>0, <3>1, WantedStays
    <3>. QED BY <3>1, <3>2 DEF OnlyRefusals, NotUpdated, Updated, Active
  <2>. QED BY <2>1, <2>2
<1>6. CASE StatusUnchanged \/ CommitStatus
  BY <1>6, <1>same DEF StatusUnchanged, CommitStatus, BeginTruncate
<1>7. CASE EndReconcile
  BY <1>7 DEF EndReconcile, ResetPass, OnlyRefusals
<1>. QED BY <1>1, <1>2, <1>3, <1>4, <1>5, <1>6, <1>7, CalmSteps

\* A pass that ends without an error leaves replicas pods.
LEMMA ReplicasReached ==
  ASSUME TypeOK, ReachesGoal, pc = "status", ~err, Wanted.phase = "live"
  PROVE  There = Wanted.replicas
<1>1. /\ Wanted.replicas \in Nat /\ Wanted.partition \in Partitions
      /\ \A g \in Groups : Size(g) = PassGoal(g)
  BY WantedType DEF ReachesGoal
<1>. USE DEF Groups
<1>2. CASE cur = upd
  BY <1>1, <1>2 DEF Size, PassGroup, PassGoal, There
<1>3. CASE cur # upd
  <2>1. /\ EffectivePartition(Wanted.replicas, Wanted.partition) \in Nat
        /\ EffectivePartition(Wanted.replicas, Wanted.partition) <= Wanted.replicas
    BY <1>1, EffectivePartitionRange
  <2>2. There = Size("new") + Size("old") - Cardinality({})
    <3>1. /\ Updated(pods, upd) \cup NotUpdated(pods, upd) = Active(pods)
          /\ Updated(pods, upd) \cap NotUpdated(pods, upd) = {}
          /\ Updated(pods, upd) \in SUBSET Pods /\ NotUpdated(pods, upd) \in SUBSET Pods
      BY DEF Updated, NotUpdated, Active
    <3>. QED BY <1>3, <3>1, ActiveCount, FS_Union DEF There, Size, PassGroup
  <2>. QED BY <1>1, <1>3, <2>1, <2>2, FS_EmptySet DEF PassGoal
<1>. QED BY <1>2, <1>3

\* Half of the quota is free whenever a pass begins.
LEMMA NextHalfFree ==
  ASSUME OnlyEdits, QuotaSuffices, CInv, [Next]_vars, Phase = "live"
  PROVE  HalfFree'
<1>0. /\ TypeOK /\ TypeOK' /\ Counts /\ GroupsRight /\ HalfFree /\ OnlyRefusals /\ PassIsLive
  BY CalmFacts, NextType DEF Calm
<1>same. /\ UNCHANGED view => Found' = Found
         /\ UNCHANGED pods => There' = There /\ Active(pods') = Active(pods)
         /\ UNCHANGED podCache => Active(podCache') = Active(podCache)
  BY DEF Found, There, Active
<1>1. CASE /\ UNCHANGED <<pods, pc, view>>
           /\ podCache' \in {podCache, pods}
  BY <1>0, <1>1, <1>same DEF HalfFree
<1>2. CASE StartReconcile /\ InformersSynced
  <2>1. /\ pc = "idle" /\ pc' = "revise" /\ view' = pods /\ pods' = pods /\ podCache' = pods
    BY <1>2 DEF StartReconcile, InformersSynced, apiVars, cacheVars
  <2>. QED BY <1>0, <2>1, <1>same DEF HalfFree, Found, There
<1>3. CASE pc = "revise" /\ BeginSync(Wanted.template)
  BY <1>0, <1>3, <1>same DEF BeginSync, BeingDeleted, PassIsLive, HalfFree, cacheVars
<1>4. CASE CreatePod
  <2>1. PICK p \in FreePods, kind \in {"up", "upOld"} : pods' = [pods EXCEPT ![p] = Planned(kind)]
    BY <1>4 DEF CreatePod
  <2>2. Active(pods) \subseteq Active(pods')
    BY <1>0, <2>1 DEF FreePods, Active, TypeOK, ApiTypeOK
  <2>. QED BY <1>0, <1>4, <2>2, <1>same DEF CreatePod, HalfFree, cacheVars
<1>5. CASE ChooseVictims \/ DeletePod
  <2>1. /\ pc # "idle" /\ pc' \in {"delete", "status"} /\ view' = view
    BY <1>5 DEF ChooseVictims, DeletePod
  <2>. QED BY <1>0, <2>1, <1>same DEF HalfFree
<1>6. CASE StatusUnchanged \/ CommitStatus
  <2>1. pc = "status" /\ pc' = "truncate" /\ UNCHANGED <<pods, view>>
    BY <1>6 DEF StatusUnchanged, CommitStatus, BeginTruncate
  <2>2. 2 * There <= Cardinality(Pods)
    <3>1. CASE err
      BY <1>0, <2>1, <3>1 DEF OnlyRefusals, HalfFree, Found, There
    <3>2. CASE ~err
      <4>1. There = Wanted.replicas /\ Wanted.replicas \in ReplicaChoices
        BY <1>0, <2>1, <3>2, ReplicasReached, WantedType DEF GroupsRight, PassIsLive, Version
      <4>. QED BY <4>1 DEF QuotaSuffices
    <3>. QED BY <3>1, <3>2
  <2>. QED BY <1>0, <2>1, <2>2, <1>same DEF HalfFree
<1>7. CASE EndReconcile
  BY <1>0, <1>7, <1>same DEF EndReconcile, HalfFree, apiVars
<1>. QED BY <1>1, <1>2, <1>3, <1>4, <1>5, <1>6, <1>7, CalmSteps

\* A pass of a live workload reads that it is live, and which revision is current.
LEMMA NextPassKnows ==
  ASSUME OnlyEdits, QuotaSuffices, CInv, [Next]_vars, Phase = "live"
  PROVE  PassIsLive' /\ CurrentIsKnown'
<1>0. /\ TypeOK /\ Kept /\ PassIsLive /\ CurrentIsKnown
  BY CalmFacts DEF Calm
<1>1. CASE pc' = "idle"
  BY <1>1 DEF PassIsLive, CurrentIsKnown, Running
<1>2. CASE StartReconcile /\ InformersSynced
  BY <1>2 DEF StartReconcile, InformersSynced, Stored, apiVars, Wanted, Phase, Gen,
     PassIsLive, CurrentIsKnown, Running
<1>3. CASE pc = "revise" /\ BeginSync(Wanted.template)
  <2>1. Wanted' = Wanted
    BY <1>0, <1>3, WantedStays DEF BeginSync
  <2>2. inst.status.current \in Listed(revList) \cup {None}
    BY <1>0, <1>3 DEF Kept, StatusNamesStored, PassKnowsRevisions, PassKnowsStatus
  <2>. QED BY <1>0, <1>3, <2>1, <2>2
           DEF BeginSync, CurrentOr, PassIsLive, CurrentIsKnown
<1>4. CASE UNCHANGED <<inst, cur, upd>> /\ pc # "idle" /\ (pc = "revise" => pc' = "revise")
  <2>1. Wanted' = Wanted
    BY <1>0, <1>4, WantedStays
  <2>. QED BY <1>0, <1>4, <2>1
           DEF PassIsLive, CurrentIsKnown, Running, TypeOK, PassTypeOK
<1>5. CASE CreatePod \/ ChooseVictims \/ DeletePod \/ StatusUnchanged \/ CommitStatus
  BY <1>4, <1>5 DEF CreatePod, ChooseVictims, DeletePod, StatusUnchanged, CommitStatus,
     BeginTruncate
<1>6. CASE EndReconcile
  BY <1>1, <1>6 DEF EndReconcile
<1>. QED BY <1>1, <1>2, <1>3, <1>4, <1>5, <1>6, CalmSteps

\* The controller stops working only when the status is true: users may edit and
\* delete at any time, and passes fail only by the refusal of deletePods.
THEOREM QuietStatusIsAlwaysTrue ==
  OnlyEdits /\ QuotaSuffices /\ Spec => []QuietStatusIsTrue
<1>. SUFFICES ASSUME OnlyEdits, QuotaSuffices PROVE Spec => []QuietStatusIsTrue
  OBVIOUS
<1>1. NoLag
  BY DEF OnlyEdits, Faults, NoLag
<1>2. ASSUME Init, DInv, RInv PROVE CInv
  <2>1. NoFaultsLeft
    BY <1>2 DEF Init, OnlyEdits, NoFaultsLeft
  <2>2. pc = "idle" /\ queued /\ ~err /\ status.observed = 0 /\ Gen = 1
    BY <1>2 DEF Init, NoStatus, Gen
  <2>3. There = 0 /\ Cardinality(Pods) \in Nat
    BY <1>2, FS_EmptySet, ActiveCount DEF Init, NoPods, There, Active
  <2>4. Settled /\ CaughtTrue /\ OnlyRefusals /\ HalfFree /\ CurrentIsKnown /\ PassIsLive
    BY <2>2, <2>3 DEF Settled, CaughtTrue, Caught, OnlyRefusals, HalfFree, CurrentIsKnown,
       Running, PassIsLive
  <2>. QED BY <1>2, <2>1, <2>4 DEF CInv, Calm
<1>3. ASSUME CInv, DInv', RInv', PassReachesTarget, [Next]_vars PROVE CInv'
  <2>1. TypeOK /\ NoFaultsLeft'
    BY <1>3, NextNoFaults DEF CInv, RInv
  <2>2. ASSUME Phase' = "live" PROVE Calm'
    <3>1. Phase = "live"
      BY <1>3, <2>1, <2>2, LiveBefore
    <3>. QED BY <1>3, <3>1, NextSettled, NextCaughtTrue, NextOnlyRefusals, NextHalfFree,
             NextPassKnows DEF Calm
  <2>. QED BY <1>3, <2>1, <2>2 DEF CInv
<1>4. CInv => QuietStatusIsTrue
  BY DEF CInv, Calm, CaughtTrue, Caught, QuietStatusIsTrue, Quiet, InformersSynced
<1>5. Spec => []RInv
  BY <1>1, KeptAlways
<1>. QED BY <1>2, <1>3, <1>4, <1>5, DesiredInvariant, PassAlwaysReachesTarget, PTL DEF Spec
=============================================================================
