------------------------------ MODULE Reconciler ------------------------------
(***************************************************************************)
(* One PartitionWorkload and the controller that reconciles it: the API    *)
(* server's objects, the informer caches the controller reads, its work    *)
(* queue, and one pass of Reconcile step by step                           *)
(* (internal/controller/partitionworkload_controller.go, sync/, status/).  *)
(*                                                                         *)
(* A pod template stands for the ControllerRevision made of it, for the    *)
(* name of that revision and for the label a pod of it carries: hash       *)
(* collisions between names are left out here. A pod is an active pod the  *)
(* workload owns; one that is gone, terminating or finished is no pod.     *)
(***************************************************************************)
EXTENDS PodDiffs, Sequences, FiniteSets

CONSTANTS
  Templates,         \* the pod templates users may ask for
  Pods,              \* the identities pods can get; their number is a quota
  None,              \* no pod, no revision
  ReplicaChoices,    \* values of spec.replicas
  PartitionChoices,  \* values of spec.partition, NilPartition for an unset one
  HistoryLimit,      \* config.DefaultHistoryLimit
  WebhookEnabled,    \* ENABLE_WEBHOOKS is not "false"
  Resyncs,           \* informers redeliver what they cache from time to time
  Budget             \* bound: how often users and faults may act

\* Users edit the spec and delete the workload; a pass reads a cache that lags
\* behind, a request fails, a pod is lost, the process crashes.
Faults == {"stale", "errors", "losses", "crashes"}
Acts   == {"edits", "deletes"} \cup Faults

ASSUME PodsAssumption      == IsFiniteSet(Pods)
ASSUME NoneAssumption      == None \notin Templates
ASSUME ReplicasAssumption  == ReplicaChoices \subseteq Nat
ASSUME PartitionAssumption == PartitionChoices \subseteq Nat \cup {NilPartition}
ASSUME BoundsAssumption    == /\ HistoryLimit \in Nat
                              /\ WebhookEnabled \in BOOLEAN
                              /\ Resyncs \in BOOLEAN
                              /\ Budget \in [Acts -> Nat]

VARIABLES
  \* What the API server stores.
  specs,      \* every version of the object so far; the last one is stored,
              \* and the position of a version is its generation
  status,     \* the object's status
  pods,       \* the template of each active pod, or None
  revs,       \* the number of each stored revision, or 0 when there is none
  \* What the controller's process holds outside a pass.
  pwCache,    \* the workload informer's copy: a generation and a status
  podCache,   \* the pod informer's copy of pods
  revCache,   \* the revision informer's copy of revs
  queued,     \* the work queue holds the workload's key
  \* The locals of the pass in progress.
  pc,         \* what the pass does next
  inst,       \* the workload it read: a generation and a status
  view,       \* the pods it claimed
  revList,    \* the revisions it listed
  cur, upd,   \* currentRevision and updateRevision
  plan,       \* the differences it computed, less the creations made
  doomed,     \* podsToDelete, less those deleted
  trash,      \* nonLiveRevisions above the limit, less those deleted
  err,        \* syncErr is set
  \* Bookkeeping of the model.
  budget,     \* what users and faults may still do
  disturbed   \* pods differed from what this pass saw for another reason
              \* than its own steps

apiVars   == <<specs, status, pods, revs>>
cacheVars == <<pwCache, podCache, revCache>>
passVars  == <<inst, view, revList, cur, upd, plan, doomed, trash, err>>
vars == <<apiVars, cacheVars, queued, pc, passVars, budget, disturbed>>

-----------------------------------------------------------------------------
(* The data.                                                               *)

Phases == {"live", "deleting", "gone"}
Revisions == Templates \cup {None}

\* One version of the workload object.
Version == [template : Templates, replicas : ReplicaChoices,
            partition : PartitionChoices, phase : Phases]

WorkloadStatus == [observed : Nat, replicas : Nat, updated : Nat,
                   current : Revisions, update : Revisions, failed : BOOLEAN]

\* What a read of the workload returns.
Copy == [gen : Nat, status : WorkloadStatus]

NoStatus == [observed |-> 0, replicas |-> 0, updated |-> 0,
             current |-> None, update |-> None, failed |-> FALSE]
NoCopy == [gen |-> 0, status |-> NoStatus]
NoPods == [p \in Pods |-> None]
NoRevs == [t \in Templates |-> 0]

Gen == Len(specs)
Phase == specs[Gen].phase
Stored == [gen |-> Gen, status |-> status]

Active(m) == {p \in Pods : m[p] # None}
Updated(m, t) == {p \in Active(m) : m[p] = t}
NotUpdated(m, t) == Active(m) \ Updated(m, t)

\* FindEqualRevisions finds something, and what sorts last in the listing:
\* revisions with one number are told apart by creation time only.
Listed(list) == {t \in Templates : list[t] # 0}
Latest(list) == {t \in Listed(list) : \A u \in Listed(list) : list[u] <= list[t]}
Oldest(list, S) == {t \in S : \A u \in S : list[t] <= list[u]}

\* A bug: the number of the last revision is taken, not the next one.
LastRevision(list) ==
  IF Listed(list) = {} THEN {1} ELSE {list[t] : t \in Latest(list)}

\* The one number that comes next.
NextRevision(list) ==
  IF Listed(list) = {} THEN {1} ELSE {list[t] + 1 : t \in Latest(list)}

Spend(act) == /\ budget[act] > 0
              /\ budget' = [budget EXCEPT ![act] = @ - 1]

ApiTypeOK ==
  /\ specs \in Seq(Version) /\ Gen > 0
  /\ status \in WorkloadStatus
  /\ pods \in [Pods -> Revisions] /\ revs \in [Templates -> Nat]

ProcessTypeOK ==
  /\ pwCache \in Copy /\ pwCache.gen \in 1..Gen
  /\ podCache \in [Pods -> Revisions] /\ revCache \in [Templates -> Nat]
  /\ queued \in BOOLEAN

PassTypeOK ==
  /\ pc \in {"idle", "revise", "create", "delete", "status", "truncate"}
  /\ inst \in Copy /\ inst.gen \in 0..Gen /\ (pc # "idle" => inst.gen > 0)
  /\ view \in [Pods -> Revisions] /\ revList \in [Templates -> Nat]
  /\ cur \in Revisions /\ upd \in Revisions
  /\ plan \in [up : Nat, upOld : Nat, down : Nat, downOld : Nat]
  /\ doomed \subseteq Pods /\ trash \subseteq Templates
  /\ err \in BOOLEAN /\ disturbed \in BOOLEAN

TypeOK == /\ ApiTypeOK /\ ProcessTypeOK /\ PassTypeOK
          /\ budget \in [Acts -> Nat]

-----------------------------------------------------------------------------
(* The users and the cluster.                                              *)

\* The validating webhook, which sees the object with replicas defaulted.
Admit(replicas, partition) ==
  WebhookEnabled => partition = NilPartition \/ partition <= replicas

Versions == {v \in Version : v.phase = "live" /\ Admit(v.replicas, v.partition)}

Init ==
  /\ \E v \in Versions : specs = <<v>>
  /\ status = NoStatus /\ pods = NoPods /\ revs = NoRevs
  /\ pwCache = [gen |-> 1, status |-> NoStatus]
  /\ podCache = NoPods /\ revCache = NoRevs
  /\ queued = TRUE /\ pc = "idle"
  /\ inst = NoCopy /\ view = NoPods /\ revList = NoRevs
  /\ cur = None /\ upd = None /\ plan = NoDiffs
  /\ doomed = {} /\ trash = {} /\ err = FALSE
  /\ budget = Budget /\ disturbed = FALSE

\* A user writes another spec, which is admitted and gets a new generation.
UserUpdate ==
  /\ Phase = "live" /\ Spend("edits")
  /\ \E v \in Versions : v # specs[Gen] /\ specs' = Append(specs, v)
  /\ UNCHANGED <<status, pods, revs, cacheVars, queued, pc, passVars,
                 disturbed>>

\* A user deletes the workload, in the foreground (it stays, marked, until its
\* dependents are gone) or in the background.
UserDelete ==
  /\ Phase = "live" /\ Spend("deletes")
  /\ \E phase \in {"deleting", "gone"} :
        specs' = Append(specs, [specs[Gen] EXCEPT !.phase = phase])
  /\ UNCHANGED <<status, pods, revs, cacheVars, queued, pc, passVars,
                 disturbed>>

\* The garbage collector removes the dependents of a deleted workload one by
\* one, and a workload deleted in the foreground after the last of them.
CollectPod ==
  /\ Phase # "live"
  /\ \E p \in Active(pods) : pods' = [pods EXCEPT ![p] = None]
  /\ disturbed' = (pc # "idle")
  /\ UNCHANGED <<specs, status, revs, cacheVars, queued, pc, passVars, budget>>

CollectRevision ==
  /\ Phase # "live"
  /\ \E t \in Listed(revs) : revs' = [revs EXCEPT ![t] = 0]
  /\ UNCHANGED <<specs, status, pods, cacheVars, queued, pc, passVars, budget,
                 disturbed>>

CollectWorkload ==
  /\ Phase = "deleting" /\ pods = NoPods /\ revs = NoRevs
  /\ specs' = Append(specs, [specs[Gen] EXCEPT !.phase = "gone"])
  /\ UNCHANGED <<status, pods, revs, cacheVars, queued, pc, passVars, budget,
                 disturbed>>

\* A pod is evicted, deleted by someone else, or finishes.
PodLost ==
  /\ Phase = "live" /\ Spend("losses")
  /\ \E p \in Active(pods) : pods' = [pods EXCEPT ![p] = None]
  /\ disturbed' = (pc # "idle")
  /\ UNCHANGED <<specs, status, revs, cacheVars, queued, pc, passVars>>

-----------------------------------------------------------------------------
(* The informers and the work queue. Only the workload is watched: its     *)
(* events enqueue its key, those of pods and revisions only fill a cache.  *)

InformersSynced == pwCache = Stored /\ podCache = pods /\ revCache = revs

SyncWorkload ==
  /\ pwCache # Stored
  /\ pwCache' = Stored /\ queued' = TRUE
  /\ UNCHANGED <<apiVars, podCache, revCache, pc, passVars, budget, disturbed>>

SyncPods ==
  /\ podCache # pods /\ podCache' = pods
  /\ UNCHANGED <<apiVars, pwCache, revCache, queued, pc, passVars, budget,
                 disturbed>>

SyncRevisions ==
  /\ revCache # revs /\ revCache' = revs
  /\ UNCHANGED <<apiVars, pwCache, podCache, queued, pc, passVars, budget,
                 disturbed>>

Cached == specs[pwCache.gen]

Resync ==
  /\ Resyncs /\ Cached.phase # "gone" /\ ~queued
  /\ queued' = TRUE
  /\ UNCHANGED <<apiVars, cacheVars, pc, passVars, budget, disturbed>>

-----------------------------------------------------------------------------
(* The pass: reading.                                                      *)

ResetPass ==
  /\ inst' = NoCopy /\ view' = NoPods /\ revList' = NoRevs
  /\ cur' = None /\ upd' = None /\ plan' = NoDiffs
  /\ doomed' = {} /\ trash' = {} /\ err' = FALSE /\ disturbed' = FALSE

\* Reconcile returns an error: the key goes back to the queue.
ReturnError ==
  /\ pc' = "idle" /\ queued' = TRUE
  /\ ResetPass

\* The workload is gone from the cache.
ReconcileNotFound ==
  /\ pc = "idle" /\ queued /\ Cached.phase = "gone"
  /\ queued' = FALSE
  /\ UNCHANGED <<apiVars, cacheVars, pc, passVars, budget, disturbed>>

\* Reconcile reads the workload, the pods and the revisions from its caches.
StartReconcile ==
  /\ pc = "idle" /\ queued /\ Cached.phase # "gone"
  /\ IF InformersSynced THEN UNCHANGED budget ELSE Spend("stale")
  /\ queued' = FALSE /\ pc' = "revise"
  /\ inst' = pwCache /\ view' = podCache /\ revList' = revCache
  /\ err' = FALSE /\ disturbed' = (podCache # pods)
  /\ UNCHANGED <<apiVars, cacheVars, cur, upd, plan, doomed, trash>>

-----------------------------------------------------------------------------
(* The pass: getActiveRevisions, then calculateDiffs on its result.        *)

Wanted == specs[inst.gen]

CurrentOr(t) ==
  IF inst.status.current \in Listed(revList) THEN inst.status.current ELSE t

Diffs(c, u) == CalculateDiffs(Wanted.replicas, Wanted.partition,
                              Cardinality(Updated(view, u)),
                              Cardinality(NotUpdated(view, u)), c = u)

\* A bug: deletionTimestamp is not looked at.
NeverDeleting == FALSE

\* syncPods leaves the pods of a workload being deleted alone.
BeingDeleted == Wanted.phase = "deleting"

BeginSync(t) ==
  /\ cur' = CurrentOr(t) /\ upd' = t
  /\ IF BeingDeleted
     THEN pc' = "status" /\ plan' = NoDiffs
     ELSE pc' = "create" /\ plan' = Diffs(CurrentOr(t), t)
  /\ UNCHANGED <<specs, status, pods, cacheVars, queued, inst, view, revList,
                 doomed, trash, err, budget, disturbed>>

\* The template's revision sorts last in the listing.
ReuseRevision ==
  /\ pc = "revise" /\ Wanted.template \in Latest(revList)
  /\ BeginSync(Wanted.template) /\ UNCHANGED revs

\* The write of the template's revision: a listed one gets the next number, from the
\* listed copy or, after a conflict, from the one cached by then; one that is not
\* listed is created where none has its name.
WriteRevision(t) ==
  /\ revs[t] \in IF t \in Listed(revList) THEN {revList[t], revCache[t]} \ {0} ELSE {0}
  /\ \E n \in NextRevision(revList) : revs' = [revs EXCEPT ![t] = n]

\* The revision is listed and does not sort last: its number is raised; a cached
\* copy that has the number already is taken as it is.
RollBackRevision ==
  LET t == Wanted.template
  IN /\ pc = "revise" /\ t \in Listed(revList) /\ Latest(revList) # {t}
     /\ \/ WriteRevision(t)
        \/ /\ revs[t] # revList[t] /\ revCache[t] \in NextRevision(revList)
           /\ UNCHANGED revs
     /\ BeginSync(t)

\* It is not listed: it is created, or the one that has its name already is taken
\* when the cache holds it.
CreateRevision ==
  LET t == Wanted.template
  IN /\ pc = "revise" /\ t \notin Listed(revList)
     /\ WriteRevision(t) \/ (revs[t] # 0 /\ revCache[t] # 0 /\ UNCHANGED revs)
     /\ BeginSync(t)

\* The update meets a newer copy or none, the creation one that the cache does not
\* hold yet, or the API server fails, with the write refused or done.
ReviseFails ==
  LET t == Wanted.template
  IN /\ pc = "revise" /\ Latest(revList) # {t}
     /\ \/ /\ revs[t] # revList[t] /\ (t \in Listed(revList) \/ revCache[t] = 0)
           /\ UNCHANGED <<revs, budget>>
        \/ Spend("errors") /\ (UNCHANGED revs \/ WriteRevision(t))
     /\ ReturnError
     /\ UNCHANGED <<specs, status, pods, cacheVars>>

-----------------------------------------------------------------------------
(* The pass: ScaleAndUpdate.                                               *)

\* A bug: the two revisions change places when pods are made.
SwappedPlanned(kind) == IF kind = "up" THEN cur ELSE upd

Planned(kind) == IF kind = "up" THEN upd ELSE cur
FreePods == {p \in Pods : None = pods[p] /\ None = podCache[p] /\ None = view[p]}

\* A creation of either kind succeeds; creations run concurrently.
CreatePod ==
  /\ pc = "create"
  /\ \E kind \in {"up", "upOld"}, p \in FreePods :
        /\ plan[kind] > 0
        /\ plan' = [plan EXCEPT ![kind] = @ - 1]
        /\ pods' = [pods EXCEPT ![p] = Planned(kind)]
  /\ UNCHANGED <<specs, status, revs, cacheVars, queued, pc, inst, view, revList,
                 cur, upd, doomed, trash, err, budget, disturbed>>

\* A bug: a creation whose answer is lost is made once more.
CreateRetried ==
  /\ pc = "create"
  /\ IF FreePods = {} THEN UNCHANGED budget ELSE Spend("errors")
  /\ \E kind \in {"up", "upOld"}, p \in FreePods :
        plan[kind] > 0 /\ pods' = [pods EXCEPT ![p] = Planned(kind)]
  /\ UNCHANGED <<specs, status, revs, cacheVars, queued, pc, inst, view, revList,
                 cur, upd, plan, doomed, trash, err, disturbed>>

\* A creation fails, refused or with its answer lost.
CreateFails ==
  /\ pc = "create"
  /\ IF FreePods = {} THEN UNCHANGED budget ELSE Spend("errors")
  /\ \E kind \in {"up", "upOld"} :
        /\ plan[kind] > 0
        /\ plan' = [plan EXCEPT ![kind] = @ - 1]
        /\ \/ UNCHANGED pods
           \/ \E p \in FreePods : pods' = [pods EXCEPT ![p] = Planned(kind)]
  /\ err' = TRUE
  /\ UNCHANGED <<specs, status, revs, cacheVars, queued, pc, inst, view, revList,
                 cur, upd, doomed, trash, disturbed>>

\* After a failure the batches left are not started, and nothing is deleted.
AbandonCreates ==
  /\ pc = "create" /\ err
  /\ pc' = "status"
  /\ UNCHANGED <<apiVars, cacheVars, queued, passVars, budget, disturbed>>

\* A bug: go on to the deletions whether or not every creation succeeded.
DeleteRegardless == plan.up = 0 /\ plan.upOld = 0

CreatesDone == plan.up = 0 /\ plan.upOld = 0 /\ ~err

\* deletePods picks its victims, or refuses when a group is too small. Pods
\* are sorted by age first, which has a resolution of one second.
ChooseVictims ==
  LET new == Updated(view, upd)
      old == NotUpdated(view, upd)
  IN /\ pc = "create" /\ CreatesDone
     /\ \/ /\ Feasible(plan, Cardinality(new), Cardinality(old))
           /\ \E V \in SUBSET new, W \in SUBSET old :
                 /\ Cardinality(V) = plan.down /\ Cardinality(W) = plan.downOld
                 /\ doomed' = V \cup W
           /\ pc' = IF doomed' = {} THEN "status" ELSE "delete"
           /\ UNCHANGED err
        \/ /\ ~Feasible(plan, Cardinality(new), Cardinality(old))
           /\ err' = TRUE /\ pc' = "status" /\ UNCHANGED doomed
     /\ UNCHANGED <<apiVars, cacheVars, queued, inst, view, revList, cur, upd,
                    plan, trash, budget, disturbed>>

\* The victims of the update revision go first.
NextVictims == IF doomed \cap Updated(view, upd) # {}
               THEN doomed \cap Updated(view, upd) ELSE doomed

\* Deleting a pod that is terminating already succeeds as well.
DeletePod ==
  /\ pc = "delete"
  /\ \E p \in NextVictims :
        /\ pods' = [pods EXCEPT ![p] = None]
        /\ doomed' = doomed \ {p}
        /\ pc' = IF doomed' = {} THEN "status" ELSE "delete"
  /\ UNCHANGED <<specs, status, revs, cacheVars, queued, inst, view, revList,
                 cur, upd, plan, trash, err, budget, disturbed>>

\* A bug: after a deletion that failed the others are tried all the same.
DeletesGoOn ==
  /\ pc = "delete"
  /\ \E p \in NextVictims :
        /\ IF pods[p] = None THEN UNCHANGED budget ELSE Spend("errors")
        /\ doomed' = doomed \ {p}
        /\ pc' = IF doomed' = {} THEN "status" ELSE "delete"
  /\ err' = TRUE
  /\ UNCHANGED <<specs, status, pods, revs, cacheVars, queued, inst, view, revList,
                 cur, upd, plan, trash, disturbed>>

\* The first deletion that fails ends them: the pod is not found, or the API
\* server answers with an error or not at all.
DeleteFails ==
  /\ pc = "delete"
  /\ \E p \in NextVictims :
        \/ pods[p] = None /\ UNCHANGED <<pods, budget>>
        \/ /\ pods[p] # None /\ Spend("errors")
           /\ \/ UNCHANGED pods
              \/ pods' = [pods EXCEPT ![p] = None]
  /\ err' = TRUE /\ doomed' = {} /\ pc' = "status"
  /\ UNCHANGED <<specs, status, revs, cacheVars, queued, inst, view, revList,
                 cur, upd, plan, trash, disturbed>>

-----------------------------------------------------------------------------
(* The pass: UpdateStatus.                                                 *)

\* A bug: the generation is read again when the status is written.
NewStatusRead ==
  LET updated == Cardinality(Updated(view, upd))
      all     == Cardinality(Active(view))
  IN [observed |-> pwCache.gen, replicas |-> all, updated |-> updated,
      current |-> IF updated = all /\ all = Wanted.replicas THEN upd ELSE cur,
      update |-> upd, failed |-> err]

\* A bug: a generation counts as observed only when its pods could be synced.
ObservedOnSuccess ==
  LET updated == Cardinality(Updated(view, upd))
      all     == Cardinality(Active(view))
  IN [observed |-> IF err THEN inst.status.observed ELSE inst.gen,
      replicas |-> all, updated |-> updated,
      current |-> IF updated = all /\ all = Wanted.replicas THEN upd ELSE cur,
      update |-> upd, failed |-> err]

\* calculateStatus counts the pods claimed when the pass began, and takes the
\* update revision for the current one when all of them carry it.
NewStatus ==
  LET updated == Cardinality(Updated(view, upd))
      all     == Cardinality(Active(view))
  IN [observed |-> inst.gen, replicas |-> all, updated |-> updated,
      current |-> IF updated = all /\ all = Wanted.replicas THEN upd ELSE cur,
      update |-> upd, failed |-> err]

\* A bug: the number of updated pods is not compared.
InconsistentTotals(old, new) ==
  \/ new.observed > old.observed
  \/ new.replicas # old.replicas
  \/ new.update # old.update
  \/ new.current # old.current

\* inconsistentStatus does not look at the conditions.
Inconsistent(old, new) ==
  \/ new.observed > old.observed
  \/ new.replicas # old.replicas
  \/ new.updated # old.updated
  \/ new.update # old.update
  \/ new.current # old.current

\* Bugs: the current revision counts as history, or the pods are not asked.
NotUpdateRevision == {t \in Listed(revList) \ {upd} : Updated(view, t) = {}}
NotInStatus == Listed(revList) \ {cur, upd}

\* The revisions neither the pass nor a pod it claimed uses, in a listing.
NonLive == {t \in Listed(revList) \ {cur, upd} : Updated(view, t) = {}}

\* All but the HistoryLimit newest of them are doomed.
BeginTruncate ==
  /\ pc' = "truncate"
  /\ \E S \in SUBSET NonLive :
        /\ Cardinality(S) = Cardinality(NonLive) - IntMin(HistoryLimit, Cardinality(NonLive))
        /\ \A t \in S, u \in NonLive \ S : revList[t] <= revList[u]
        /\ trash' = S
  /\ UNCHANGED <<specs, pods, revs, cacheVars, queued, inst, view, revList, cur,
                 upd, plan, doomed, err, budget, disturbed>>

StatusUnchanged ==
  /\ pc = "status" /\ ~Inconsistent(inst.status, NewStatus)
  /\ BeginTruncate /\ UNCHANGED status

\* The write carries the version of the cached copy, so it goes through only
\* when the cache has caught up; conflicts are retried.
WriteAllowed == pwCache = Stored /\ Phase # "gone"

CommitStatus ==
  /\ pc = "status" /\ Inconsistent(inst.status, NewStatus)
  /\ WriteAllowed
  /\ status' = NewStatus
  /\ BeginTruncate

\* The workload is gone, or the cache lags until the retries are used up, or
\* the API server fails, with the write refused or done.
StatusFails ==
  /\ pc = "status" /\ Inconsistent(inst.status, NewStatus)
  /\ \/ Phase = "gone" /\ UNCHANGED <<status, budget>>
     \/ pwCache # Stored /\ Spend("stale") /\ UNCHANGED status
     \/ Spend("errors") /\ (UNCHANGED status \/ (WriteAllowed /\ status' = NewStatus))
  /\ ReturnError
  /\ UNCHANGED <<specs, pods, revs, cacheVars>>

-----------------------------------------------------------------------------
(* The pass: truncateHistory and the end.                                  *)

DeleteRevision ==
  /\ pc = "truncate"
  /\ \E t \in Oldest(revList, trash) :
        /\ revs[t] # 0 /\ revs' = [revs EXCEPT ![t] = 0]
        /\ trash' = trash \ {t}
  /\ UNCHANGED <<specs, status, pods, cacheVars, queued, pc, inst, view, revList,
                 cur, upd, plan, doomed, err, budget, disturbed>>

\* An error of truncateHistory is logged and forgotten.
TruncateFails ==
  /\ pc = "truncate" /\ trash # {}
  /\ \E t \in Oldest(revList, trash) :
        \/ revs[t] = 0 /\ UNCHANGED <<revs, budget>>
        \/ /\ revs[t] # 0 /\ Spend("errors")
           /\ \/ UNCHANGED revs
              \/ revs' = [revs EXCEPT ![t] = 0]
  /\ trash' = {}
  /\ UNCHANGED <<specs, status, pods, cacheVars, queued, pc, inst, view, revList,
                 cur, upd, plan, doomed, err, disturbed>>

\* A bug: the error of syncPods is logged and not returned.
ForgetError == queued

\* A bug: what was enqueued during the pass is forgotten with its key.
ForgetEvents == err

\* Reconcile returns syncErr, for which the key goes back to the queue.
Requeued == queued \/ err

EndReconcile ==
  /\ pc = "truncate" /\ trash = {}
  /\ pc' = "idle" /\ queued' = Requeued
  /\ ResetPass
  /\ UNCHANGED <<apiVars, cacheVars, budget>>

\* The process ends anywhere and another one starts: it lists everything anew
\* and enqueues what it lists.
Crash ==
  /\ Spend("crashes")
  /\ pwCache' = Stored /\ podCache' = pods /\ revCache' = revs
  /\ pc' = "idle" /\ queued' = (Phase # "gone")
  /\ ResetPass
  /\ UNCHANGED apiVars

-----------------------------------------------------------------------------
Environment == \/ UserUpdate \/ UserDelete \/ CollectPod \/ CollectRevision
               \/ CollectWorkload \/ PodLost

Informers == SyncWorkload \/ SyncPods \/ SyncRevisions

Pass ==
  \/ ReconcileNotFound \/ StartReconcile
  \/ ReuseRevision \/ RollBackRevision \/ CreateRevision \/ ReviseFails
  \/ CreatePod \/ CreateFails \/ AbandonCreates
  \/ ChooseVictims \/ DeletePod \/ DeleteFails
  \/ StatusUnchanged \/ CommitStatus \/ StatusFails
  \/ DeleteRevision \/ TruncateFails \/ EndReconcile

Next == Environment \/ Informers \/ Resync \/ Pass \/ Crash

Spec == Init /\ [][Next]_vars

\* The controller's worker runs whatever is queued, watches deliver, the
\* informers' resync comes round and the garbage collector works. Nothing is
\* assumed of users and faults.
Fairness == /\ WF_vars(Pass)
            /\ WF_vars(SyncWorkload) /\ WF_vars(SyncPods) /\ WF_vars(SyncRevisions)
            /\ WF_vars(Resync)
            /\ WF_vars(CollectPod) /\ WF_vars(CollectRevision)
            /\ WF_vars(CollectWorkload)

FairSpec == Spec /\ Fairness

-----------------------------------------------------------------------------
(* Properties of every pass, whatever happens around it.                   *)

Syncing == pc \in {"create", "delete", "status"} /\ Wanted.phase = "live"

\* The status speaks of one version of the workload: the update revision is
\* the template of the very version observedGeneration names, although specs
\* change while a pass runs and the write is retried on newer copies.
StatusDescribesGeneration ==
  status.observed > 0 => /\ status.observed <= Gen
                         /\ specs[status.observed].template = status.update

\* observedGeneration never moves back, whatever copy a pass started from.
ObservedNeverRegresses == [][status'.observed >= status.observed]_vars

\* A pass never takes the workload below what was wanted and was there: it
\* deletes nothing before every creation succeeded, and then only the surplus.
AvailabilityKept ==
  Syncing /\ ~disturbed =>
    Cardinality(Active(pods)) >= IntMin(Wanted.replicas, Cardinality(Active(view)))

\* A pass exceeds what it found by one replica count at the most, lost answers
\* of creations included.
SurgeBounded ==
  Syncing /\ ~disturbed =>
    Cardinality(Active(pods)) <= Cardinality(Active(view)) + Wanted.replicas

\* With two revisions, or with one that all pods carry, deletePods never finds
\* fewer pods than it is told to delete.
DeletionsFeasible ==
  pc = "create" /\ (cur # upd \/ NotUpdated(view, upd) = {}) =>
    Feasible(plan, Cardinality(Updated(view, upd)), Cardinality(NotUpdated(view, upd)))

\* A pass that reports no error has reached the numbers it was asked for:
\* partition pods of the update revision and the rest of others when there
\* are two revisions, replicas pods when there is one.
PassReachesTarget ==
  Syncing /\ pc = "status" /\ ~err /\ ~disturbed =>
    LET new == Cardinality(Updated(pods, upd))
        old == Cardinality(NotUpdated(pods, upd))
        target == EffectivePartition(Wanted.replicas, Wanted.partition)
    IN IF cur # upd THEN new = target /\ old = Wanted.replicas - target
                    ELSE new + old = Wanted.replicas

\* The revisions the status names are stored, so that a roll back to the
\* current one stays possible: truncation spares them.
StatusRevisionsExist ==
  Phase = "live" => {status.current, status.update} \subseteq Listed(revs) \cup {None}

\* The revision of every pod is stored, so that history keeps what runs.
PodRevisionsExist ==
  Phase = "live" => \A p \in Active(pods) : pods[p] \in Listed(revs)

-----------------------------------------------------------------------------
(* Properties of the controller when it has nothing left to do.            *)

Quiet == pc = "idle" /\ ~queued /\ InformersSynced /\ Phase = "live"

Desired ==
  LET new == Cardinality(Updated(pods, specs[Gen].template))
      old == Cardinality(NotUpdated(pods, specs[Gen].template))
      target == EffectivePartition(specs[Gen].replicas, specs[Gen].partition)
  IN IF status.current # specs[Gen].template
     THEN new = target /\ old = specs[Gen].replicas - target
     ELSE new + old = specs[Gen].replicas

StatusIsTrue ==
  /\ status.observed = Gen /\ status.update = specs[Gen].template
  /\ status.replicas = Cardinality(Active(pods))
  /\ status.updated = Cardinality(Updated(pods, status.update))
  /\ ~status.failed

\* Whatever fails or lags, the controller stops working only when its status
\* speaks of the latest spec: no version is overlooked.
QuietMeansObserved ==
  Quiet => status.observed = Gen /\ status.update = specs[Gen].template

\* The controller stops working only when the pods are as the latest spec
\* wants them.
QuietMeansDesired == Quiet => Desired

\* The same when requests fail and the process crashes, as long as no pod is
\* lost and no pass works on a cache that lags.
RecoversFromErrors ==
  Quiet /\ (\A f \in {"stale", "losses"} : budget[f] = Budget[f]) => Desired

\* The controller stops working only when the status tells the truth about
\* the latest spec and the pods.
QuietStatusIsTrue == Quiet => StatusIsTrue

\* When the controller stops working the update revision has the highest
\* number of all, so that the next pass finds it last, a roll back included.
QuietRevisionIsNewest == Quiet => Latest(revs) = {status.update}

\* One revision is current and updated at once, and still some pods carry
\* another one: calculateDiffs counts those as updated, deletePods does not.
MixedSingleRevision ==
  status.current = status.update /\ NotUpdated(pods, status.update) # {}

\* Once users and faults leave a workload alone its pods become and stay what
\* the latest spec wants, except for the mixed pods of a single revision.
Converges == <>[](Phase # "live" \/ Desired \/ MixedSingleRevision)

\* A workload deleted in the foreground goes away: passes that still run for it
\* do not keep making dependents for the garbage collector to remove.
DeletionCompletes == Phase = "deleting" ~> Phase = "gone"

-----------------------------------------------------------------------------
(* A pass as Rollout sees it: the pods of the update revision and the      *)
(* others, or all of them as one group when there is one revision only.    *)

PassGroup(m, g) ==
  IF cur = upd THEN IF g = "new" THEN Active(m) ELSE {}
               ELSE IF g = "new" THEN Updated(m, upd) ELSE NotUpdated(m, upd)

PassGoal(g) ==
  LET target == IF cur = upd THEN Wanted.replicas
                ELSE EffectivePartition(Wanted.replicas, Wanted.partition)
  IN IF g = "new" THEN target ELSE Wanted.replicas - target

Open == ~Syncing \/ disturbed

PassPhase ==
  IF Open THEN "open"
  ELSE IF pc = "create" THEN IF err THEN "failing" ELSE "grow"
  ELSE IF err THEN "failed" ELSE IF pc = "delete" THEN "shrink" ELSE "done"

Promise == INSTANCE Rollout
  WITH phase <- PassPhase,
       have  <- [g \in {"new", "old"} |->
                   IF Open THEN 0 ELSE Cardinality(PassGroup(pods, g))],
       goal  <- [g \in {"new", "old"} |-> IF Open THEN 0 ELSE PassGoal(g)]

\* An undisturbed pass does what Rollout promises: it makes what either group
\* is missing and no more, deletes only when that is done and only what a
\* group has too many, stops deleting after a failure, and reports success for
\* exactly the numbers asked for.
PassKeepsPromise == Promise!Spec

-----------------------------------------------------------------------------
(* What the documentation and the comments say, where the code differs.    *)

\* util.go: "when there is only one revision, all pods are grouped to
\* updatedPods".
OneRevisionMeansAllUpdated ==
  pc = "create" /\ cur = upd => NotUpdated(view, upd) = {}

\* status.go: the update revision becomes the current one "if all replicas are
\* at update revision (full rollout)".
PromotedAfterFullRollout ==
  [][CommitStatus /\ ~disturbed /\ cur # upd /\ status'.current = upd
     => NotUpdated(pods, upd) = {}]_vars

\* partitionworkload_types.go: "When the desired state is reached, exactly
\* spec.Partition number of pods have the latest version".
ExactlyPartitionUpdated ==
  Quiet => Cardinality(Updated(pods, specs[Gen].template)) =
             EffectivePartition(specs[Gen].replicas, specs[Gen].partition)
=============================================================================
