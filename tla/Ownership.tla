------------------------------ MODULE Ownership ------------------------------
(***************************************************************************)
(* Several PartitionWorkloads whose selectors overlap, and the pods they   *)
(* own, adopt and release (internal/util/refmanager/ref_manager.go, and    *)
(* claimPods in internal/controller/partitionworkload_controller.go).      *)
(*                                                                         *)
(* A workload has a name and, for each time it was created, a uid, which   *)
(* its pods carry as their controller. The controller's single worker runs *)
(* one pass at a time, for one workload. A pass claims pods from the pod   *)
(* informer's cache and then scales what it claimed. Revisions are left    *)
(* out, and so is a pod that is terminating or finished: it is no pod.     *)
(***************************************************************************)
EXTENDS Integers, FiniteSets

CONSTANTS
  Names,       \* the names of workloads
  Pods,        \* the identities pods can get; their number is a quota
  Labels,      \* the values of the label that selectors look at
  Selectors,   \* the selectors users write for a name, Invalid or sets of labels
  Template,    \* the label of the pods that a workload of a name makes
  Replicas,    \* how many it wants
  Invalid,     \* a selector that is no selector
  None,        \* no pod, no workload
  Budgets      \* bounds: how often users and faults may act, one choice or several

Acts == {"creates", "deletes", "edits", "relabels", "bare", "losses", "errors", "crashes"}

ASSUME NamesAssumption    == IsFiniteSet(Names) /\ IsFiniteSet(Pods)
ASSUME LabelsAssumption   ==
  /\ Selectors \in [Names -> SUBSET ((SUBSET Labels) \cup {Invalid})]
  /\ Template \in [Names -> Labels]
ASSUME ReplicasAssumption == Replicas \in Nat
ASSUME NoneAssumption     == None \notin Names /\ None \notin [label : Labels, owner : Nat]
ASSUME BudgetAssumption   == Budgets \subseteq [Acts -> Nat]

VARIABLES
  \* What the API server stores.
  works,      \* the workload of each name
  pods,       \* the pod of each identity, or None
  lastUid,    \* the uid given last
  \* What the controller's process holds outside a pass.
  workCache,  \* the workload informer's copy of works
  podCache,   \* the pod informer's copy of pods
  outdated,   \* the pods written since: their cached version is not the last
  queued,     \* the names in the work queue
  \* The pass in progress.
  pc,         \* what it does next
  name, inst, \* the workload it works for, and what it read of it
  view,       \* the pods it listed
  stale,      \* those written since: an update of one of them is a conflict
  todo,       \* the pods it still has to adopt or release
  claimed,    \* the pods it owns, less those it deleted
  adoptable,  \* what canAdoptOnce remembers
  failed,     \* the list of errors is not empty
  missing,    \* the pods it still has to create; to delete when negative
  \* Bookkeeping of the model.
  budget      \* what users and faults may still do

apiVars   == <<works, pods, lastUid>>
cacheVars == <<workCache, podCache, outdated>>
passVars  == <<name, inst, view, todo, claimed, adoptable, failed, missing>>
vars == <<apiVars, cacheVars, queued, pc, passVars, stale, budget>>

-----------------------------------------------------------------------------
(* The data.                                                               *)

\* A workload that is being deleted stays until its dependents are gone, or
\* are nobody's.
Phases == {"absent", "live", "deleting", "orphaning"}
Uids == 1..lastUid
Workload == [phase : Phases, uid : Nat, selector : (SUBSET Labels) \cup {Invalid}]
Absent == [phase |-> "absent", uid |-> 0, selector |-> {}]
Pod == [label : Labels, owner : Nat]     \* owner 0 is nobody

Exists(m) == {p \in Pods : m[p] # None}
OwnedBy(m, uid) == {p \in Exists(m) : m[p].owner = uid}
Matches(m, selector) == {p \in Exists(m) : m[p].label \in selector}

\* The uids of the workloads there are.
Present == {works[n].uid : n \in {m \in Names : works[m].phase # "absent"}}

Spend(act) == /\ budget[act] > 0
              /\ budget' = [budget EXCEPT ![act] = @ - 1]

TypeOK ==
  /\ works \in [Names -> Workload] /\ lastUid \in Nat
  /\ pods \in [Pods -> Pod \cup {None}]
  /\ workCache \in [Names -> Workload]
  /\ podCache \in [Pods -> Pod \cup {None}]
  /\ outdated \subseteq Pods /\ queued \subseteq Names
  /\ pc \in {"idle", "claim", "sync"}
  /\ name \in Names \cup {None} /\ inst \in Workload /\ (pc # "idle" => name \in Names)
  /\ view \in [Pods -> Pod \cup {None}]
  /\ stale \subseteq Pods /\ todo \subseteq Pods /\ claimed \subseteq Pods
  /\ adoptable \in {"unknown", "yes", "no"} /\ failed \in BOOLEAN
  /\ missing \in Int /\ budget \in [Acts -> Nat]

-----------------------------------------------------------------------------
(* Writes of the API server's objects.                                     *)

\* Every write of a pod gives it a new version.
WritePod(p, new) ==
  /\ pods' = [pods EXCEPT ![p] = new]
  /\ outdated' = outdated \cup {p}

SetPod(p, new) ==
  /\ WritePod(p, new)
  /\ stale' = IF pc = "idle" THEN {} ELSE stale \cup {p}

UnchangedPods == UNCHANGED <<pods, outdated, stale>>

\* The generated name of a new pod is one the controller has not seen.
Unused(p) == None = pods[p] /\ None = podCache[p] /\ None = view[p]

NoPods == [p \in Pods |-> None]

\* Everybody has written a workload, and the controller has just listed them.
Init ==
  /\ works \in [Names -> [phase : {"live"}, uid : 1..Cardinality(Names),
                          selector : UNION {Selectors[n] : n \in Names}]]
  /\ \A n \in Names : works[n].selector \in Selectors[n]
  /\ \A m, n \in Names : works[m].uid = works[n].uid => m = n
  /\ lastUid = Cardinality(Names)
  /\ pods = NoPods /\ workCache = works /\ podCache = NoPods /\ outdated = {}
  /\ queued = Names /\ pc = "idle"
  /\ name = None /\ inst = Absent /\ view = NoPods /\ stale = {} /\ todo = {}
  /\ claimed = {} /\ adoptable = "unknown" /\ failed = FALSE /\ missing = 0
  /\ budget \in Budgets

-----------------------------------------------------------------------------
(* The users and the cluster.                                              *)

UserCreates ==
  /\ Spend("creates") /\ lastUid' = lastUid + 1
  /\ \E n \in Names : \E s \in Selectors[n] :
        /\ works[n].phase = "absent"
        /\ works' = [works EXCEPT ![n] = [phase |-> "live", uid |-> lastUid + 1,
                                          selector |-> s]]
  /\ UNCHANGED <<pods, cacheVars, queued, pc, passVars, stale>>

\* A workload is deleted in the background, in the foreground, or with its
\* dependents left behind.
UserDeletes ==
  /\ Spend("deletes")
  /\ \E n \in Names :
        /\ works[n].phase = "live"
        /\ \/ works' = [works EXCEPT ![n] = Absent]
           \/ \E phase \in {"deleting", "orphaning"} :
                 works' = [works EXCEPT ![n].phase = phase]
  /\ UNCHANGED <<pods, lastUid, cacheVars, queued, pc, passVars, stale>>

UserEditsSelector ==
  /\ Spend("edits")
  /\ \E n \in Names : \E s \in Selectors[n] :
        /\ works[n].phase = "live" /\ works[n].selector # s
        /\ works' = [works EXCEPT ![n].selector = s]
  /\ UNCHANGED <<pods, lastUid, cacheVars, queued, pc, passVars, stale>>

UserRelabels ==
  /\ Spend("relabels")
  /\ \E p \in Exists(pods), l \in Labels :
        pods[p].label # l /\ SetPod(p, [pods[p] EXCEPT !.label = l])
  /\ UNCHANGED <<works, lastUid, workCache, podCache, queued, pc, passVars>>

\* A pod of nobody's.
UserCreatesPod ==
  /\ Spend("bare")
  /\ \E p \in Pods, l \in Labels :
        Unused(p) /\ SetPod(p, [label |-> l, owner |-> 0])
  /\ UNCHANGED <<works, lastUid, workCache, podCache, queued, pc, passVars>>

PodLost ==
  /\ Spend("losses")
  /\ \E p \in Exists(pods) : SetPod(p, None)
  /\ UNCHANGED <<works, lastUid, workCache, podCache, queued, pc, passVars>>

\* The garbage collector removes the pods whose workload is gone or waits for
\* them, makes nobody's those that are to be left behind, and ends the
\* deletions that have no dependents any more.
CollectPod ==
  /\ \E p \in Exists(pods) :
        /\ pods[p].owner # 0
        /\ \/ pods[p].owner \notin Present
           \/ \E n \in Names : works[n].phase = "deleting" /\ pods[p].owner = works[n].uid
        /\ SetPod(p, None)
  /\ UNCHANGED <<works, lastUid, workCache, podCache, queued, pc, passVars, budget>>

OrphanPod ==
  /\ \E n \in Names : /\ works[n].phase = "orphaning"
                      /\ \E p \in OwnedBy(pods, works[n].uid) :
                            SetPod(p, [pods[p] EXCEPT !.owner = 0])
  /\ UNCHANGED <<works, lastUid, workCache, podCache, queued, pc, passVars, budget>>

EndDeletion ==
  /\ \E n \in Names : /\ works[n].phase \in {"deleting", "orphaning"}
                      /\ OwnedBy(pods, works[n].uid) = {}
                      /\ works' = [works EXCEPT ![n] = Absent]
  /\ UNCHANGED <<pods, lastUid, cacheVars, queued, pc, passVars, stale, budget>>

-----------------------------------------------------------------------------
(* The informers and the work queue. Workloads are watched, pods are not.  *)

SyncWorks ==
  /\ workCache # works /\ workCache' = works
  /\ queued' = queued \cup {n \in Names : workCache[n] # works[n]}
  /\ UNCHANGED <<apiVars, podCache, outdated, pc, passVars, stale, budget>>

SyncPods ==
  /\ outdated # {} /\ podCache' = pods /\ outdated' = {}
  /\ UNCHANGED <<apiVars, workCache, queued, pc, passVars, stale, budget>>

\* The informer redelivers what it caches, or a status that was written is news.
Resync(n) ==
  /\ n \notin queued /\ workCache[n].phase # "absent"
  /\ queued' = queued \cup {n}
  /\ UNCHANGED <<apiVars, cacheVars, pc, passVars, stale, budget>>

-----------------------------------------------------------------------------
(* The pass: claimPods.                                                    *)

ResetPass ==
  /\ name' = None /\ inst' = Absent /\ view' = NoPods /\ stale' = {} /\ todo' = {}
  /\ claimed' = {} /\ adoptable' = "unknown" /\ failed' = FALSE /\ missing' = 0

\* The workload is gone, or its selector is none: the key is dropped.
SkipReconcile(n) ==
  /\ pc = "idle" /\ n \in queued
  /\ workCache[n].phase = "absent" \/ workCache[n].selector = Invalid
  /\ queued' = queued \ {n}
  /\ UNCHANGED <<apiVars, cacheVars, pc, passVars, stale, budget>>

\* A bug: an orphan is adopted whatever its labels are.
AnyOrphan(work) == OwnedBy(podCache, 0)

\* A bug: the orphans are left to whoever wants them.
NoOrphan(work) == {}

Orphans(work) == OwnedBy(podCache, 0) \cap Matches(podCache, work.selector)

\* A pod of another owner is ignored. Its own pods that match are claimed as they
\* are; those that do not are to be released and orphans that match adopted,
\* unless the workload is being deleted.
StartReconcile(n) ==
  LET work  == workCache[n]
      mine  == OwnedBy(podCache, work.uid)
      match == Matches(podCache, work.selector)
  IN /\ pc = "idle" /\ n \in queued
     /\ work.phase # "absent" /\ work.selector # Invalid
     /\ queued' = queued \ {n} /\ pc' = "claim"
     /\ name' = n /\ inst' = work /\ view' = podCache /\ stale' = outdated
     /\ claimed' = mine \cap match
     /\ todo' = IF work.phase # "live" THEN {}
                ELSE (mine \ match) \cup Orphans(work)
     /\ UNCHANGED <<apiVars, cacheVars, adoptable, failed, missing, budget>>

\* A bug: an update goes through whatever version it is based on.
AnyVersion(p) == pods[p] # None

\* A bug: the owner reference holds the workload's name.
NamedRef == name

\* The owner reference that the pass gives to the pods it adopts and makes.
ControllerRef == inst.uid

\* An update is based on the version that was listed, and is refused when the pod
\* has another one or is gone.
Current(p) == p \notin stale

\* The workload as a read by name finds it, which is a read of the cache.
OwnerIsThere == workCache[name].phase = "live" /\ workCache[name].uid = inst.uid

\* canAdoptOnce: the first pod to adopt decides for all.
AskOwner ==
  adoptable' = IF adoptable # "unknown" THEN adoptable
               ELSE IF OwnerIsThere THEN "yes" ELSE "no"

Release ==
  /\ pc = "claim"
  /\ \E p \in todo :
        /\ view[p].owner = inst.uid /\ Current(p)
        /\ SetPod(p, [view[p] EXCEPT !.owner = 0])
        /\ todo' = todo \ {p}
  /\ UNCHANGED <<works, lastUid, workCache, podCache, queued, pc, name, inst, view,
                 claimed, adoptable, failed, missing, budget>>

Adopt ==
  /\ pc = "claim"
  /\ \E p \in todo :
        /\ view[p].owner = 0 /\ AskOwner /\ adoptable' = "yes" /\ Current(p)
        /\ SetPod(p, [view[p] EXCEPT !.owner = ControllerRef])
        /\ todo' = todo \ {p} /\ claimed' = claimed \cup {p}
  /\ UNCHANGED <<works, lastUid, workCache, podCache, queued, pc, name, inst, view,
                 failed, missing, budget>>

\* The pod may not be adopted, was written since or is gone, or the API server
\* fails: the error is kept and the other pods are gone on with.
ClaimFails ==
  /\ pc = "claim"
  /\ \E p \in todo :
        LET orphan == view[p].owner = 0
            new == [view[p] EXCEPT !.owner = IF orphan THEN ControllerRef ELSE 0]
        IN /\ IF orphan THEN AskOwner ELSE UNCHANGED adoptable
           /\ \/ orphan /\ adoptable' = "no" /\ UnchangedPods /\ UNCHANGED budget
              \/ /\ orphan => adoptable' = "yes"
                 /\ \/ ~Current(p) /\ UnchangedPods /\ UNCHANGED budget
                    \/ Spend("errors") /\ UnchangedPods
                    \/ Spend("errors") /\ Current(p) /\ SetPod(p, new)
           /\ todo' = todo \ {p}
  /\ failed' = TRUE
  /\ UNCHANGED <<works, lastUid, workCache, podCache, queued, pc, name, inst, view,
                 claimed, missing>>

\* A pass that returns an error comes again.
Requeue == queued' = queued \cup {name}

\* With any error the pass ends and comes again. A workload being deleted is not
\* scaled.
EndClaims ==
  /\ pc = "claim" /\ todo = {}
  /\ IF failed
     THEN pc' = "idle" /\ ResetPass /\ Requeue
     ELSE /\ pc' = "sync"
          /\ missing' = IF inst.phase = "live" THEN Replicas - Cardinality(claimed) ELSE 0
          /\ UNCHANGED <<queued, name, inst, view, stale, todo, claimed, adoptable, failed>>
  /\ UNCHANGED <<apiVars, cacheVars, budget>>

-----------------------------------------------------------------------------
(* The pass: scaling what was claimed.                                     *)

NewPod == [label |-> Template[name], owner |-> ControllerRef]

CreatePod ==
  /\ pc = "sync" /\ missing > 0 /\ missing' = missing - 1
  /\ \E p \in Pods : Unused(p) /\ SetPod(p, NewPod)
  /\ UNCHANGED <<works, lastUid, workCache, podCache, queued, pc, name, inst, view,
                 todo, claimed, adoptable, failed, budget>>

\* A pod is deleted by its name, whatever its version and owner.
DeletePod ==
  /\ pc = "sync" /\ missing < 0 /\ missing' = missing + 1
  /\ \E p \in claimed : /\ pods[p] # None /\ SetPod(p, None)
                        /\ claimed' = claimed \ {p}
  /\ UNCHANGED <<works, lastUid, workCache, podCache, queued, pc, name, inst, view,
                 todo, adoptable, failed, budget>>

\* The quota is used up, the pod to delete is gone, or the API server fails, with
\* the creation or the deletion refused or done.
SyncFails ==
  /\ pc = "sync" /\ missing # 0
  /\ \/ missing > 0 /\ (\A p \in Pods : ~Unused(p)) /\ UNCHANGED <<pods, outdated, budget>>
     \/ /\ missing < 0 /\ (\E p \in claimed : pods[p] = None)
        /\ UNCHANGED <<pods, outdated, budget>>
     \/ Spend("errors") /\ UNCHANGED <<pods, outdated>>
     \/ Spend("errors") /\ missing > 0 /\ \E p \in Pods : Unused(p) /\ WritePod(p, NewPod)
     \/ /\ Spend("errors") /\ missing < 0
        /\ \E p \in claimed : pods[p] # None /\ WritePod(p, None)
  /\ pc' = "idle" /\ ResetPass /\ Requeue
  /\ UNCHANGED <<works, lastUid, workCache, podCache>>

EndReconcile ==
  /\ pc = "sync" /\ missing = 0
  /\ pc' = "idle" /\ ResetPass
  /\ UNCHANGED <<apiVars, cacheVars, queued, budget>>

Crash ==
  /\ Spend("crashes")
  /\ workCache' = works /\ podCache' = pods /\ outdated' = {}
  /\ queued' = {n \in Names : works[n].phase # "absent"}
  /\ pc' = "idle" /\ ResetPass
  /\ UNCHANGED apiVars

-----------------------------------------------------------------------------
Environment == \/ UserCreates \/ UserDeletes \/ UserEditsSelector \/ UserRelabels
               \/ UserCreatesPod \/ PodLost
               \/ CollectPod \/ OrphanPod \/ EndDeletion

Claims == Release \/ Adopt \/ ClaimFails \/ EndClaims
Sync   == CreatePod \/ DeletePod \/ SyncFails \/ EndReconcile

Next == \/ Environment \/ SyncWorks \/ SyncPods \/ (\E n \in Names : Resync(n))
        \/ \E n \in Names : SkipReconcile(n) \/ StartReconcile(n)
        \/ Claims \/ Sync \/ Crash

Spec == Init /\ [][Next]_vars

\* The worker goes on with a pass, and takes every name that is queued again and
\* again: one that fails waits longer each time. Watches deliver, the informers'
\* resync comes round and the garbage collector works.
Fairness ==
  /\ WF_vars(Claims) /\ WF_vars(Sync)
  /\ \A n \in Names : SF_vars(SkipReconcile(n) \/ StartReconcile(n)) /\ WF_vars(Resync(n))
  /\ WF_vars(SyncWorks) /\ WF_vars(SyncPods)
  /\ WF_vars(CollectPod) /\ WF_vars(OrphanPod) /\ WF_vars(EndDeletion)

FairSpec == Spec /\ Fairness

-----------------------------------------------------------------------------
(* Properties.                                                             *)

\* What a pass has claimed, and will delete by name, is no other workload's pod,
\* although it was read from a cache and selectors overlap: nobody can adopt a pod
\* that the cache still shows with an owner.
ClaimedStayOurs ==
  \A p \in claimed : pods[p] # None => pods[p].owner \in {inst.uid, 0}

\* A pod never passes from one owner to another one: it is released first, or made
\* nobody's by the garbage collector.
NoStealing ==
  [][\A p \in Pods :
       pods[p] # None /\ pods'[p] # None /\ pods[p].owner # 0
         => pods'[p].owner \in {pods[p].owner, 0}]_vars

\* A pass changes owners by the labels the pods have at that moment, not by those
\* it read: it adopts what its selector matches and releases what it does not.
OwnersFollowLabels ==
  [][Claims =>
       \A p \in Pods : pods'[p] # pods[p] =>
         IF pods[p].owner = 0 THEN pods[p].label \in inst.selector
                              ELSE /\ pods[p].owner = inst.uid
                                   /\ pods[p].label \notin inst.selector]_vars

Desired ==
  /\ \A n \in Names :
       /\ works[n].phase \in {"absent", "live"}
       /\ works[n].phase = "live" /\ works[n].selector # Invalid =>
            LET mine == OwnedBy(pods, works[n].uid)
            IN /\ Cardinality(mine) = Replicas
               /\ mine \subseteq Matches(pods, works[n].selector)
               /\ OwnedBy(pods, 0) \cap Matches(pods, works[n].selector) = {}
  /\ \A p \in Exists(pods) : pods[p].owner \in Present \cup {0}

\* From some moment on no pass starts before the pods written by the ones before
\* are in the cache: watches take milliseconds, retries and resyncs far longer.
Punctual == <>[][pc = "idle" /\ pc' = "claim" => outdated = {}]_vars

\* Once users and faults have gone and caches keep up, every workload has its
\* replicas of pods that match its selector, no pod it could adopt is left, and
\* deletions have ended: workloads with overlapping selectors do not take turns
\* for ever.
Settles == Punctual => <>[]Desired

-----------------------------------------------------------------------------
(* What the comments say, where the code differs.                          *)

\* ref_manager.go: canAdopt "Gets the owner from API server to see if it still
\* exists and hasn't changed".
AsksTheServer ==
  [][adoptable = "unknown" /\ adoptable' = "yes"
       => works[name].phase = "live" /\ works[name].uid = inst.uid]_vars

\* ref_manager.go: "If the pod no longer exists, ignore the error."
VanishedPodsIgnored ==
  [][ClaimFails /\ budget' = budget /\ adoptable' # "no"
       => \E p \in todo \ todo' : pods[p] # None]_vars

\* partitionworkload_types.go, of the selector: "It must match the pod template's
\* labels." Then no pod is released that still has the labels it was made with.
KeepsWhatItMade ==
  [][Release => \A p \in Pods : pods'[p] # pods[p] => pods[p].label # Template[name]]_vars
=============================================================================
