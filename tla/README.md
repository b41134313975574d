# A verified model of the PartitionWorkload controller

PartitionWorkload is a Kubernetes custom resource: like a ReplicaSet it keeps
`spec.replicas` pods of a template running, and during an update it keeps
`spec.partition` of them at the latest template and the rest at the one before.
This directory models the controller in TLA+, checks it with TLC on small
instances and proves what matters most with TLAPS for all sizes.

## Inventory

| Component | State | Operations | Hard behaviour |
|---|---|---|---|
| **Reconcile** (`internal/controller/partitionworkload_controller.go`) | none of its own; the locals of a pass, the informer caches it reads, the work queue that starts it | `Reconcile`, `getActivePods`, `claimPods`, `getActiveRevisions`, `syncPods`, `truncateHistory` | a pass is a sequence of reads from caches and writes to the API server, any of which may fail, with edits, deletions, lost pods and crashes in between |
| **ScaleAndUpdate** (`sync/`) | none | `calculateDiffs`, `createPods`, `deletePods` | creations that partly fail, deletions that stop half way, the arithmetic of replicas and partition |
| **DoItSlowly** (`internal/util/general/helpers.go`) | batch counters, an error channel, a pod channel | the loop, the goroutines | goroutines that share a channel which is never closed |
| **Status updater** (`status/`) | none | `calculateStatus`, `inconsistentStatus`, `commitStatusUpdate` | a status computed from old data, written on top of a newer cached copy, with retries |
| **Revision history** (`internal/util/history/`) | ControllerRevisions | list, create, renumber, delete | name collisions, conflicts, lagging listings, listings by a selector that users edit |
| **Revision control** (`revision/`) | none | `NewRevision`, `ApplyRevision` | a template must survive the way into a revision and back |
| **Reference manager** (`internal/util/refmanager/`) | owner references of pods | claim, adopt, release | several owners, an owner that is being deleted |
| **Conditions** (`condition/`) | the list of conditions | set, get, filter | only `FailedScale` is ever set, on a new status |
| **Webhook** (`internal/webhook/v1alpha1/`) | none | validation of create and update | can be switched off, then a partition exceeds the replicas |
| **Manager** (`cmd/main.go`) | – | starts the controller, its caches and the webhook | restarts |

Components interact through the API server. The controller reads the workload,
its pods and its revisions from informer caches that lag behind what is stored;
it writes directly. Only `PartitionWorkload` is watched (`SetupWithManager`), so
a change of the workload - the controller's own status writes included - enqueues
its key, while changes of pods and revisions only update a cache. One worker takes
the key from the queue; an event or an error during a pass puts it back.

What makes each part correct:

* every pass: it never takes the workload below what was wanted and there, makes
  at most one replica count of extra pods, and, when it reports no error, has
  reached the numbers of the version it read;
* status: update revision, observed generation and counts belong together, never
  move back, and are true when nothing is left to do;
* history: the revisions that the status or a pod uses are not truncated, and the
  update revision has the highest number;
* at rest, and eventually: the pods are what the latest spec wants; a deleted
  workload goes away;
* owners: a pod is never taken from another workload nor deleted for one it does not
  belong to, owners follow labels, and workloads that compete for pods come to rest;
* names: a revision's name means one template, in the status and on the pods, although
  hashes collide and workloads of one name come and go;
* slow start: no goroutine hangs, few calls against a broken server, the right result.

The hazards behind these, each at its line, are in `PROJECT.json`.

## Modules

| Module | Models |
|---|---|
| `PodDiffs` | the arithmetic of `calculateDiffs` as pure operators |
| `Rollout` | what a pass promises about the two groups of pods, on its own variables; implemented by `Reconciler` |
| `Reconciler` | one workload, its controller, caches and queue, users, garbage collector and faults |
| `MCReconciler` | budgets of faults and symmetry for the instances of `Reconciler` |
| `Ownership` | several workloads with overlapping selectors: claim, adopt and release pods, then scale what was claimed |
| `History` | the revisions of one name: hashes that collide, selectors that hide them, workloads created again under it, truncation, the names in the status |
| `MCOwnership`, `MCHistory` | scenarios of user actions and faults, selectors and hashes for the instances of these |
| `Creation` | what creating the missing pods promises to a pass: made at most once, success only when all are made, nothing after the result |
| `SlowStart` | `createPods` on top of `DoItSlowly`, goroutine by goroutine; shown to implement `Creation` |
| `SlowStartProofs`, `ReconcilerProofs`, `AvailabilityProofs`, `RolloutProofs`, `RevisionProofs`, `QuietProofs`, `OwnershipProofs`, `HistoryProofs` | the theorems |

`Reconciler`, `Ownership` and `History` are three views of one controller, each with
the reads and writes its properties are about and the rest left open: `Reconciler` has
one workload that owns its pods and whose revisions are its templates; `Ownership` has
several workloads and no revisions; `History` has one name, all its revisions, and lets
a pass make and remove any pods of its two revisions.

### Reconciler

State. `specs` is the sequence of all versions of the object; its length is
`metadata.generation`. With it the API server holds `status`, `pods` (the template
each active pod was made of) and `revs` (each revision's number). `pwCache`,
`podCache` and `revCache` are the informers' copies, `queued` the work queue with
its single possible key. A pass holds in `inst`, `view` and `revList` what it read,
in `cur` and `upd` its two revisions, in `plan` the creations and deletions left, in
`doomed` the pods and in `trash` the revisions to delete, and in `err` whether
`syncErr` is set. `pc` is where it is:

| `pc` | in the code | actions |
|---|---|---|
| `idle` | between passes | `StartReconcile`, `ReconcileNotFound` |
| `revise` | `getActiveRevisions`; ends with `calculateDiffs` | `ReuseRevision`, `RollBackRevision`, `CreateRevision`, `ReviseFails` |
| `create` | `createPods`, then the choice of victims in `deletePods` | `CreatePod`, `CreateFails`, `AbandonCreates`, `ChooseVictims` |
| `delete` | the loop of `deletePods` | `DeletePod`, `DeleteFails` |
| `status` | `UpdateStatus` | `StatusUnchanged`, `CommitStatus`, `StatusFails` |
| `truncate` | `truncateHistory` and the return | `DeleteRevision`, `TruncateFails`, `EndReconcile` |

Each write to the API server is an action of its own with its failing twin; a
failing write - of a pod, a revision or the status - may have happened, with the answer
lost; so it is in `Ownership` and `History`. Around the pass run
`UserUpdate`, `UserDelete`, `PodLost`, the garbage collector (`CollectPod`,
`CollectRevision`, `CollectWorkload`), the informers (`SyncWorkload`, `SyncPods`,
`SyncRevisions`, `Resync`) and `Crash`.

Abstractions, all of them deliberate:

* A template stands for its revision, the revision's name and the label of its
  pods. Hash collisions and the collision count are therefore out of this module, and
  so are edits of the selector, which can hide revisions and pods: they are in
  `History` and `Ownership`.
* The optimistic concurrency of the API server: a status write goes through when
  the cached copy is the stored one (`WriteAllowed`); until then `RetryOnConflict`
  waits for the cache, or gives up (`StatusFails`). The same holds for renumbering
  a revision.
* A cache takes over the stored state in one step. A pass that starts before the
  caches have caught up is a fault, "stale", that a run allows or not: the caches
  normally catch up in milliseconds, and properties that fail when they do not are
  stated without it, see `RecoversFromErrors`.
* Creations run in any order although those of the current revision are received
  first; batches follow `SlowStart`. After a failure some of the rest may still be
  made, as the batch's other goroutines do.
* Deletion timestamps of pods: `DeletePod` makes a pod inactive at once, which is
  when `IsPodActive` stops counting it. Pods are sorted by age with a resolution of
  a second and an unstable sort, so which ones are chosen is left open.
* A key that is enqueued while it waits for a retry is merged with it by the
  priority queue of controller-runtime; delays are not modelled.
* `Pods` is finite, which acts as a quota: when none is free `CreateFails` needs
  no fault. A pod's identity is reused only after every list forgot it.

### Rollout

A pass has a `phase`, how many pods of each group there are (`have`) and how many there
should be (`goal`). It makes what is missing, never above the goal, then removes what is
too much, and is `done` when both groups have what they should; after a failure it
removes nothing more. `PassKeepsPromise` maps a pass of `Reconciler` to it: the groups are
the pods of the update revision and the others, or all pods when there is one revision
only, and the goal is what spec and partition say. When something else than the pass has
changed the pods (`disturbed`) nothing is promised, the phase is `open`.

### Ownership

State. `works` and `pods` are what the API server stores; a workload has a uid for each
time it was created, a pod its label and its owner's uid. `workCache` and `podCache` are
the informers' copies, `outdated` the pods written since, which is all that is needed of
resource versions. A pass holds in `inst` and `view` what it read, in `stale` the pods
written since (an update of one of them conflicts), in `todo` the pods it has yet to
adopt or release, in `claimed` those it owns, in `adoptable` what `canAdoptOnce`
remembers, and in `missing` how many to create or delete.

| Action | Code |
|---|---|
| `StartReconcile`, `SkipReconcile` | `Reconcile` up to `claimPods`; `claimObject` on each pod that needs no write; an invalid selector drops the key |
| `Release`, `Adopt`, `ClaimFails` | the updates of `release` and `adopt`, conflicts, failures and lost answers, and adoption refused by `canAdopt`; the owner reference written is `ControllerRef` |
| `EndClaims` | the errors are aggregated: with one the pass ends and comes again |
| `CreatePod`, `DeletePod`, `SyncFails`, `EndReconcile` | `ScaleAndUpdate` for one revision; a pod is deleted by its name |
| `UserCreates`, `UserDeletes`, `UserEditsSelector`, `UserRelabels`, `UserCreatesPod`, `PodLost`, `Crash` | users and faults |
| `CollectPod`, `OrphanPod`, `EndDeletion` | the garbage collector, for a deletion in the background, the foreground or with the dependents left behind |

The pods of a listing are adopted and released in any order. One label decides whether
a selector matches; a template's label is matched by the selectors of its workload,
because nothing in the code copes with the opposite (see *Differences*). A pass may start on caches as old as they come: nothing limits the lag except
in `Settles`.

### History

State. `work` is the workload that has the name, with the template and the selector users
want and the part of its status that names revisions; `revs` holds the revision of each
name with its owner, data and number, `pods` the kinds of pods there are (the name they
carry as label, what they run, whose they are). Copies, `outdated` and `stale` are as in
`Ownership`.

Revisions and pods carry the labels of their template, so a selector is the set of the
templates whose labels it matches. Users edit it together with the template and keep it
matching the new one (`Fits`), but revisions and pods of earlier templates may leave the
selection and come back. A pass claims what the selector matches and releases the other
pods (`Claimed`; failures of that are in `Ownership`), and lists the revisions that the
selector matches and the workload owns (`OwnRevisions`). It finds those `Equal` to
the template, and reuses the last one (`ReuseRevision`), raises the number of an earlier one
(`RollBackRevision`), creates one (`CreateRevision`), takes one that has the name and the
data already (`TakeRevision`), or counts a collision (`Collide`); `ReviseFails` is the error
of any of these writes, done or not. `Scale` stands for `syncPods`; `WriteStatus`,
`SkipStatus` and `StatusFails` for `UpdateStatus`. In `truncateHistory` revisions are
deleted one by one, the oldest first (`DeleteRevision`), until the limit is met (`EndPass`);
one that is gone, or an error, leaves the others (`TruncateFails`).

`Hash` is a constant, so that an instance chooses which templates collide. The count of
pods is not modelled, so that a full rollout (`Promoted`) may or may not be taken for one
as the number of replicas would decide, and a status may or may not be skipped. `count` is
the collision count, which is stored only with a status that is written for another
reason.

### Bounds

`Budget` bounds how often each kind of user action or fault happens; `Budgets`, in
`Ownership` and `History`, is a set of such bounds, and a run explores all of them, each
as a scenario of its own. `Templates`,
`Pods`, `ReplicaChoices`, `PartitionChoices` and, in `SlowStart`, `MaxCount` bound
the data. `MaxCount` bounds the collisions of a name by the number of names. `HistoryLimit` is 0 in the runs (10 in the code), so that truncation is
at work in every pass.

## Runs

| Run | Shows |
|---|---|
| `rollout` | two edits at any moment among three templates, replicas 1 and 2, partition unset, 0 and 1, four pods: types, the feasibility and the targets of every pass, the history of what is in use, and, whenever the controller is at rest, true pods, status and revision numbers |
| `faults` | one edit, one lagging pass, one failed request, one lost pod and one crash in all combinations: availability, surge, targets, the status's generation, recovery at rest when no pod was lost and no pass lagged, that at rest the status speaks of the latest version whatever went wrong, and that every pass is one of `Rollout` |
| `deletion` | a foreground deletion at any moment completes, with a pass that starts on an old copy of the workload or its dependents, and a failed request. No edit happens, so one template is enough; two pods leave room for one made too many |
| `convergence` | with resyncs, and the webhook off so that partition 2 exceeds the one replica, the pods converge after an edit, a lost pod and a lagging pass |
| `slow_start` | up to nine pods, that is four batches (1, 2, 4, 2), failing anywhere |
| `ownership` | two workloads that both match one label, in two scenarios with caches that lag at will: an edit of a selector (to an invalid one, too), a changed label, a failed request and a crash; or a deletion of any kind, a workload created again, and a pod of nobody's. What is claimed stays the workload's until the pass ends, no pod is taken from another workload, and owners follow the labels pods have at that moment |
| `settling` | after a changed label and a lost pod, or a changed label and a failed request whose write may have happened, the two workloads come to rest, each with its replicas and no pod left to adopt |
| `collisions` | three templates whose hashes collide in turn, three edits of template and selector - one selector matches all templates, the other one not the first - and a failed request: the update revision is the one of the template read, a template has one revision, pods run what their label says, and the current revision stays until the rollout is complete, unless the selector hides it |
| `naming` | the status ends up naming a revision of the latest template, with the two selectors of `collisions`, in three scenarios: edits with a pass on lagging caches and a failed request (a revision that was truncated is taken for there); an edit, a deletion that leaves the dependents or not, and a workload of the same name; the same without the edit, with a pass on lagging caches and a failed request |
| `mixed_pods`, `early_promotion`, `cached_owner` | where the code differs from its comments; each finds a violation |

Why the bounds suffice: a third template is what it takes to have pods of a revision
that is neither current nor updated; two edits what it takes to come back to a
template (a roll back) or to change the partition in the middle of an update;
replicas 2 with partition 1 have both groups non-empty; four pods allow a full
surge. Nine pods make the last batch of slow start smaller than twice the one
before, where the minimum of the loop matters. Two workloads are what it takes to compete
for a pod, and with one replica each a third pod is one too many or an orphan; `ownership`
has two pods, so that making one may also meet the quota. In `collisions` A and B share their first name, the second
name of both is C's first: a revision is created at the second and third attempt, and
a name is free again after truncation while pods still carry it; three edits go through
all three templates and back.

The runs take all that is interesting of each module but do not multiply everything by
everything: the scenarios of `Budgets` exist because deletions, selectors and crashes
together exceed what TLC can explore.

Deadlock is not checked, as a controller at rest with no edits left does nothing.
Symmetry of pods and templates is used for safety runs only.

### Fairness

`FairSpec` assumes weak fairness of the pass (the worker runs whatever is queued,
and every request is answered or times out), of each informer, of the resync (ten
hours by default in controller-runtime, but it comes) and of the garbage collector.
Nothing is assumed of users and faults. `SlowStart` assumes that its goroutines run
and that requests end. `Converges` needs the resync, as `lost_pod` shows; `deletion`
does without it.

In `Ownership` the work queue is fair to every name (strong fairness: a name that fails is
delayed longer each time, the others get their turn), and keys come again with the
resync or the events of status writes. `Settles` assumes in its own statement, `Punctual`,
that from some moment on no pass starts before the pods written by earlier passes are in
the cache. The code waits for nothing of the kind: without it, and with a cache that is always
one pass behind, a workload may for ever create a pod too many and delete it again.
That caches catch up in milliseconds and passes are further apart is what really
prevents it. In `History` passes come again for ever and a status that can be written
again and again is written (strong fairness of `WriteStatus`: conflicts are retried with
fresh copies five times in every pass).

`Converges` excludes `MixedSingleRevision`: with one revision and pods of another,
`calculateDiffs` counts all pods and `deletePods` only those of the update revision,
so that the other pods are never replaced and too large a surplus is refused by
every pass. The run `mixed_pods` shows how to get there.

### Differences

What the violations say:

1. `mixed_pods`: roll the template back before the first rollout is promoted, and
   one revision is both current and updated while pods of the other one remain. The
   comment in `calculateDiffs` says all pods are then grouped as updated ones.
2. `early_promotion`: the status counts the pods claimed before the pass changed
   them. Lower the partition after the last pod was updated but before the pass that
   would notice, and the pass both rolls pods back and promotes the update revision.
3. `cached_owner`: `getOwner` is said to ask the API server but reads the manager's cache,
   so that a workload that is gone or being deleted still adopts pods, which the garbage
   collector then removes.

Further differences from docs and comments have a configuration of their own, outside
the regular runs; TLC finds the named property violated:

* `FirstDeployment.cfg`, `ExactlyPartitionUpdated` (`MCReconciler`): with one revision the
  partition is ignored, while the API's documentation promises exactly `spec.Partition`
  pods of the latest version.
* `StaleStatus.cfg`, `QuietStatusIsTrue`: a creation fails, the retry succeeds, the counts it
  sees equal those in the status, and nothing is written: `FailedScale` and the counts from
  before the creation stay until the next change or resync.
* `LostPod.cfg`, `QuietMeansDesired`: pods are not watched, so the loss of one starts no pass.
* `GonePod.cfg`, `VanishedPodsIgnored` (`MCOwnership`): "If the pod no longer exists, ignore
  the error", but `adopt` and `release` wrap errors with `%v`, so that `IsNotFound` never
  holds and the pass fails and is repeated.
* `Foreign.cfg`, `KeepsWhatItMade`: the selector "must match the pod template's labels", but
  nothing validates it; when it does not, every pass releases the pods of the one before
  and makes as many again.
* `OrphanedHistory.cfg`, `RestKeepsCurrent` (`MCHistory`): a workload is deleted, its dependents are
  left behind, and another one is created under its name while a pass for the first still
  runs. That pass puts its status on the new workload, whose passes do not own the current
  revision named there and take the update revision in its place, although pods of the
  other one, which they have adopted, are still there.
* `HiddenCurrent.cfg`, `EditsKeepCurrent` (`MCHistory`): an edit of the selector that matches the new
  template but no more the labels of the current revision hides that revision from
  `ListControllerRevisions`, and line 249 of the controller takes the update revision for the
  current one, although pods of a third revision that are still claimed keep the rollout from
  being complete. The README says that the rest of the pods "will stay or be rolled back to
  currentRevision"; `RestKeepsCurrent` says what is left of it: the current revision is kept as
  long as the selector matches it.

`LastTransitionTime` of a condition differs, too, without a model: a pass sets the condition
on a new status without conditions, so that `SetCondition` never sees the one before and its
time is that of the latest failure that was written, not of the last transition.

## Proofs

For every value of the constants, under the named assumptions of the modules (finitely
many pods and names, natural numbers, `None` no template, name, pod or revision):

* `SlowStartProofs`: the invariant says how the counters are related between batches
  (all calls made were successful) and inside one (waiting, running and ended calls
  are the batch). From it follow `ChannelAlwaysSuffices`, `CallsAlwaysBounded`,
  `ResultAlwaysRight`, and that every step is one of `Creation` or stutters
  (`ImplementsCreation`).
* `ReconcilerProofs`: first of the operators of `PodDiffs` that the differences lead to
  exactly the desired numbers (`TwoRevisionsReachTarget`, `OneRevisionReachesReplicas`),
  never ask for more deletions than there are pods (`DiffsFeasible`), and add up
  (`DiffsAddUp`); then of the behaviours `TypeCorrect`, `StatusAlwaysDescribesGeneration`,
  `ObservedGenerationMonotonic` and `DeletionsAlwaysFeasible`. The inductive
  invariant `IInv` adds to the types and to the property itself that a pass works
  for the template of the version it read (`WorksForWhatItRead`), that its deletions
  stay those computed from the pods it claimed (`DeletionsAsPlanned`), and that
  neither the cache nor a pass is ever behind the stored status
  (`StatusBehindCache`): without the last, nothing would relate the generation a
  pass writes to the one an earlier pass wrote.
* `AvailabilityProofs`: `AvailabilityAlwaysKept` and `SurgeAlwaysBounded`. The
  invariant `CountInv` adds to `IInv` that every creation uses up its part of the
  plan, so that without a failure the pods there are and the creations left are
  together what the differences promise (`CreationsCount`), and that the victims
  come on top of as many pods as are wanted (`DeletionsCount`). Both follow from the
  balance of the differences (`DiffsAddUp`) and hold as long as nothing but the pass
  has changed the pods it works on (`disturbed`): a cache that lags, a pod lost
  or another client's change makes any count of the pass stale. Before the first
  write, that is that the pass knows the pods (`KnowsPods`).

* `RolloutProofs`: `PassAlwaysKeepsPromise`, the refinement of `Rollout` for all behaviours of
  `Reconciler`, and `PassAlwaysReachesTarget`. The invariant `GroupInv` adds to `CountInv`, per
  group: the pods a pass found are untouched while it creates, what is there and still to
  be made never exceeds the goal, and makes it up together with what is to be deleted as long
  as nothing failed (`GrowsToGoal`); the victims left are exactly what a group has above its
  goal (`ShrinksToGoal`); without an error the goals are met at the end (`ReachesGoal`). It
  holds while the pass is undisturbed; a disturbed one maps to `open` and back by `Leave`
  and `Begin`.
* `RevisionProofs`: `StatusRevisionsAlwaysExist` and `PodRevisionsAlwaysExist`, where no pass starts
  on lagging caches (`NoLag`) but requests fail, answers and pods are lost and the process
  crashes. The invariant `RInv` holds while the workload lives: a pass has claimed a pod of
  every revision that pods carry, or makes that pod itself (`PassKnowsPods`), has listed
  what is stored (`PassKnowsRevisions`), and the status is the one it read or names its
  revisions (`PassKnowsStatus`), so that what it deletes is used by nothing
  (`TrashUnused`).
* `QuietProofs`: what holds when the controller is at rest (`Quiet`: no pass runs, nothing is
  queued, the informers have caught up). No invariant of that state alone is inductive, as
  everything depends on the pass that came last; the invariants therefore speak of the state
  just before, too, when nothing is queued and the pass has its status behind it (`Caught`).
  A write of the status causes a further pass, so that the last one found nothing to change.
  * `QuietAlwaysMeansObserved`, for all faults. `ChangesQueued` says that what the informer
    has seen of the workload since a pass read it is in the queue: a pass with an empty
    queue worked for the latest version, and the status in which it found nothing to
    change is of that version (`CaughtReported`).
  * `RecoversAlways` and `QuietAlwaysMeansDesired`, with failures, lost answers and crashes.
    A pass is alone with the pods until one is lost or a pass lags (`Undisturbed`), so by
    `PassAlwaysReachesTarget` one without error has made them right for the current revision it
    worked with, which is the one in the status that it left as it was (`CurrentFromStatus`).
    `QuietAlwaysMeansDesired` is for instances without lost pods and lagging passes;
    `RecoversAlways` for all, as long as none has occurred yet.
  * `QuietRevisionAlwaysNewest`, where no pass starts on lagging caches (`NoLag`). No two
    revisions have one number, and from the choice of the revision on that of the pass is
    the only one with the highest (`Newest`); truncation spares it by `RInv`, as
    the status names it.
  * `QuietStatusIsAlwaysTrue`, for edits at any moment and in any number, without faults
    (`OnlyEdits`) and with a quota of twice the replicas (`QuotaSuffices`). The counts in
    the status are from before the pass, so they are true only if the pass that
    wrote them last had nothing to do: a status that speaks of the latest version is
    followed by passes that leave the pods alone (`Settled`), except while `deletePods`
    refuses pods of another revision (`Stuck`, `OnlyRefusals`; see `mixed_pods`), and then
    the pass returns its error and is not the last. `HalfFree` says that half of the quota is free
    when a pass lists its pods, so that no creation is refused. Both conditions are needed: on a
    full quota a creation fails, a retry may find the counts as they are in the status,
    and `FailedScale` stays (TLC finds it with two pods, replicas 1 and 2 and three edits), which is
    the flaw of `StaleStatus.cfg` without any failing server. A crash in the middle of creations may leave more than half
    of the quota in use; with one crash TLC finds no violation on an instance, but
    the theorem does not cover it.
* `OwnershipProofs`: `OwnershipTypes`, `ClaimedPodsStayOurs`, `PodsAreNotStolen` and
  `ClaimsFollowLabels`, for any number of workloads, pods and labels and any lag. The
  invariant says that what has not been written since is cached as it is
  (`CacheFollows`) and listed as it is (`ViewFollows`), so that an update that goes through
  acts on what the pass saw; that what is to be done follows from owner and labels as
  listed (`TodoAsListed`); and, the point of it, that a pod which the cache shows with an
  owner has no other one (`CachedOwners`): to adopt it somebody has to have seen it
  without an owner, and there is one cache for all passes. Without that, a pod claimed from
  an old cache could be another workload's by the time it is deleted by name.
* `HistoryProofs`: `HistoryTypes` for all bounds and, where nobody deletes the workload and no
  pass starts on a lagging cache (`NobodyDeletesOrLags`), for every hash, all selectors and any
  number of edits, failed requests and lost answers: `UpdateIsAlwaysStored`,
  `TemplatesHaveOneRevision`, `PodsAlwaysRunTheirRevision` and `RestAlwaysKeepsCurrent`, the last one as
  long as the selector matches the current revision. The invariant `NInv` says
  that a pass knows all revisions its selector matches until it names its own (`ListIsCurrent`),
  that what it has listed stays stored (`ListIsStored`) and so do its two revisions
  (`PassRevisionsStored`), that the revision of every pod is stored (`PodsStored`) and the pass has
  seen it or works with it unless selector and labels differ (`PassKnowsPods`), so that
  truncation spares it and no other template gets its name, and that the current revision of
  the status is stored and the pass has it, unless it is hidden (`StatusStored`). That a selector
  matches its template (`Fits`, in `OneWorkload`) is what keeps a hidden revision from being
  made twice.

All safety and action properties that the runs check are theorems. Only model-checked is
liveness with its fairness, which is out of the prover's reach (`DeletionCompletes`,
`Converges`, `Returns`, `Settles`, `NamingSettles`). Recursion does not occur.

## Not modelled

* The JSON of patches and errors of `ApplyRevision`: a revision is the template it was
  made of.
* In `UpdateControllerRevision`, a conflict after which the read fails as well: the retry then
  takes its own copy, which has the number already, for the stored one and reports
  success. It takes a revision that somebody else deletes and makes again in between.
* Revisions that users delete or edit. Selectors are sets of the labels (`Ownership`) or of the
  templates (`History`) they match; how they say so is left out. `History` has only valid selectors
  that match their template (the others, which nothing in the code copes with, are in
  `Ownership`), and its passes claim all pods without a failure.
* The list operations on conditions (see *Differences*).
* Two controllers during a change of leader, the field index (unused), flags,
  certificates and metrics of `cmd/main.go`, generated code.
* Pods of several workloads together with revisions: `Ownership` and `History` meet only in
  that a workload that adopts orphans sees their revision labels (`StartPass`).

A revision listed from a lagging cache can be taken although it is truncated already, and
then be named in the status: `StatusRevisionsExist` is checked without lagging passes, and
`NamingSettles` shows that a later pass makes the revision again.

## Plan

1. *Done:* `PodDiffs`, `Reconciler`, `SlowStart`/`Creation`, `Rollout`, `Ownership`, `History`, their
   runs and the theorems above.
2. Proofs: `QuietStatusIsTrue` with crashes, under a quota that allows for what they leave behind;
   the properties of `History` while a workload is deleted and created again.
3. `Ownership` with three workloads, when the garbage collector is left out.
