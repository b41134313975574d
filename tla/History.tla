------------------------------- MODULE History -------------------------------
(***************************************************************************)
(* The revisions of one workload and their names: getActiveRevisions and   *)
(* truncateHistory (internal/controller/partitionworkload_controller.go),  *)
(* the history control (internal/util/history/controller_history.go) and   *)
(* the part of the status that names revisions.                            *)
(*                                                                         *)
(* A revision's name is the workload's name and a hash of the template and *)
(* of a collision count. Hashes collide, and a workload that was deleted   *)
(* and created again meets the revisions of the one before. A revision and *)
(* the pods made of it carry the labels of its template, by which the      *)
(* workload's selector finds them, or finds them no more once users have   *)
(* edited it. How many pods there are is left to Reconciler: here a pass   *)
(* may make pods of its two revisions and remove any.                      *)
(***************************************************************************)
EXTENDS Integers, FiniteSets

CONSTANTS
  Templates,    \* the pod templates users write
  Selectors,    \* the selectors users write: the templates whose labels they match
  RevNames,     \* the names of revisions
  Hash,         \* the name for a template and a collision count
  HistoryLimit, \* the revisions kept besides the live ones
  None,         \* no revision, no name
  Budgets       \* bounds: how often users and faults may act, one choice or several

Acts == {"edits", "deletes", "creates", "stale", "errors"}

\* Bound: collisions are counted up to here.
MaxCount == Cardinality(RevNames)

ASSUME HashAssumption   == Hash \in [Templates -> [0..MaxCount -> RevNames]]
ASSUME NamesAssumption  == IsFiniteSet(RevNames)
ASSUME SelectorsAssumption == Selectors \subseteq SUBSET Templates
ASSUME LimitAssumption  == HistoryLimit \in Nat
ASSUME BudgetAssumption == Budgets \subseteq [Acts -> Nat]

VARIABLES
  \* What the API server stores.
  work,       \* the workload
  revs,       \* the revision of each name, or None
  pods,       \* the kinds of pods there are
  lastUid,    \* the uid given last
  \* The informers' copies, and the revisions written since theirs.
  workCache, revCache, outdated,
  \* The pass in progress.
  pc,         \* what it does next
  inst,       \* the workload it read
  list,       \* the revisions it listed, less those it deleted
  stale,      \* those written since: an update of one of them is a conflict
  seen,       \* the revisions' names that its pods carry
  cur, upd,   \* its current and its update revision
  count,      \* collisionCount
  \* Bookkeeping of the model.
  budget      \* what users and faults may still do

apiVars   == <<work, revs, pods, lastUid>>
cacheVars == <<workCache, revCache, outdated>>
passVars  == <<pc, inst, list, seen, cur, upd, count>>
vars == <<apiVars, cacheVars, passVars, stale, budget>>

-----------------------------------------------------------------------------
(* The data.                                                               *)

Status == [current : RevNames \cup {None}, update : RevNames \cup {None}, count : 0..MaxCount]
NoStatus == [current |-> None, update |-> None, count |-> 0]

\* An orphaning workload is being deleted and its dependents are to be left behind.
Phases == {"live", "orphaning"}
Absent == [phase |-> "absent", uid |-> 0, template |-> None, selector |-> {}, status |-> NoStatus]
Present == [phase : Phases, uid : Nat, template : Templates, selector : Selectors, status : Status]
Workload == Present \cup {Absent}

\* What users write: a selector must match the template's labels.
Fits(w) == w.template \in w.selector

Revision == [owner : Nat, data : Templates, number : Nat]  \* owner 0 is nobody
PodKind  == [name : RevNames, data : Templates, owner : Nat]
Active   == [name : RevNames, data : Templates]           \* what a pass knows of one

ASSUME NoneAssumption == None \notin RevNames \cup Revision

Exists(m) == {n \in RevNames : m[n] # None}
Listed == Exists(list)
NoRevs == [n \in RevNames |-> None]

Spend(act) == /\ budget[act] > 0
              /\ budget' = [budget EXCEPT ![act] = @ - 1]

TypeOK ==
  /\ work \in Workload /\ workCache \in Workload /\ inst \in Workload
  /\ revs \in [RevNames -> Revision \cup {None}]
  /\ revCache \in [RevNames -> Revision \cup {None}]
  /\ list \in [RevNames -> Revision \cup {None}]
  /\ pods \subseteq PodKind /\ lastUid \in Nat
  /\ outdated \subseteq RevNames /\ stale \subseteq RevNames /\ seen \subseteq RevNames
  /\ pc \in {"idle", "revise", "sync", "status", "truncate"}
  /\ pc # "idle" => inst # Absent
  /\ cur \in Active \cup {None} /\ upd \in Active \cup {None}
  /\ pc \in {"sync", "status", "truncate"} => cur \in Active /\ upd \in Active
  /\ count \in 0..MaxCount /\ budget \in [Acts -> Nat]

\* Every write of a revision gives it a new version.
WriteRevision(n, new) ==
  /\ revs' = [revs EXCEPT ![n] = new]
  /\ outdated' = outdated \cup {n}

SetRevision(n, new) ==
  /\ WriteRevision(n, new)
  /\ stale' = IF pc = "idle" THEN {} ELSE stale \cup {n}

UnchangedRevs == UNCHANGED <<revs, outdated, stale>>

ResetPass ==
  /\ pc' = "idle" /\ inst' = Absent /\ list' = NoRevs /\ seen' = {}
  /\ cur' = None /\ upd' = None /\ count' = 0

\* A user has just created the workload.
Init ==
  /\ work \in [phase : {"live"}, uid : {1}, template : Templates, selector : Selectors,
               status : {NoStatus}]
  /\ Fits(work)
  /\ lastUid = 1 /\ workCache = work
  /\ revs = NoRevs /\ revCache = NoRevs /\ outdated = {} /\ pods = {}
  /\ pc = "idle" /\ inst = Absent /\ list = NoRevs /\ stale = {} /\ seen = {}
  /\ cur = None /\ upd = None /\ count = 0
  /\ budget \in Budgets

-----------------------------------------------------------------------------
(* The users, the garbage collector and the informers.                     *)

UserEdits ==
  /\ work.phase = "live" /\ Spend("edits")
  /\ \E t \in Templates, s \in Selectors :
        work' = [work EXCEPT !.template = t, !.selector = s]
  /\ work' # work /\ Fits(work')
  /\ UNCHANGED <<revs, pods, lastUid, cacheVars, passVars, stale>>

\* In the background, or leaving the dependents behind.
UserDeletes ==
  /\ work.phase = "live" /\ Spend("deletes")
  /\ work' \in {Absent, [work EXCEPT !.phase = "orphaning"]}
  /\ UNCHANGED <<revs, pods, lastUid, cacheVars, passVars, stale>>

UserCreates ==
  /\ work.phase = "absent" /\ Spend("creates")
  /\ lastUid' = lastUid + 1
  /\ \E t \in Templates, s \in Selectors :
        work' = [phase |-> "live", uid |-> lastUid + 1, template |-> t, selector |-> s,
                 status |-> NoStatus]
  /\ Fits(work')
  /\ UNCHANGED <<revs, pods, cacheVars, passVars, stale>>

CollectRevision ==
  /\ \E n \in Exists(revs) : /\ revs[n].owner \notin {0, work.uid}
                             /\ SetRevision(n, None)
  /\ UNCHANGED <<work, pods, lastUid, workCache, revCache, passVars, budget>>

CollectPods ==
  /\ \E p \in pods : p.owner \notin {0, work.uid} /\ pods' = pods \ {p}
  /\ UNCHANGED <<work, revs, lastUid, cacheVars, passVars, stale, budget>>

OrphanRevision ==
  /\ work.phase = "orphaning"
  /\ \E n \in Exists(revs) : /\ revs[n].owner = work.uid
                             /\ SetRevision(n, [revs[n] EXCEPT !.owner = 0])
  /\ UNCHANGED <<work, pods, lastUid, workCache, revCache, passVars, budget>>

Orphaned(p, uid) == IF p.owner = uid THEN [p EXCEPT !.owner = 0] ELSE p

\* The dependents are all nobody's: the workload goes.
EndOrphaning ==
  /\ work.phase = "orphaning" /\ \A n \in Exists(revs) : revs[n].owner # work.uid
  /\ pods' = {Orphaned(p, work.uid) : p \in pods} /\ work' = Absent
  /\ UNCHANGED <<revs, lastUid, cacheVars, passVars, stale, budget>>

SyncWorkload ==
  /\ workCache # work /\ workCache' = work
  /\ UNCHANGED <<apiVars, revCache, outdated, passVars, stale, budget>>

SyncRevisions ==
  /\ outdated # {} /\ revCache' = revs /\ outdated' = {}
  /\ UNCHANGED <<apiVars, workCache, passVars, stale, budget>>

Synced == workCache = work /\ outdated = {}

-----------------------------------------------------------------------------
(* The pass: which revisions it works with.                                *)

\* Of the revisions cached, those that the selector matches and the workload controls.
OwnRevisions(w) ==
  [n \in RevNames |-> IF /\ revCache[n] # None /\ revCache[n].data \in w.selector
                         /\ revCache[n].owner = w.uid
                      THEN revCache[n] ELSE None]

\* A pod that is nobody's is adopted when the selector matches it, and one of the
\* workload's is released when it does not.
Claimed(p, w) ==
  IF p.owner \in {0, w.uid}
  THEN [p EXCEPT !.owner = IF p.data \in w.selector THEN w.uid ELSE 0] ELSE p

StartPass ==
  /\ pc = "idle" /\ workCache.phase # "absent"
  /\ IF Synced THEN UNCHANGED budget ELSE Spend("stale")
  /\ inst' = workCache /\ list' = OwnRevisions(workCache) /\ stale' = outdated
  /\ pods' = IF workCache.phase = "live" THEN {Claimed(p, workCache) : p \in pods} ELSE pods
  /\ seen' = {p.name : p \in {q \in pods' : /\ q.owner = workCache.uid
                                            /\ q.data \in workCache.selector}}
  /\ count' = workCache.status.count
  /\ pc' = "revise" /\ UNCHANGED <<work, revs, lastUid, cacheVars, cur, upd>>

Wanted == inst.template

\* Those that may sort last, of the listed revisions in S.
Last(S) == {n \in S : \A m \in S : list[m].number <= list[n].number}

\* The number after that of the last revision.
NextNumbers == IF Listed = {} THEN {1} ELSE {list[n].number + 1 : n \in Last(Listed)}

NewRevisions == [owner : {inst.uid}, data : {Wanted}, number : NextNumbers]

\* A bug: only the last revision is compared.
LastEqual == {n \in Last(Listed) : list[n].data = Wanted}

\* The revisions that have the template's data.
Equal == {n \in Listed : list[n].data = Wanted}

\* A bug: the name in the status is believed, listed or not.
NamedByStatus(u) ==
  /\ upd' = u /\ cur' = [name |-> inst.status.current, data |-> u.data]
  /\ pc' = "sync"

\* The current revision is the listed one that the status names, or none: then
\* the update revision is taken.
BeginSync(u) ==
  /\ upd' = u
  /\ LET c == inst.status.current
     IN cur' = IF c \in Listed THEN [name |-> c, data |-> list[c].data] ELSE u
  /\ pc' = "sync"

\* The last revision has the template's data.
ReuseRevision ==
  /\ pc = "revise"
  /\ \E n \in Last(Listed) : n \in Equal /\ BeginSync([name |-> n, data |-> Wanted])
  /\ UNCHANGED <<apiVars, cacheVars, inst, list, seen, count, stale, budget>>

\* Another one sorts last than one with the template's data.
NotLast == \E m \in Last(Listed) : m \notin Equal

\* The number of an earlier revision is raised, from the version that was listed or,
\* after a conflict, from the one that is cached.
Raise(n) ==
  /\ revs[n] # None /\ n \notin stale \cap outdated
  /\ \E k \in NextNumbers : WriteRevision(n, [revs[n] EXCEPT !.number = k])

\* An earlier one has the data: it is raised; a cached one that has the number
\* already is taken as it is.
RollBackRevision ==
  /\ pc = "revise" /\ NotLast
  /\ \E n \in Last(Equal) :
        /\ BeginSync([name |-> n, data |-> Wanted]) /\ revs[n] # None
        /\ \/ Raise(n) /\ stale' = stale \cup {n}
           \/ /\ n \in stale /\ revCache[n] # None /\ revCache[n].number \in NextNumbers
              /\ UnchangedRevs
  /\ UNCHANGED <<work, pods, lastUid, workCache, revCache, inst, list, seen, count, budget>>

NextName == Hash[Wanted][count]

\* A bug: a revision that has the name is taken, whatever its data.
AnyData(n) == TRUE

\* The revision that has the name is the one to be created.
SameData(n) == revCache[n].data = Wanted

\* None has: one is created under a name that is free.
CreateRevision ==
  /\ pc = "revise" /\ Equal = {} /\ revs[NextName] = None
  /\ \E new \in NewRevisions : SetRevision(NextName, new)
  /\ BeginSync([name |-> NextName, data |-> Wanted])
  /\ UNCHANGED <<work, pods, lastUid, workCache, revCache, inst, list, seen, count, budget>>

\* The name is that of a revision with the same data, as far as the cache knows.
TakeRevision ==
  /\ pc = "revise" /\ Equal = {} /\ revs[NextName] # None
  /\ revCache[NextName] # None /\ SameData(NextName)
  /\ BeginSync([name |-> NextName, data |-> revCache[NextName].data])
  /\ UNCHANGED <<apiVars, cacheVars, inst, list, seen, count, stale, budget>>

\* A bug: the name is tried again and again.
CollideInVain ==
  /\ pc = "revise" /\ Equal = {} /\ revs[NextName] # None
  /\ revCache[NextName] # None /\ ~SameData(NextName)
  /\ UNCHANGED <<apiVars, cacheVars, passVars, stale, budget>>

\* It is that of one with other data: the next name is tried.
Collide ==
  /\ pc = "revise" /\ Equal = {} /\ revs[NextName] # None
  /\ revCache[NextName] # None /\ ~SameData(NextName)
  /\ count < MaxCount /\ count' = count + 1
  /\ UNCHANGED <<apiVars, cacheVars, pc, inst, list, seen, cur, upd, stale, budget>>

\* The update meets a version it does not know or no revision, the name is taken
\* by one that the cache does not hold, or the API server fails, with the update or
\* the creation refused or done.
ReviseFails ==
  /\ pc = "revise" /\ (Equal = {} \/ NotLast)
  /\ \/ /\ \E n \in Last(Equal) : n \in stale
        /\ UNCHANGED <<revs, outdated, budget>>
     \/ /\ Equal = {} /\ revs[NextName] # None /\ revCache[NextName] = None
        /\ UNCHANGED <<revs, outdated, budget>>
     \/ Spend("errors") /\ UNCHANGED <<revs, outdated>>
     \/ Spend("errors") /\ \E n \in Last(Equal) : Raise(n)
     \/ /\ Spend("errors") /\ Equal = {} /\ revs[NextName] = None
        /\ \E new \in NewRevisions : WriteRevision(NextName, new)
  /\ stale' = {} /\ ResetPass
  /\ UNCHANGED <<work, pods, lastUid, workCache, revCache>>

-----------------------------------------------------------------------------
(* The pass: what it does with them.                                       *)

PodOf(r) == [name |-> r.name, data |-> r.data, owner |-> inst.uid]

\* Any of the workload's pods go and any of the two revisions come, which is more
\* than ScaleAndUpdate does; pods of a workload being deleted are left alone.
Scale ==
  /\ pc = "sync" /\ pc' = "status"
  /\ IF inst.phase # "live" THEN UNCHANGED pods
     ELSE \E gone \in SUBSET {p \in pods : p.owner = inst.uid},
             new \in SUBSET {PodOf(cur), PodOf(upd)} : pods' = (pods \ gone) \cup new
  /\ UNCHANGED <<work, revs, lastUid, cacheVars, inst, list, seen, cur, upd, count,
                 stale, budget>>

\* A full rollout as the status takes it: no pod it saw carries another revision.
Promoted == seen \subseteq {upd.name}

NewStatuses ==
  {[current |-> c, update |-> upd.name, count |-> count] :
     c \in {cur.name} \cup (IF Promoted THEN {upd.name} ELSE {})}

\* The status is put on the cached copy of whatever has the workload's name, and
\* refused until the cache is current.
WriteStatus ==
  /\ pc = "status" /\ workCache = work /\ work.phase # "absent"
  /\ \E s \in NewStatuses : work' = [work EXCEPT !.status = s]
  /\ pc' = "truncate"
  /\ UNCHANGED <<revs, pods, lastUid, cacheVars, inst, list, seen, cur, upd, count,
                 stale, budget>>

\* Nothing that is compared has changed; the collision count is not compared.
SkipStatus ==
  /\ pc = "status" /\ pc' = "truncate"
  /\ \E s \in NewStatuses : s.current = inst.status.current /\ s.update = inst.status.update
  /\ UNCHANGED <<apiVars, cacheVars, inst, list, seen, cur, upd, count, stale, budget>>

\* The workload is gone, the retries are used up, or the API server fails.
StatusFails ==
  /\ pc = "status"
  /\ \/ (workCache # work \/ work.phase = "absent") /\ UNCHANGED <<work, budget>>
     \/ Spend("errors") /\ UNCHANGED work
     \/ /\ Spend("errors") /\ workCache = work /\ work.phase # "absent"
        /\ \E s \in NewStatuses : work' = [work EXCEPT !.status = s]
  /\ stale' = {} /\ ResetPass
  /\ UNCHANGED <<revs, pods, lastUid, cacheVars>>

\* A bug: the pods' revisions are truncated like the others.
DeadRevisions == Listed \ {cur.name, upd.name}

\* A bug: the current revision counts as history once no pod carries it.
NotCurrent == Listed \ ({upd.name} \cup seen)

NonLive == Listed \ ({cur.name, upd.name} \cup seen)

First(S) == {n \in S : \A m \in S : list[n].number <= list[m].number}

\* The oldest of them go, by name, as long as there are more than the limit.
TooMany == Cardinality(NonLive) > HistoryLimit

DeleteRevision ==
  /\ pc = "truncate" /\ TooMany
  /\ \E n \in First(NonLive) : /\ revs[n] # None /\ SetRevision(n, None)
                               /\ list' = [list EXCEPT ![n] = None]
  /\ UNCHANGED <<work, pods, lastUid, workCache, revCache, pc, inst, seen, cur, upd,
                 count, budget>>

\* Where one is gone already, or the API server fails, the others stay.
TruncateFails ==
  /\ pc = "truncate" /\ TooMany
  /\ \E n \in First(NonLive) :
        \/ revs[n] = None /\ UNCHANGED <<revs, outdated, budget>>
        \/ /\ revs[n] # None /\ Spend("errors")
           /\ UNCHANGED <<revs, outdated>> \/ WriteRevision(n, None)
  /\ stale' = {} /\ ResetPass
  /\ UNCHANGED <<work, pods, lastUid, workCache, revCache>>

EndPass ==
  /\ pc = "truncate" /\ ~TooMany
  /\ stale' = {} /\ ResetPass
  /\ UNCHANGED <<apiVars, cacheVars, budget>>

-----------------------------------------------------------------------------
Environment == \/ UserEdits \/ UserDeletes \/ UserCreates
               \/ CollectRevision \/ CollectPods \/ OrphanRevision \/ EndOrphaning

Naming == \/ ReuseRevision \/ RollBackRevision \/ CreateRevision \/ TakeRevision
          \/ Collide \/ ReviseFails

Truncation == DeleteRevision \/ TruncateFails \/ EndPass

Pass == Naming \/ Scale \/ WriteStatus \/ SkipStatus \/ StatusFails \/ Truncation

Next == Environment \/ SyncWorkload \/ SyncRevisions \/ StartPass \/ Pass

Spec == Init /\ [][Next]_vars

\* Passes go on and come again, watches deliver and the garbage collector works. A
\* status that can be written is written some day.
Fairness ==
  /\ WF_vars(StartPass) /\ WF_vars(Pass) /\ SF_vars(WriteStatus)
  /\ WF_vars(SyncWorkload) /\ WF_vars(SyncRevisions)
  /\ WF_vars(CollectRevision) /\ WF_vars(CollectPods)
  /\ WF_vars(OrphanRevision) /\ WF_vars(EndOrphaning)

FairSpec == Spec /\ Fairness

-----------------------------------------------------------------------------
(* Properties.                                                             *)

\* As long as nobody deletes the workload and no pass starts on a lagging cache,
\* the name a pass uses for its update revision is that of a stored revision with
\* the template it read, whatever names collide.
UpdateIsStored ==
  pc \in {"sync", "status"} =>
    revs[upd.name] # None /\ revs[upd.name].data = Wanted

\* Then a template also has one revision at the most.
OneRevisionPerTemplate ==
  \A m, n \in Exists(revs) : m # n => revs[m].data # revs[n].data

\* A pod that counts for a revision runs its template: no revision gets the name of
\* a deleted one while pods carry it.
PodsRunTheirRevision ==
  \A p \in pods : revs[p.name] # None /\ p.owner = work.uid
                    => revs[p.name].data = p.data

Named == /\ work.status.update # None /\ revs[work.status.update] # None
         /\ revs[work.status.update].data = work.template

\* A write of the status in the middle of a rollout.
MidRollout == /\ WriteStatus /\ work.phase = "live" /\ work.uid = inst.uid
              /\ ~Promoted /\ work.status.current # None

\* The selector matches no more the current revision, which is there.
Hidden == LET c == inst.status.current
          IN c # None /\ revs[c] # None /\ revs[c].data \notin inst.selector

\* README.md: "The rest of the pods will stay or be rolled back to currentRevision".
\* Until every pod has the update revision, the status goes on to name the current
\* revision it named before: a pass that did not find it would take the update
\* revision in its place. (It does not find one that users have hidden from the
\* selector, or that is made nobody's.)
RestKeepsCurrent ==
  [][MidRollout /\ ~Hidden => work'.status.current = work.status.current]_vars

\* Whatever lagged, failed, collided or was left by an earlier workload of the same
\* name: in the end the status names a revision with the template users want.
NamingSettles == <>[](work.phase = "absent" \/ Named)

-----------------------------------------------------------------------------
(* What the README says, where the code differs.                           *)

\* README.md: "The rest of the pods will stay or be rolled back to currentRevision",
\* whatever users edit, the selector included.
EditsKeepCurrent ==
  [][MidRollout => work'.status.current = work.status.current]_vars
=============================================================================
