------------------------------ MODULE PodDiffs ------------------------------
(***************************************************************************)
(* The arithmetic of a scaling decision: how many pods of which revision   *)
(* one pass of the controller creates and deletes, computed from the       *)
(* desired numbers and from the pods it was given                          *)
(* (internal/controller/sync/util.go, calculateDiffs).                     *)
(*                                                                         *)
(* A nil spec.partition is the number NilPartition, which the minimum of 0 *)
(* in the resource's schema keeps apart from every real partition.         *)
(***************************************************************************)
EXTENDS Integers

NilPartition == -1

Abs(x) == IF x < 0 THEN -x ELSE x

IntMin(a, b) == IF a <= b THEN a ELSE b

(* A nil partition means all replicas; a larger one is clamped.            *)
EffectivePartition(replicas, partition) ==
  IF partition = NilPartition THEN replicas ELSE IntMin(partition, replicas)

\* A bug: the sign of the difference is kept.
SignedMissing(diff) == IF diff < 0 THEN diff ELSE 0

(* A difference below zero is made up by creations, above by deletions.    *)
Missing(diff) == IF diff < 0 THEN Abs(diff) ELSE 0
Surplus(diff) == IF diff > 0 THEN Abs(diff) ELSE 0

\* A bug: the numbers of pods to delete change places.
SwappedDiffs(replicas, partition, newCount, oldCount, oneRevision) ==
  LET target  == EffectivePartition(replicas, partition)
      newDiff == IF oneRevision THEN newCount + oldCount - replicas
                                ELSE newCount - target
      oldDiff == IF oneRevision THEN 0
                                ELSE oldCount - (replicas - target)
  IN [up   |-> Missing(newDiff), upOld   |-> Missing(oldDiff),
      down |-> Surplus(oldDiff), downOld |-> Surplus(newDiff)]

(***************************************************************************)
(* newCount pods carry the update revision and oldCount any other one.     *)
(* When the current and the update revision are the same object,           *)
(* oneRevision holds and both groups are counted as one.                   *)
(***************************************************************************)
CalculateDiffs(replicas, partition, newCount, oldCount, oneRevision) ==
  LET target  == EffectivePartition(replicas, partition)
      newDiff == IF oneRevision THEN newCount + oldCount - replicas
                                ELSE newCount - target
      oldDiff == IF oneRevision THEN 0
                                ELSE oldCount - (replicas - target)
  IN [up      |-> Missing(newDiff), upOld   |-> Missing(oldDiff),
      down    |-> Surplus(newDiff), downOld |-> Surplus(oldDiff)]

NoDiffs == [up |-> 0, upOld |-> 0, down |-> 0, downOld |-> 0]

(* deletePods refuses a group that is smaller than what is to be deleted.  *)
Feasible(d, newCount, oldCount) == d.down <= newCount /\ d.downOld <= oldCount
=============================================================================
