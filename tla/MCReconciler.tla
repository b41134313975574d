---------------------------- MODULE MCReconciler ----------------------------
(***************************************************************************)
(* Instances of Reconciler for TLC: how many faults of each kind a run     *)
(* allows, and the symmetry of its model values.                           *)
(***************************************************************************)
EXTENDS Reconciler, TLC

CONSTANTS A, B, C, p1, p2, p3, p4

Allow(edits, deletes, S) ==
  [a \in Acts |-> CASE a = "edits"   -> edits
                    [] a = "deletes" -> deletes
                    [] OTHER         -> IF a \in S THEN 1 ELSE 0]

TwoEdits == Allow(2, 0, {})
Deletion == Allow(0, 1, {"errors", "stale"})
AnyFault == Allow(1, 0, Faults)
LagAndLoss == Allow(1, 0, {"stale", "losses"})
OneError == Allow(0, 0, {"errors"})
OneLoss == Allow(0, 0, {"losses"})

\* A cfg cannot write the negative number that stands for nil.
NilOrSmall == {NilPartition, 0, 1}
NilOrOne == {NilPartition, 1}

Symmetry == Permutations(Pods) \cup Permutations(Templates)
=============================================================================
