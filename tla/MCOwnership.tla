----------------------------- MODULE MCOwnership -----------------------------
(***************************************************************************)
(* Instances of Ownership for TLC: two workloads whose selectors share a   *)
(* label, and how often users and faults may act.                          *)
(***************************************************************************)
EXTENDS Ownership, TLC

CONSTANTS A, B, x, y, p1, p2, p3, p4

\* Both match y; the pods of A carry x, those of B carry y.
OverlapTemplate == A :> x @@ B :> y
Overlap == A :> {{x, y}} @@ B :> {{y}}
Edited  == A :> {{x, y}, {x}} @@ B :> {{y}, Invalid}

\* The pods of A do not match its selector.
Foreign == A :> {{y}} @@ B :> {{y}}

Allow(S) == [a \in Acts |-> IF a \in S THEN 1 ELSE 0]

LabelsChange == {Allow({"edits", "relabels", "errors", "crashes"})}
OwnersChange == {Allow({"creates", "deletes", "bare"})}
AnyChange    == LabelsChange \cup OwnersChange
Settling     == {Allow({"relabels", "errors"}), Allow({"relabels", "losses"})}
Vanishing    == {Allow({"bare", "losses"})}
Calm         == {Allow({})}

Symmetry == Permutations(Pods)
=============================================================================
