------------------------------- MODULE Rollout -------------------------------
(***************************************************************************)
(* What one pass of the controller promises about the pods of a workload,  *)
(* whatever the code between looks like. Pods of the latest template are   *)
(* the new ones, all others the old ones. A pass that nothing disturbs     *)
(* makes the pods each group is missing, then removes those each has too   *)
(* many, and is done when both have what they should. After a failure it   *)
(* removes nothing more.                                                   *)
(***************************************************************************)
EXTENDS Integers

VARIABLES
  phase,   \* "open" when nothing is promised, and the parts of a pass
  have,    \* how many pods each group has
  goal     \* how many it should have

vars == <<phase, have, goal>>

Groups == {"new", "old"}
Counts == [Groups -> Nat]
NoCounts == [g \in Groups |-> 0]

TypeOK ==
  /\ phase \in {"open", "grow", "failing", "shrink", "failed", "done"}
  /\ have \in Counts /\ goal \in Counts

Init == phase = "open" /\ have = NoCounts /\ goal = NoCounts

Begin ==
  /\ phase = "open" /\ phase' = "grow"
  /\ have' \in Counts /\ goal' \in Counts

\* A missing pod is made; another one may fail, or this one's answer be lost.
Make ==
  /\ phase \in {"grow", "failing"}
  /\ phase' \in {phase, "failing"}
  /\ \E g \in Groups : have[g] < goal[g] /\ have' = [have EXCEPT ![g] = @ + 1]
  /\ UNCHANGED goal

\* Nothing is removed before everything that is missing was made.
StartShrinking ==
  /\ phase = "grow" /\ phase' = "shrink"
  /\ \A g \in Groups : have[g] >= goal[g]
  /\ UNCHANGED <<have, goal>>

Remove ==
  /\ phase = "shrink" /\ phase' \in {"shrink", "failed"}
  /\ \E g \in Groups : have[g] > goal[g] /\ have' = [have EXCEPT ![g] = @ - 1]
  /\ UNCHANGED goal

\* Success is claimed for exactly the numbers that were asked for.
Finish ==
  /\ phase \in {"grow", "shrink"} /\ phase' = "done"
  /\ UNCHANGED goal
  /\ have' = goal
  /\ \/ UNCHANGED have
     \/ /\ phase = "shrink"
        /\ \E g \in Groups : have[g] > goal[g] /\ have' = [have EXCEPT ![g] = @ - 1]

Fail ==
  /\ \/ phase = "grow" /\ phase' \in {"failing", "failed"}
     \/ phase \in {"failing", "shrink"} /\ phase' = "failed"
  /\ UNCHANGED <<have, goal>>

\* The pass ends, or something else changes the pods it works on.
Leave == phase' = "open" /\ have' = NoCounts /\ goal' = NoCounts

Next == Begin \/ Make \/ StartShrinking \/ Remove \/ Finish \/ Fail \/ Leave

Spec == Init /\ [][Next]_vars
=============================================================================
