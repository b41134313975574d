------------------------------- MODULE Creation -------------------------------
(***************************************************************************)
(* What creating the pods a pass is missing promises to the rest of the    *)
(* pass: each wanted pod is made at most once, success is reported only    *)
(* when all of them are made, and nothing is made after the report.        *)
(***************************************************************************)
EXTENDS Integers

CONSTANT MaxCount   \* bound: how many pods may be wanted

VARIABLES
  count,    \* how many pods are wanted
  made,     \* the wanted pods that exist
  result    \* "running", and then what is reported

vars == <<count, made, result>>

Init == count \in 0..MaxCount /\ made = {} /\ result = "running"

Make ==
  /\ result = "running"
  /\ \E i \in (1..count) \ made : made' = made \cup {i}
  /\ UNCHANGED <<count, result>>

Return ==
  /\ result = "running"
  /\ result' \in {"ok", "error"}
  /\ result' = "ok" => made = 1..count
  /\ UNCHANGED <<count, made>>

Next == Make \/ Return

Spec == Init /\ [][Next]_vars
=============================================================================
