------------------------------ MODULE MCHistory ------------------------------
(***************************************************************************)
(* Instances of History for TLC: templates whose first hashes collide.     *)
(***************************************************************************)
EXTENDS History, TLC

CONSTANTS A, B, C, h1, h2, h3, h4

\* A and B collide at first, and the second name of either is that of C.
Colliding ==
  [t \in Templates |-> [c \in 0..MaxCount |->
     IF c = 0 THEN IF t = C THEN h2 ELSE h1
     ELSE IF c = 1 THEN IF t = C THEN h3 ELSE h2
     ELSE IF t = A THEN h3 ELSE h4]]

\* Either matches any template, or no more those of A.
AnySelector == {Templates}
TwoSelectors == {Templates, Templates \ {A}}

Allow(edits, deletes, lags, errors) ==
  [a \in Acts |-> CASE a = "edits" -> edits [] a = "stale" -> lags
                    [] a = "errors" -> errors [] OTHER -> deletes]

Edits     == {Allow(3, 0, 0, 1)}
Lag       == {Allow(2, 0, 1, 1)}
Recreated == {Allow(1, 1, 0, 0), Allow(0, 1, 1, 1)}
LagOrRecreated == Lag \cup Recreated
=============================================================================
