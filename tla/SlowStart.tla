------------------------------ MODULE SlowStart ------------------------------
(***************************************************************************)
(* createPods (internal/controller/sync/sync.go) on top of DoItSlowly      *)
(* (internal/util/general/helpers.go): the pods to create are put in a     *)
(* channel that is never closed, and batches of goroutines that double in  *)
(* size take one pod each and create it, until a batch has a failure.      *)
(***************************************************************************)
EXTENDS Integers, FiniteSets

CONSTANTS
  MaxCount,          \* bound: how many pods may be wanted
  InitialBatchSize   \* initialBatchSize

ASSUME CountAssumption == MaxCount \in Nat
ASSUME BatchAssumption == InitialBatchSize \in Nat \ {0}

VARIABLES
  count,      \* how many pods were put in the channel
  head,       \* how many of them were received
  remaining,  \* calls not accounted for by a finished batch
  successes,  \* the successful calls of finished batches
  batchSize,  \* the size of this batch
  pc,         \* "loop" at the loop's test, "wait" in wg.Wait, "done" after it
  waiting,    \* goroutines of this batch yet to receive
  inflight,   \* the pods whose creation is under way
  errs,       \* the errors in this batch's channel
  made,       \* the pods the API server has made
  failed      \* the call returned an error

vars == <<count, head, remaining, successes, batchSize, pc, waiting, inflight,
          errs, made, failed>>

Smaller(a, b) == IF a <= b THEN a ELSE b

TypeOK ==
  /\ count \in 0..MaxCount /\ head \in 0..count
  /\ remaining \in 0..count /\ successes \in 0..count /\ batchSize \in 0..count
  /\ pc \in {"loop", "wait", "done"}
  /\ waiting \in 0..batchSize /\ errs \in 0..batchSize
  /\ inflight \subseteq 1..count /\ made \subseteq 1..count
  /\ failed \in BOOLEAN

Init ==
  /\ count \in 0..MaxCount /\ head = 0
  /\ remaining = count /\ successes = 0
  /\ batchSize = Smaller(remaining, InitialBatchSize)
  /\ pc = "loop" /\ waiting = 0 /\ inflight = {} /\ errs = 0
  /\ made = {} /\ failed = FALSE

\* The loop starts a batch of goroutines, or ends.
StartBatch ==
  /\ pc = "loop" /\ batchSize > 0
  /\ pc' = "wait" /\ waiting' = batchSize /\ errs' = 0
  /\ UNCHANGED <<count, head, remaining, successes, batchSize, inflight, made,
                 failed>>

EndLoop ==
  /\ pc = "loop" /\ batchSize = 0
  /\ pc' = "done"
  /\ UNCHANGED <<count, head, remaining, successes, batchSize, waiting, inflight,
                 errs, made, failed>>

\* A goroutine receives a pod; it would block for ever on an empty channel.
Receive ==
  /\ waiting > 0 /\ head < count
  /\ waiting' = waiting - 1 /\ head' = head + 1
  /\ inflight' = inflight \cup {head + 1}
  /\ UNCHANGED <<count, remaining, successes, batchSize, pc, errs, made, failed>>

CreateSucceeds ==
  /\ \E i \in inflight : inflight' = inflight \ {i} /\ made' = made \cup {i}
  /\ UNCHANGED <<count, head, remaining, successes, batchSize, pc, waiting, errs,
                 failed>>

\* The pod is refused, or made and the answer lost.
CreateFails ==
  /\ \E i \in inflight : /\ inflight' = inflight \ {i}
                         /\ made' \in {made, made \cup {i}}
  /\ errs' = errs + 1
  /\ UNCHANGED <<count, head, remaining, successes, batchSize, pc, waiting, failed>>

\* A bug: the next batch is twice as large whatever remains.
Doubled(size, rest) == 2 * size

NextBatchSize(size, rest) == Smaller(2 * size, rest)

\* A bug: the wait ends with the first error of the batch.
FirstError == errs > 0 \/ (waiting = 0 /\ inflight = {})

AllDone == waiting = 0 /\ inflight = {}

\* A bug: only a batch without any success is a failure.
AllFailed == errs = batchSize

SomeFailed == errs > 0

\* wg.Wait returns: the calls are counted, and a failure ends the loop.
Join ==
  /\ pc = "wait" /\ AllDone
  /\ successes' = successes + (batchSize - errs)
  /\ IF SomeFailed
     THEN /\ failed' = TRUE /\ pc' = "done"
          /\ UNCHANGED <<remaining, batchSize>>
     ELSE /\ remaining' = remaining - batchSize
          /\ batchSize' = NextBatchSize(batchSize, remaining')
          /\ pc' = "loop" /\ UNCHANGED failed
  /\ UNCHANGED <<count, head, waiting, inflight, errs, made>>

Next == StartBatch \/ EndLoop \/ Receive \/ CreateSucceeds \/ CreateFails \/ Join

\* The goroutines run and every call to the API server is answered.
Spec == Init /\ [][Next]_vars /\ WF_vars(Next)

-----------------------------------------------------------------------------
\* No goroutine waits for a pod the channel does not hold: with the channel
\* never closed, it and the pass would hang.
ChannelSuffices == waiting <= count - head

\* Slow start: the calls made exceed twice those known to have succeeded by the
\* initial batch size at the most, so that a broken API server gets few.
CallsBounded == head <= 2 * successes + InitialBatchSize

\* What is returned is right: no error means that every pod was made and counted,
\* an error that some call was not counted.
ResultRight ==
  pc = "done" => IF failed THEN successes < head
                           ELSE made = 1..count /\ successes = count

\* Every call of createPods returns.
Returns == <>(pc = "done")

-----------------------------------------------------------------------------
result == IF pc # "done" THEN "running" ELSE IF failed THEN "error" ELSE "ok"

Abstract == INSTANCE Creation

\* createPods does what Creation promises.
CreatesAsPromised == Abstract!Spec
=============================================================================
