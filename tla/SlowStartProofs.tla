---------------------------- MODULE SlowStartProofs ----------------------------
(***************************************************************************)
(* Proofs that SlowStart never hangs on its channel, keeps its bound on    *)
(* calls, returns the truth, and implements Creation, for every number of  *)
(* pods and every initial batch size.                                      *)
(***************************************************************************)
EXTENDS SlowStart, FiniteSetTheorems, TLAPS

\* Between batches every pod received so far was made, and the loop ends only
\* when none remains.
BetweenBatches ==
  pc = "loop" => /\ waiting = 0 /\ inflight = {} /\ errs = 0
                 /\ head = count - remaining /\ made = 1..head

\* Inside a batch every call is waiting, under way, failed or has made its pod.
InsideBatch ==
  pc = "wait" => /\ batchSize > 0
                 /\ head + waiting = count - remaining + batchSize
                 /\ errs + waiting + Cardinality(inflight) <= batchSize
                 /\ errs = 0 => 1..head = made \cup inflight

BatchSizes ==
  /\ batchSize <= remaining
  /\ batchSize <= count - remaining + InitialBatchSize
  /\ batchSize = 0 => remaining = 0

Counted ==
  /\ pc # "done" => successes = count - remaining /\ ~failed
  /\ pc = "done" => /\ waiting = 0 /\ inflight = {}
                    /\ head <= 2 * successes + InitialBatchSize

IInv == /\ TypeOK /\ BetweenBatches /\ InsideBatch /\ BatchSizes /\ Counted
        /\ inflight \subseteq 1..head /\ made \subseteq 1..head
        /\ ResultRight

-----------------------------------------------------------------------------
\* Counting the creations under way: one more, one less, and none. The numbers
\* are those Receive, CreateSucceeds and CreateFails leave.
LEMMA InflightCounts ==
  ASSUME TypeOK, inflight \subseteq 1..head
  PROVE  /\ IsFiniteSet(inflight) /\ Cardinality(inflight) \in Nat
         /\ Cardinality(inflight \cup {head + 1}) = Cardinality(inflight) + 1
         /\ \A i \in inflight :
              Cardinality(inflight \ {i}) = Cardinality(inflight) - 1
<1>1. head \in Int /\ count \in Int
  BY CountAssumption DEF TypeOK
<1>2. IsFiniteSet(inflight)
  <2>1. IsFiniteSet(1..head)
    BY <1>1, FS_Interval
  <2>2. inflight \in SUBSET (1..head)
    OBVIOUS
  <2>. QED BY <2>1, <2>2, FS_Subset
<1>3. Cardinality(inflight) \in Nat
  BY <1>2, FS_CardinalityType
<1>4. head + 1 \notin inflight
  BY <1>1
<1>5. Cardinality(inflight \cup {head + 1}) = Cardinality(inflight) + 1
  BY <1>2, <1>4, FS_AddElement
<1>6. \A i \in inflight : Cardinality(inflight \ {i}) = Cardinality(inflight) - 1
  BY <1>2, FS_RemoveElement
<1>. QED BY <1>2, <1>3, <1>5, <1>6

\* The invariant holds when createPods has filled its channel.
LEMMA InitInvariant == Init => IInv
<1>. SUFFICES ASSUME Init PROVE IInv
  OBVIOUS
<1>. USE CountAssumption, BatchAssumption
<1>1. /\ count \in 0..MaxCount /\ count \in Nat
      /\ head = 0 /\ remaining = count /\ successes = 0 /\ pc = "loop"
      /\ waiting = 0 /\ inflight = {} /\ errs = 0 /\ made = {} /\ failed = FALSE
  BY DEF Init
<1>2. /\ batchSize \in Nat /\ batchSize <= count /\ batchSize <= InitialBatchSize
      /\ batchSize = 0 => count = 0
  BY <1>1 DEF Init, Smaller
<1>3. TypeOK
  <2>1. /\ head \in 0..count /\ remaining \in 0..count /\ successes \in 0..count
        /\ batchSize \in 0..count /\ waiting \in 0..batchSize /\ errs \in 0..batchSize
    BY <1>1, <1>2
  <2>2. inflight \subseteq 1..count /\ made \subseteq 1..count
    BY <1>1
  <2>. QED BY <1>1, <2>1, <2>2 DEF TypeOK
<1>4. BetweenBatches /\ InsideBatch
  BY <1>1 DEF BetweenBatches, InsideBatch
<1>5. BatchSizes /\ Counted /\ ResultRight
  BY <1>1, <1>2 DEF BatchSizes, Counted, ResultRight
<1>. QED BY <1>1, <1>3, <1>4, <1>5 DEF IInv

\* The inductive invariant is kept by every step.
LEMMA NextInvariant == IInv /\ [Next]_vars => IInv'
<1>. SUFFICES ASSUME IInv, [Next]_vars PROVE IInv'
  OBVIOUS
<1>. USE CountAssumption, BatchAssumption
<1>t. /\ count \in Nat /\ head \in Nat /\ remaining \in Nat /\ successes \in Nat
      /\ batchSize \in Nat /\ waiting \in Nat /\ errs \in Nat
      /\ head <= count /\ remaining <= count
  BY DEF IInv, TypeOK
<1>1. CASE StartBatch
  <2>0. Cardinality({}) = 0
    BY FS_EmptySet
  <2>1. TypeOK'
    BY <1>1, <1>t DEF StartBatch, IInv, TypeOK
  <2>2. BetweenBatches' /\ InsideBatch'
    <3>1. /\ pc = "loop" /\ pc' = "wait" /\ waiting' = batchSize /\ errs' = 0
          /\ batchSize > 0 /\ inflight = {} /\ head = count - remaining
          /\ made = 1..head
          /\ UNCHANGED <<count, head, remaining, batchSize, inflight, made>>
      BY <1>1 DEF StartBatch, IInv, BetweenBatches
    <3>2. Cardinality(inflight') = 0
      BY <3>1, <2>0
    <3>3. head' + waiting' = count' - remaining' + batchSize'
      BY <1>t, <3>1
    <3>4. errs' + waiting' + Cardinality(inflight') <= batchSize'
      BY <1>t, <3>1, <3>2
    <3>5. 1..head' = made' \cup inflight'
      BY <3>1
    <3>. QED BY <3>1, <3>3, <3>4, <3>5 DEF BetweenBatches, InsideBatch
  <2>3. BatchSizes' /\ Counted' /\ ResultRight'
    BY <1>1, <1>t DEF StartBatch, IInv, BatchSizes, Counted, ResultRight
  <2>. QED BY <1>1, <2>1, <2>2, <2>3 DEF IInv, StartBatch
<1>2. CASE EndLoop
  <2>1. TypeOK'
    BY <1>2 DEF EndLoop, IInv, TypeOK
  <2>2. BetweenBatches' /\ InsideBatch' /\ BatchSizes'
    BY <1>2 DEF EndLoop, IInv, BetweenBatches, InsideBatch, BatchSizes
  <2>3. Counted' /\ ResultRight'
    BY <1>2, <1>t
    DEF EndLoop, IInv, BetweenBatches, BatchSizes, Counted, ResultRight
  <2>. QED BY <1>2, <2>1, <2>2, <2>3 DEF IInv, EndLoop
<1>3. CASE Receive
  <2>1. TypeOK'
    BY <1>3, <1>t DEF Receive, IInv, TypeOK
  <2>2. pc = "wait" /\ pc' = "wait"
    BY <1>3, <1>t DEF Receive, IInv, TypeOK, BetweenBatches, Counted
  <2>3. /\ Cardinality(inflight') = Cardinality(inflight) + 1
        /\ Cardinality(inflight) \in Nat
    BY <1>3, InflightCounts DEF Receive, IInv
  <2>4. InsideBatch'
    <3>1. errs' + waiting' + Cardinality(inflight') <= batchSize'
      BY <1>3, <1>t, <2>2, <2>3 DEF Receive, IInv, InsideBatch
    <3>2. errs' = 0 => 1..head' = made' \cup inflight'
      BY <1>3, <1>t, <2>2 DEF Receive, IInv, InsideBatch
    <3>. QED BY <1>3, <1>t, <2>2, <3>1, <3>2 DEF Receive, IInv, InsideBatch
  <2>5. inflight' \subseteq 1..head' /\ made' \subseteq 1..head'
    BY <1>3, <1>t DEF Receive, IInv
  <2>6. BetweenBatches' /\ BatchSizes' /\ Counted' /\ ResultRight'
    BY <1>3, <2>2
    DEF Receive, IInv, BetweenBatches, BatchSizes, Counted, ResultRight
  <2>. QED BY <2>1, <2>4, <2>5, <2>6 DEF IInv
<1>4. CASE CreateSucceeds
  <2>1. PICK i \in inflight : inflight' = inflight \ {i} /\ made' = made \cup {i}
    BY <1>4 DEF CreateSucceeds
  <2>2. pc = "wait" /\ pc' = "wait"
    BY <1>4, <2>1 DEF CreateSucceeds, IInv, TypeOK, BetweenBatches, Counted
  <2>3. /\ Cardinality(inflight') = Cardinality(inflight) - 1
        /\ Cardinality(inflight) \in Nat
    BY <2>1, InflightCounts DEF IInv
  <2>4. TypeOK'
    BY <1>4, <2>1 DEF CreateSucceeds, IInv, TypeOK
  <2>5. InsideBatch'
    BY <1>4, <1>t, <2>1, <2>2, <2>3 DEF CreateSucceeds, IInv, InsideBatch
  <2>6. inflight' \subseteq 1..head' /\ made' \subseteq 1..head'
    BY <1>4, <2>1 DEF CreateSucceeds, IInv
  <2>7. BetweenBatches' /\ BatchSizes' /\ Counted' /\ ResultRight'
    BY <1>4, <2>2
    DEF CreateSucceeds, IInv, BetweenBatches, BatchSizes, Counted, ResultRight
  <2>. QED BY <2>4, <2>5, <2>6, <2>7 DEF IInv
<1>5. CASE CreateFails
  <2>1. PICK i \in inflight : /\ inflight' = inflight \ {i}
                              /\ made' \in {made, made \cup {i}}
    BY <1>5 DEF CreateFails
  <2>2. pc = "wait" /\ pc' = "wait"
    BY <1>5, <2>1 DEF CreateFails, IInv, TypeOK, BetweenBatches, Counted
  <2>3. /\ Cardinality(inflight') = Cardinality(inflight) - 1
        /\ Cardinality(inflight) \in Nat
    BY <2>1, InflightCounts DEF IInv
  <2>4. InsideBatch'
    BY <1>5, <1>t, <2>1, <2>2, <2>3 DEF CreateFails, IInv, InsideBatch
  <2>5. Cardinality(inflight') \in Nat
    BY <2>1, <2>3, InflightCounts, FS_RemoveElement, FS_CardinalityType DEF IInv
  <2>6. errs' <= batchSize'
    BY <1>5, <1>t, <2>2, <2>4, <2>5 DEF CreateFails, InsideBatch
  <2>7. TypeOK'
    BY <1>5, <1>t, <2>1, <2>6 DEF CreateFails, IInv, TypeOK
  <2>8. inflight' \subseteq 1..head' /\ made' \subseteq 1..head'
    BY <1>5, <2>1 DEF CreateFails, IInv
  <2>9. BetweenBatches' /\ BatchSizes' /\ Counted' /\ ResultRight'
    BY <1>5, <2>2
    DEF CreateFails, IInv, BetweenBatches, BatchSizes, Counted, ResultRight
  <2>. QED BY <2>4, <2>7, <2>8, <2>9 DEF IInv
<1>6. CASE Join
  <2>1. /\ pc = "wait" /\ waiting = 0 /\ inflight = {}
        /\ head = count - remaining + batchSize
        /\ successes = count - remaining
    BY <1>6, <1>t DEF Join, AllDone, IInv, InsideBatch, Counted
  <2>2. errs <= batchSize /\ batchSize > 0 /\ batchSize <= remaining
    BY <1>6, <2>1, <1>t DEF IInv, TypeOK, InsideBatch, BatchSizes
  <2>3. CASE SomeFailed
    <3>1. /\ successes' = successes + (batchSize - errs) /\ errs > 0
          /\ failed' = TRUE /\ pc' = "done"
          /\ UNCHANGED <<count, head, remaining, batchSize, waiting, inflight,
                         errs, made>>
      BY <1>6, <2>3 DEF Join, SomeFailed
    <3>2. TypeOK'
      BY <1>t, <2>1, <2>2, <3>1 DEF IInv, TypeOK
    <3>3. BetweenBatches' /\ InsideBatch' /\ BatchSizes'
      BY <3>1 DEF IInv, BetweenBatches, InsideBatch, BatchSizes
    <3>4. Counted' /\ ResultRight'
      BY <1>t, <2>1, <2>2, <3>1 DEF IInv, BatchSizes, Counted, ResultRight
    <3>. QED BY <3>1, <3>2, <3>3, <3>4 DEF IInv
  <2>4. CASE ~SomeFailed
    <3>1. /\ successes' = successes + (batchSize - errs) /\ errs = 0
          /\ remaining' = remaining - batchSize
          /\ batchSize' = Smaller(2 * batchSize, remaining') /\ pc' = "loop"
          /\ UNCHANGED <<count, head, waiting, inflight, errs, made, failed>>
      BY <1>6, <1>t, <2>4 DEF Join, SomeFailed, NextBatchSize
    <3>2. /\ remaining' \in Nat /\ remaining' <= count
          /\ batchSize' \in Nat /\ batchSize' <= remaining'
          /\ batchSize' <= 2 * batchSize
          /\ batchSize' = 0 => remaining' = 0
      BY <1>t, <2>2, <3>1 DEF Smaller
    <3>3. TypeOK'
      BY <1>t, <2>1, <2>2, <3>1, <3>2 DEF IInv, TypeOK
    <3>4. BetweenBatches' /\ InsideBatch'
      BY <1>t, <2>1, <3>1 DEF IInv, BetweenBatches, InsideBatch
    <3>5. BatchSizes'
      BY <1>t, <2>2, <3>1, <3>2 DEF IInv, BatchSizes
    <3>6. Counted' /\ ResultRight'
      BY <1>t, <2>1, <3>1 DEF IInv, Counted, ResultRight
    <3>. QED BY <3>1, <3>3, <3>4, <3>5, <3>6 DEF IInv
  <2>. QED BY <2>3, <2>4
<1>7. CASE UNCHANGED vars
  BY <1>7 DEF vars, IInv, TypeOK, BetweenBatches, InsideBatch, BatchSizes, Counted,
              ResultRight
<1>. QED BY <1>1, <1>2, <1>3, <1>4, <1>5, <1>6, <1>7 DEF Next

\* The invariant holds in every state of every call.
LEMMA Invariant == Spec => []IInv
BY InitInvariant, NextInvariant, PTL DEF Spec

-----------------------------------------------------------------------------
\* No counter leaves its range: the batches never exceed what remains.
THEOREM TypeCorrect == Spec => []TypeOK
<1>1. IInv => TypeOK
  BY DEF IInv
<1>. QED BY <1>1, Invariant, PTL

\* createPods never leaves a goroutine waiting on an empty channel.
THEOREM ChannelAlwaysSuffices == Spec => []ChannelSuffices
<1>1. IInv => ChannelSuffices
  BY CountAssumption
  DEF IInv, TypeOK, BetweenBatches, InsideBatch, BatchSizes, Counted, ChannelSuffices
<1>. QED BY <1>1, Invariant, PTL

\* DoItSlowly makes at most twice as many calls as succeed, and the first batch.
THEOREM CallsAlwaysBounded == Spec => []CallsBounded
<1>1. IInv => CallsBounded
  BY CountAssumption, BatchAssumption
  DEF IInv, TypeOK, BetweenBatches, InsideBatch, BatchSizes, Counted, CallsBounded
<1>. QED BY <1>1, Invariant, PTL

\* createPods returns no error only when every pod was made.
THEOREM ResultAlwaysRight == Spec => []ResultRight
<1>1. IInv => ResultRight
  BY DEF IInv
<1>. QED BY <1>1, Invariant, PTL

\* createPods implements Creation: what its goroutines do are steps of making
\* one pod or nothing, all of them before the result.
THEOREM ImplementsCreation == Spec => CreatesAsPromised
<1>1. Init => Abstract!Init
  BY DEF Init, Abstract!Init, result
<1>2. IInv /\ IInv' /\ [Next]_vars => [Abstract!Next]_(Abstract!vars)
  <2>. SUFFICES ASSUME IInv, IInv', [Next]_vars
                PROVE  Abstract!Next \/ UNCHANGED Abstract!vars
    OBVIOUS
  <2>. USE DEF Abstract!vars, result
  <2>1. CASE StartBatch \/ Receive
    BY <2>1 DEF StartBatch, Receive, IInv, TypeOK, Counted
  <2>2. CASE EndLoop
    BY <2>2
    DEF EndLoop, IInv, Counted, ResultRight, Abstract!Next, Abstract!Return
  <2>3. CASE CreateSucceeds \/ CreateFails
    <3>1. PICK i \in inflight : made' \in {made, made \cup {i}}
      BY <2>3 DEF CreateSucceeds, CreateFails
    <3>2. pc # "done" /\ UNCHANGED <<count, pc, failed>>
      BY <2>3 DEF CreateSucceeds, CreateFails, IInv, Counted
    <3>3. i \in 1..count
      BY DEF IInv, TypeOK
    <3>. QED BY <3>1, <3>2, <3>3 DEF Abstract!Next, Abstract!Make
  <2>4. CASE Join
    BY <2>4 DEF Join, SomeFailed, Abstract!Next, Abstract!Return
  <2>5. CASE UNCHANGED vars
    BY <2>5 DEF vars
  <2>. QED BY <2>1, <2>2, <2>3, <2>4, <2>5 DEF Next
<1>. QED BY <1>1, <1>2, Invariant, PTL DEF Spec, CreatesAsPromised, Abstract!Spec
=============================================================================
