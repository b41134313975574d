SPECIFICATION Spec
CONSTANTS
  A = A
  B = B
  C = C
  p1 = p1
  p2 = p2
  p3 = p3
  p4 = p4
  None = None
  Templates = {A, B}
  Pods = {p1, p2, p3, p4}
  ReplicaChoices = {0, 2}
  PartitionChoices <- NilOrOne
  HistoryLimit = 0
  WebhookEnabled = TRUE
  Resyncs = FALSE
  Budget <- AnyFault
SYMMETRY Symmetry
CHECK_DEADLOCK FALSE
INVARIANT StatusDescribesGeneration
INVARIANT AvailabilityKept
INVARIANT SurgeBounded
INVARIANT PassReachesTarget
PROPERTY ObservedNeverRegresses
INVARIANT RecoversFromErrors
INVARIANT QuietMeansObserved
PROPERTY PassKeepsPromise
