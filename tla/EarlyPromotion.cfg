SPECIFICATION Spec
CONSTANTS
  A = A
  B = B
  C = C
  p1 = p1
  p2 = p2
  p3 = p3
  p4 = p4
  None = None
  Templates = {A, B}
  Pods = {p1, p2, p3, p4}
  ReplicaChoices = {1, 2}
  PartitionChoices <- NilOrSmall
  HistoryLimit = 0
  WebhookEnabled = TRUE
  Resyncs = FALSE
  Budget <- TwoEdits
SYMMETRY Symmetry
CHECK_DEADLOCK FALSE
PROPERTY PromotedAfterFullRollout
