SPECIFICATION FairSpec
CONSTANTS
  A = A
  B = B
  C = C
  p1 = p1
  p2 = p2
  p3 = p3
  p4 = p4
  None = None
  Templates = {A, B}
  Pods = {p1, p2, p3}
  ReplicaChoices = {1}
  PartitionChoices = {0, 2}
  HistoryLimit = 0
  WebhookEnabled = FALSE
  Resyncs = TRUE
  Budget <- LagAndLoss
CHECK_DEADLOCK FALSE
PROPERTY Converges
