SPECIFICATION FairSpec
CONSTANTS
  A = A
  B = B
  C = C
  p1 = p1
  p2 = p2
  p3 = p3
  p4 = p4
  None = None
  Templates = {A}
  Pods = {p1, p2}
  ReplicaChoices = {1}
  PartitionChoices <- NilOrOne
  HistoryLimit = 0
  WebhookEnabled = TRUE
  Resyncs = FALSE
  Budget <- Deletion
CHECK_DEADLOCK FALSE
PROPERTY DeletionCompletes
