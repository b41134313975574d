SPECIFICATION Spec
CONSTANTS
  A = A
  B = B
  x = x
  y = y
  p1 = p1
  p2 = p2
  p3 = p3
  p4 = p4
  None = None
  Invalid = Invalid
  Names = {A, B}
  Pods = {p1, p2, p3, p4}
  Labels = {x, y}
  Template <- OverlapTemplate
  Selectors <- Foreign
  Replicas = 1
  Budgets <- Calm
CHECK_DEADLOCK FALSE
PROPERTY KeepsWhatItMade
