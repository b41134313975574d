SPECIFICATION Spec
CONSTANTS
  A = A
  B = B
  C = C
  h1 = h1
  h2 = h2
  h3 = h3
  h4 = h4
  None = None
  Templates = {A, B}
  RevNames = {h1, h2, h3, h4}
  Hash <- Colliding
  Selectors <- AnySelector
  HistoryLimit = 0
  Budgets <- Recreated
CHECK_DEADLOCK FALSE
PROPERTY RestKeepsCurrent
