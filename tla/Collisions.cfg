SPECIFICATION Spec
CONSTANTS
  A = A
  B = B
  C = C
  h1 = h1
  h2 = h2
  h3 = h3
  h4 = h4
  None = None
  Templates = {A, B, C}
  RevNames = {h1, h2, h3, h4}
  Hash <- Colliding
  Selectors <- TwoSelectors
  HistoryLimit = 0
  Budgets <- Edits
CHECK_DEADLOCK FALSE
INVARIANT TypeOK
INVARIANT UpdateIsStored
INVARIANT OneRevisionPerTemplate
INVARIANT PodsRunTheirRevision
PROPERTY RestKeepsCurrent
