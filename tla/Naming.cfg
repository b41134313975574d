SPECIFICATION FairSpec
CONSTANTS
  A = A
  B = B
  C = C
  h1 = h1
  h2 = h2
  h3 = h3
  h4 = h4
  None = None
  Templates = {A, B}
  RevNames = {h1, h2, h3, h4}
  Hash <- Colliding
  Selectors <- TwoSelectors
  HistoryLimit = 0
  Budgets <- LagOrRecreated
CHECK_DEADLOCK FALSE
PROPERTY NamingSettles
