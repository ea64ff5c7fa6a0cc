SPECIFICATION Spec
CONSTANTS
  s1 = s1
  w1 = w1
  w2 = w2
  c1 = c1
  e1 = e1
  h1 = h1
  Sessions = {s1}
  Workers = {w1, w2}
  Starters = {c1}
  Editors = {e1}
  Webhooks = {h1}
  Words = {"in-progress", "completed"}
  MaxAttempts = 2
  MaxFaults = 1
SYMMETRY WorkerSymmetry
INVARIANTS IInv AtMostOneCallPlaced RequestsBounded
PROPERTIES RefinesPlacement FinalStaysFinal CallKept LeaseExclusive
CHECK_DEADLOCK FALSE
