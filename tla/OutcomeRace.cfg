SPECIFICATION SpecWithOutcome
CONSTANTS
  s1 = s1
  w1 = w1
  c1 = c1
  e1 = e1
  Sessions = {s1}
  Workers = {w1}
  Starters = {c1}
  Editors = {e1}
  Webhooks = {}
  Words = {"completed"}
  MaxAttempts = 2
  MaxFaults = 0
INVARIANTS AtMostOneCallPlaced
CHECK_DEADLOCK FALSE
