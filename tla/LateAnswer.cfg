SPECIFICATION Spec
CONSTANTS
  s1 = s1
  w1 = w1
  w2 = w2
  Sessions = {s1}
  Workers = {w1, w2}
  Starters = {}
  Editors = {}
  Webhooks = {}
  Words = {"completed"}
  MaxAttempts = 2
  MaxFaults = 1
INVARIANTS CompletedMeansStarted
CHECK_DEADLOCK FALSE
