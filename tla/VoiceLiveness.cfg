SPECIFICATION FairSpec
CONSTANTS
  s1 = s1
  s2 = s2
  w1 = w1
  w2 = w2
  Sessions = {s1, s2}
  Workers = {w1, w2}
  Starters = {}
  Editors = {}
  Webhooks = {}
  Words = {"completed"}
  MaxAttempts = 2
  MaxFaults = 1
INVARIANTS QueuedIsServed CompletedUnlessLate
PROPERTIES EventuallyHandled EventuallySettled
CHECK_DEADLOCK FALSE
