SPECIFICATION FairSpec
CONSTANTS
  s1 = s1
  s2 = s2
  r1 = r1
  r2 = r2
  r3 = r3
  Sessions = {s1, s2}
  Relays = {r1, r2, r3}
  MaxSpoken = 2
INVARIANTS Numbered
PROPERTIES RefinesList EventuallyStored
CHECK_DEADLOCK FALSE
