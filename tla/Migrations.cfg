SPECIFICATION FairSpec
CONSTANTS
  i1 = i1
  i2 = i2
  i3 = i3
  Instances = {i1, i2, i3}
  Releases = {"first", "next", "careless"}
  Ids = {"001", "002", "003"}
  Sums = {"a", "b", "c", "x"}
  Files <- ReleaseFiles
  MaxFaults = 1
INVARIANTS HistoryIsSchema UpIsMigrated
PROPERTIES EventuallyStarted
CHECK_DEADLOCK FALSE
