SPECIFICATION LiveSpec
CONSTANTS
  c1 = c1
  c2 = c2
  Clients = {c1, c2}
  Orders = {"o1", "o2"}
  Workers = {"ana", "luka"}
  Connections = 2
  MaxRequests = 4
  MaxFaults = 1
INVARIANTS IInv OrderIsOpened PoolConserved HistoryIsTrue
PROPERTIES EventuallyAnswered
CHECK_DEADLOCK FALSE
