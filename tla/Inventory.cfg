SPECIFICATION FairSpec
CONSTANTS
  o1 = o1
  o2 = o2
  o3 = o3
  Ops = {o1, o2, o3}
  Warehouses = {"centralno", "tehnicko", "terensko"}
  Items = {"filter"}
  Active = {"centralno", "tehnicko", "terensko"}
  Quantities = {6}
  Opening <- OpeningStock
  Reserved <- ReservedStock
  NoRequest = NoRequest
  MaxRequests = 3
  MaxFaults = 1
INVARIANTS ReservedCovered LedgerBalances
PROPERTIES RefinesLedger EventuallyAnswered
CHECK_DEADLOCK FALSE
