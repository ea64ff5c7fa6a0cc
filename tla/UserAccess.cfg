SPECIFICATION AdminSpec
CONSTANTS
  ana = ana
  luka = luka
  s1 = s1
  q1 = q1
  q2 = q2
  NoRole = NoRole
  NoCookie = NoCookie
  Users = {ana, luka}
  Sessions = {s1}
  Requests = {q1, q2}
  Roles = {"Technician", "Manager", "Administrator"}
  Fresh = 1
  Lifetime = 2
  Latency = 0
  MaxTime = 1
INVARIANTS AccessIsConsistent
PROPERTIES ImplementsUserAccess AccessIsGranted
SYMMETRY Symmetry
CHECK_DEADLOCK FALSE
