SPECIFICATION Spec
CONSTANTS
  Mocks = {"m1", "m2"}
  Stored = {"s1", "s2"}
  Fetches = {"f1", "f2"}
  MaxVersion = 2
INVARIANTS TableIsWhole DetailIsSelected
PROPERTIES SelectionIsTheUsers PageSettles SimulationsEnd
