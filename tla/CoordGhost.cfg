SPECIFICATION Spec
CONSTANTS
  n1 = n1
  n2 = n2
  n3 = n3
  e1 = e1
  e2 = e2
  Node = {n1, n2, n3}
  Entity = {e1}
  Home <- HomeN1
  NoNode = NoNode
  Absent = Absent
  MaxCacheSize = 1
  Ordered = TRUE
  Paced = TRUE
  MaxMoves = 3
  MaxQueries = 2
  MaxClears = 1
SYMMETRY OtherRanks
CHECK_DEADLOCK FALSE
INVARIANTS
  KnownOnlyIfLiving
