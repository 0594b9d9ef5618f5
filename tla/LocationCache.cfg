SPECIFICATION Spec
CONSTANTS
  Key = {k1, k2, k3, k4}
  Value = {v1, v2}
  Cell = {c1, c2, c3, c4}
  MaxCacheSize = 3
  Absent = Absent
  NoNode = NoNode
INVARIANTS
  Coherent
PROPERTIES
  ImplementsLRU
