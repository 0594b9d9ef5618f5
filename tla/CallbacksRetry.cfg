SPECIFICATION Spec
CONSTANTS
  Entity = {e1, e2}
  HomeHere = {e1}
  This = This
  There = There
  NoNode = NoNode
  Absent = Absent
  MaxCacheSize = 1
  Backends = {"poll"}
  LocCalls = {}
  ExistsCalls = {"entityExists"}
  MaxCallbacks = 3
INVARIANTS
  CallbacksKept
