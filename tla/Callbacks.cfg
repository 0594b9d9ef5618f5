SPECIFICATION Spec
CONSTANTS
  Entity = {e1, e2, e3}
  HomeHere = {e1}
  This = This
  There = There
  NoNode = NoNode
  Absent = Absent
  MaxCacheSize = 1
  Backends = {"poll", "inline"}
  LocCalls = {"getCached"}
  ExistsCalls = {"getLocation", "clearCache", "registerEntity", "unregisterEntity", "entityEmigrated"}
  MaxCallbacks = 3
INVARIANTS
  CallbacksKept
  WaitersServed
