CONSTANTS
  Objects = {o1, o2, o3}
  MaxRefs = 2
  MaxLocks = 2
SPECIFICATION Spec
INVARIANTS
  ObjectsLiveWhileHeld
  LockCountIsExact
  FactoriesKeepTheDll
