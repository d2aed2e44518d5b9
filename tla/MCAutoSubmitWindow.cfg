CONSTANTS
  Modulus = 6
  MinInterval = 3
  MaxTime = 14
SPECIFICATION Spec
INVARIANTS
  WindowThrottles
  DenialIsRecent
