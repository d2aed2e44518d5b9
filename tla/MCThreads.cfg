SPECIFICATION Spec
CONSTANTS
  Callers = {c1, c2}
  Nobody = Nobody
  MaxLaunch = 2
  MaxQueue = 1
  BrokerMessages = {"AUTH_PENDING"}
  Faults = {"pipe", "launch", "connect"}
  MaxSlices = 1
  MaxGeneration = 3
  UiEvents = {"deselect", "scenario", "unadvise"}
SYMMETRY Symmetry
INVARIANTS
  SessionCoherent
  HandlesBalanced
  NoOrphanBroker
  GenerationNamesSession
