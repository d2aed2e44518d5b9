SPECIFICATION Spec
CONSTANTS
  Callers = {c1}
  Nobody = Nobody
  MaxLaunch = 1
  MaxQueue = 1
  BrokerMessages = {"AUTH_FAIL"}
  Faults = {}
  MaxSlices = 1
  MaxGeneration = 3
  UiEvents = {}
INVARIANT
  FailKeepsSession
CHECK_DEADLOCK FALSE
