SPECIFICATION Spec
CONSTANTS
  Callers = {c1}
  Nobody = Nobody
  MaxLaunch = 1
  MaxQueue = 1
  BrokerMessages = {"AUTH_PENDING"}
  Faults = {}
  MaxSlices = 1
  MaxGeneration = 3
  UiEvents = {}
INVARIANT
  PendingIsPolled
CHECK_DEADLOCK FALSE
