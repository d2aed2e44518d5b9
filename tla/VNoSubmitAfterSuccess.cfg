SPECIFICATION Spec
CONSTANTS
  Callers = {c1}
  Nobody = Nobody
  MaxLaunch = 1
  MaxQueue = 1
  BrokerMessages = {"AUTH_IDLE", "AUTH_SUCCESS"}
  Faults = {}
  MaxSlices = 1
  MaxGeneration = 3
  UiEvents = {"submit"}
INVARIANT
  NoSubmitAfterSuccess
CHECK_DEADLOCK FALSE
