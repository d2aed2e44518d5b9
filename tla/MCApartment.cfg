SPECIFICATION FairSpec
CONSTANTS
  Callers = {c1}
  Nobody = Nobody
  MaxLaunch = 2
  MaxQueue = 1
  BrokerMessages = {"AUTH_PENDING", "AUTH_IDLE", "AUTH_SUCCESS", "AUTH_FAIL", "AUTH_FALLBACK", "GARBAGE"}
  Faults = {"pipe", "launch", "read", "timer", "pack"}
  MaxSlices = 2
  MaxGeneration = 3
  UiEvents = {"submit", "deselect", "scenario", "unadvise"}
INVARIANTS
  TypeOK
  FlagsMatchSession
  ScenarioGate
PROPERTIES
  AnswerDecidesSession
  ImplementsLifecycle
  MethodsReturn
  MethodsShorten
