CONSTANTS
  Requests = {r1, r2}
  Objects = {o1, o2}
  None = None
  MaxGen = 3
SPECIFICATION FairSpec
INVARIANTS
  NoUseAfterRelease
  ReferencesBalance
  OneRefreshInFlight
  ContextMatches
PROPERTIES
  SlotIsGivenBack
  ImplementsScheduler
