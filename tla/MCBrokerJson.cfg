CONSTANT Samples <- MCSamples
SPECIFICATION Spec
INVARIANTS
  ReadsWhatWasSent
  PiecesAreRefused
  RefusedLeavesNothing
  ParserStaysInLine
  AcceptedIsMessage
CHECK_DEADLOCK FALSE
