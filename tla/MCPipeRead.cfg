CONSTANTS
  Chunk = 2
  MaxMsgBytes = 4
  Slices = 2
  Sizes = {0, 1, 2, 3, 4, 5, 7}
  MaxMessages = 3
SPECIFICATION Spec
INVARIANTS
  OkIsOneMessage
  NothingIsPassedOver
  BufferIsBounded
CHECK_DEADLOCK FALSE
