SPECIFICATION ErrorsSpec
CONSTANTS
  Room = 1
  MaxLen = 2
  MaxMessages = 2
  MaxTries = 2
INVARIANTS
  SuccessIsWhole
  DatagramsOnce
  FailureIsOwn
PROPERTIES
  Promise
  SendEnds
