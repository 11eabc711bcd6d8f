SPECIFICATION SendSpec
CONSTANTS
  Room = 2
  MaxLen = 3
  MaxMessages = 1
  MaxTries = 2
INVARIANT RepeatsNothing
