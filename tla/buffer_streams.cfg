SPECIFICATION StreamSpec
CONSTANTS
  Char = {0, 1, 2}
  Zero = {0}
  MaxLength = 5
  MaxSegment = 3
CHECK_DEADLOCK FALSE
INVARIANTS
  OnlyZerosLost
  NothingLost
  EndComesLast
PROPERTIES
  ZerosRemoved
