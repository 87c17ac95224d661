CONSTANTS
  SizeBits = 3
  LogSizes = {0, 1, 2, 4, 9}
SPECIFICATION FairSpec
INVARIANTS TypeOK CreatedIsReturned LadderSucceeds ReleasedAtResult
PROPERTIES GoesDown Terminates
CHECK_DEADLOCK FALSE
