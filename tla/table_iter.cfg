CONSTANTS
  Keys = {1, 2, 3, 4}
  NBuckets = 2
  MaxEntries = 3
  MaxWrites = 5
SPECIFICATION FairSpec
INVARIANTS TypeOK QuietIsExact InsertsHideNothing DeletedIsYielded
PROPERTIES GetsOn CallsEnd
CHECK_DEADLOCK FALSE
