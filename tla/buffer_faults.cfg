CONSTANTS
  NCpus = 4
  MaxReaders = 12
  Faults <- AllFaults
SPECIFICATION FairSpec
INVARIANTS TypeOK OpenIsComplete NoReaderLeak
PROPERTIES FreedOnce OutputIsRead
CHECK_DEADLOCK FALSE
