SPECIFICATION FairSpec
CONSTANTS
  t1 = t1  t2 = t2  t3 = t3  NoTid = NoTid
  Threads <- MCThreads3
  Pollers <- MCThreads2
  Freers <- MCFreer
  CallbackFrees = TRUE
  Size = 8
  SampleSizes <- MCSizes
  WakeupEvents = 1
  MaxSamples = 5
INVARIANTS TypeOK OneReader UnmapExcludesReaders CallbackSeesOldestRecord
PROPERTIES StreamRefinement 
CHECK_DEADLOCK FALSE
