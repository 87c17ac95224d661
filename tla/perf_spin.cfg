SPECIFICATION FairSpec
CONSTANTS
  t1 = t1  t2 = t2  t3 = t3  NoTid = NoTid
  Threads <- MCThreads2
  Pollers <- MCThreads2
  Freers = {}
  CallbackFrees = TRUE
  Size = 8
  SampleSizes <- MCSizes
  WakeupEvents = 1
  MaxSamples = 2
PROPERTY CallbackFreeTerminates
CHECK_DEADLOCK FALSE
