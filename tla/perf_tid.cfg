SPECIFICATION Spec
CONSTANTS
  t1 = t1  t2 = t2  t3 = t3  NoTid = NoTid
  Threads <- MCThreads2
  Pollers <- MCThreads2
  Freers <- MCThreads2
  CallbackFrees = FALSE
  Size = 8
  SampleSizes <- MCSizes
  WakeupEvents = 1
  MaxSamples = 2
PROPERTY SameThreadIsInCallback
CHECK_DEADLOCK FALSE
