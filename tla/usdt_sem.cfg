CONSTANTS
  Contexts = {c1}
  Objects = {b1}
  Procs <- Successors
  First <- Traced
  MaxExits = 1
  NLocs = 2
  MaxFaults = 1
  MaxSem = 3
SPECIFICATION Spec
INVARIANTS TypeOK SemaphoreCounts AllLocationsOrNone
PROPERTIES ForeignWriteOnlyUnseen
CHECK_DEADLOCK FALSE
