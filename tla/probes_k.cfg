CONSTANTS
  f1 = f1
  f2 = f2
  k1 = k1
  u1 = u1
  t1 = t1
  r1 = r1
  p1 = p1
  Funcs <- MCFuncs
  Kprobes <- MCKprobes
  Uprobes <- NoEvents
  Tracepoints <- MCTracepoints
  RawTracepoints <- NoEvents
  PerfEvents <- NoEvents
  Faults <- AllFaults
  NCpus = 1
  NFds = 4
  MaxFiles = 1
  PrefixPid = FALSE
SPECIFICATION Spec
PROPERTY ClosesOnlyItsOwn
INVARIANTS MapsAreTrue TracefsAccounted
CHECK_DEADLOCK FALSE
SYMMETRY FuncSymmetry
