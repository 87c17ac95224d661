CONSTANTS
  f1 = f1
  f2 = f2
  k1 = k1
  u1 = u1
  t1 = t1
  r1 = r1
  p1 = p1
  Funcs <- MCOneFunc
  Kprobes <- NoEvents
  Uprobes <- MCUprobes
  Tracepoints <- NoEvents
  RawTracepoints <- MCRaw
  PerfEvents <- MCPerfEvents
  Faults <- AllFaults
  NCpus = 2
  NFds = 5
  MaxFiles = 0
  PrefixPid = TRUE
SPECIFICATION Spec
INVARIANTS TypeOK NothingLeaks TracefsAccounted
CHECK_DEADLOCK FALSE
