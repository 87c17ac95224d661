CONSTANTS
  Bs = {b1, b2}
  Kprobes = {}
  Kretprobes = {r1, r2}
  Uprobes = {u1}
  Uretprobes = {}
  Tracepoints = {}
  RawTracepoints = {w1}
  PerfEvents = {p1}
  Fns = {f1, f2}
  Cpus = {0, 1}
  Limit = 2
  MaxCopies = 2
  MaxFaults = 1
SYMMETRY Symmetric
SPECIFICATION Spec
INVARIANTS TypeOK QuotaIsExact OpenIsRecorded
CHECK_DEADLOCK FALSE
