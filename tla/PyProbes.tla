------------------------------ MODULE PyProbes ------------------------------
(***************************************************************************)
(* The probe dictionaries of the Python class BPF                          *)
(* (src/python/bcc/__init__.py) and the process-wide count of open probes  *)
(* that its quota is checked against.  A few BPF objects attach, detach    *)
(* and clean up, one call at a time; every call into the library can fail. *)
(***************************************************************************)
EXTENDS Integers, FiniteSets, FiniteSetsExt

CONSTANTS
  Bs,              \* BPF objects
  Kprobes, Kretprobes, Uprobes, Uretprobes, Tracepoints, RawTracepoints, PerfEvents,
                   \* names of events, by kind
  Fns,             \* functions
  Cpus,            \* online CPUs
  Limit,           \* BCC_PROBE_LIMIT
  MaxCopies,       \* perf events of one kind, function and CPU open at a time
  MaxFaults        \* failing library calls in a behaviour

KEvents == Kprobes \cup Kretprobes
UEvents == Uprobes \cup Uretprobes
Events == KEvents \cup UEvents \cup Tracepoints \cup RawTracepoints \cup PerfEvents

ASSUME PyProbesAssumption ==
  /\ Limit \in Nat /\ MaxCopies \in Nat \ {0} /\ MaxFaults \in Nat
  /\ IsFiniteSet(Bs) /\ IsFiniteSet(Events) /\ IsFiniteSet(Fns) /\ IsFiniteSet(Cpus)
  /\ (KEvents \cup UEvents) \cap PerfEvents = {}

\* The program type load_func is asked for.
Type(ev) == CASE ev \in KEvents \cup UEvents -> "KPROBE"
              [] ev \in Tracepoints -> "TRACEPOINT"
              [] ev \in RawTracepoints -> "RAW_TRACEPOINT"
              [] ev \in PerfEvents -> "PERF_EVENT"

\* The dictionaries of an object in one: kprobe_fds has an entry for each event and
\* function, the others for each event.
AnyFn == "any"
Key(ev, fn) == <<ev, IF ev \in KEvents THEN fn ELSE AnyFn>>
CpusOf(ev) == IF ev \in PerfEvents THEN Cpus ELSE {0}

VARIABLES
  funcs,        \* [Bs -> [loaded functions -> type they were loaded with]]
  fds,          \* [Bs -> [keys -> set of perf events recorded under them]]
  open,         \* perf events open in the kernel
  num_open,     \* _num_open_probes
  closed,       \* objects whose cleanup has finished
  call,         \* the call in progress
  faults,       \* library calls that failed
  leaked,       \* history: events whose record was overwritten or never made
  undone        \* history: a detach failed after it had closed the event

vars == <<funcs, fds, open, num_open, closed, call, faults, leaked, undone>>

Idle == [op |-> "none"]
In(op) == call.op = op
Fault == faults < MaxFaults /\ faults' = faults + 1
Empty == [k \in {} |-> {}]
Put(f, k, v) == [x \in DOMAIN f \cup {k} |-> IF x = k THEN v ELSE f[x]]
Drop(f, k) == [x \in DOMAIN f \ {k} |-> f[x]]

Init ==
  /\ funcs = [b \in Bs |-> Empty] /\ fds = [b \in Bs |-> Empty]
  /\ open = {} /\ num_open = 0 /\ closed = {} /\ call = Idle
  /\ faults = 0 /\ leaked = {} /\ undone = FALSE

-----------------------------------------------------------------------------
(* attach_kprobe, attach_kretprobe, attach_uprobe, attach_uretprobe,        *)
(* attach_tracepoint, attach_raw_tracepoint, attach_perf_event.             *)

QuotaMutant(n) == TRUE
Quota(n) == num_open + n <= Limit
Counted(ev) == ev \in KEvents \cup UEvents

\* A call for one event, or with a regular expression for all that match it.
\* Kprobes and uprobes are checked against the quota before the loop as well.
attach(b, evs, fn) ==
  /\ In("none") /\ b \notin closed /\ evs # {}
  /\ evs \subseteq Kprobes \cup Uprobes => Quota(Cardinality(evs))
  /\ call' = [op |-> "attach", b |-> b, fn |-> fn, left |-> evs]
  /\ UNCHANGED <<funcs, fds, open, num_open, closed, faults, leaked, undone>>

\* The quota, load_func, which returns a loaded function whatever its type, and
\* the library, which refuses a program of another type.
Loaded(b, fn, ev) == IF fn \in DOMAIN funcs[b] THEN funcs[b] ELSE Put(funcs[b], fn, Type(ev))
Accepts(b, fn, ev) == Loaded(b, fn, ev)[fn] = Type(ev)
MayAttach(ev) == /\ Counted(ev) => Quota(1)
                 /\ ev \in RawTracepoints => Key(ev, call.fn) \notin DOMAIN fds[call.b]

Recorded(b) == UNION {fds[b][k] : k \in DOMAIN fds[b]}
Unused(b, ev, fn, cpu) ==
  {n \in 1..MaxCopies : <<b, ev, fn, cpu, n>> \notin open \cup Recorded(b)}
NewEvents(b, ev, fn, cpus) ==
  {<<b, ev, fn, cpu, Min(Unused(b, ev, fn, cpu))>> : cpu \in cpus}
HasCopy(b, ev, fn) == \A cpu \in CpusOf(ev) : Unused(b, ev, fn, cpu) # {}

\* The record is made; one of the same key is overwritten, its event stays open.
Attached(ev) ==
  LET b == call.b
      fn == call.fn
      k == Key(ev, fn)
      new == NewEvents(b, ev, fn, CpusOf(ev))
  IN  /\ MayAttach(ev) /\ Accepts(b, fn, ev) /\ HasCopy(b, ev, fn)
      /\ funcs' = [funcs EXCEPT ![b] = Loaded(b, fn, ev)]
      /\ open' = open \cup new
      /\ leaked' = leaked \cup (IF k \in DOMAIN fds[b] THEN fds[b][k] ELSE {})
      /\ fds' = [fds EXCEPT ![b] = Put(@, k, new)]
      /\ num_open' = IF Counted(ev) THEN num_open + 1 ELSE num_open
      /\ call' = IF call.left = {ev} THEN Idle ELSE [call EXCEPT !.left = @ \ {ev}]
      /\ UNCHANGED <<closed, faults, undone>>

\* A failure: the loops over kernel functions go on, the others raise.  The function
\* may be loaded, and a perf event open on some of the CPUs already.
NotAttached(ev) ==
  LET b == call.b
      fn == call.fn
  IN  /\ \/ ~MayAttach(ev) /\ UNCHANGED <<funcs, open, leaked, faults>>
         \/ MayAttach(ev) /\ Fault /\ UNCHANGED <<funcs, open, leaked>>
         \/ /\ MayAttach(ev) /\ HasCopy(b, ev, fn)
            /\ IF Accepts(b, fn, ev) THEN Fault ELSE UNCHANGED faults
            /\ funcs' = [funcs EXCEPT ![b] = Loaded(b, fn, ev)]
            /\ \E some \in SUBSET CpusOf(ev) :
                 /\ some # CpusOf(ev) /\ (some # {} => Accepts(b, fn, ev))
                 /\ LET new == NewEvents(b, ev, fn, some)
                    IN  open' = open \cup new /\ leaked' = leaked \cup new
      /\ call' = IF call.left = {ev} \/ ev \notin KEvents THEN Idle
                 ELSE [call EXCEPT !.left = @ \ {ev}]
      /\ UNCHANGED <<fds, num_open, closed, undone>>

-----------------------------------------------------------------------------
(* detach_*, cleanup, close.                                                *)

KeysOf(b, ev) == {k \in DOMAIN fds[b] : k[1] = ev}

detach(b, ks) ==
  /\ In("none") /\ ks # {}
  /\ call' = [op |-> "detach", b |-> b, left |-> ks]
  /\ UNCHANGED <<funcs, fds, open, num_open, closed, faults, leaked, undone>>

cleanup(b) ==
  /\ In("none") /\ call' = [op |-> "cleanup", b |-> b]
  /\ UNCHANGED <<funcs, fds, open, num_open, closed, faults, leaked, undone>>

\* cleanup empties one dictionary after the other.
Rank(ev) == CASE ev \in KEvents -> 1 [] ev \in UEvents -> 2 [] ev \in Tracepoints -> 3
              [] ev \in RawTracepoints -> 4 [] ev \in PerfEvents -> 5
Left == IF In("detach") THEN call.left
        ELSE {k \in DOMAIN fds[call.b] : \A x \in DOMAIN fds[call.b] : Rank(k[1]) <= Rank(x[1])}
GoOn(k) == call' = IF In("detach")
                     THEN IF call.left = {k} THEN Idle ELSE [call EXCEPT !.left = @ \ {k}]
                     ELSE call

\* bpf_close_perf_event_fd, which closes also when it fails.
CloseMutant(es) == UNCHANGED open
Close(es) == open' = open \ es

\* The record goes; kprobes and uprobes are counted.
ForgetMutant(b, k) == fds' = [fds EXCEPT ![b] = Drop(@, k)] /\ num_open' = num_open - 1
Forget(b, k) == /\ fds' = [fds EXCEPT ![b] = Drop(@, k)]
                /\ num_open' = IF Counted(k[1]) THEN num_open - 1 ELSE num_open

\* The events of the key are closed and its record goes.
Detached(k) ==
  /\ fds[call.b][k] \subseteq open
  /\ Close(fds[call.b][k])
  /\ Forget(call.b, k) /\ GoOn(k)
  /\ UNCHANGED <<funcs, closed, faults, leaked, undone>>

\* A failing close keeps the record.  A failure after it keeps the record of a
\* uprobe; a kprobe's is gone by then, and its event is only removed from tracefs
\* with its last function.  Either ends the call, cleanup included.
NotDetached(k) ==
  LET b == call.b
      es == fds[b][k]
  IN  /\ Close(es)
      /\ \/ /\ IF es \subseteq open THEN Fault ELSE UNCHANGED faults
            /\ undone' = TRUE /\ UNCHANGED <<fds, num_open>>
         \/ /\ es \subseteq open /\ Fault /\ k[1] \in UEvents
            /\ undone' = TRUE /\ UNCHANGED <<fds, num_open>>
         \/ /\ es \subseteq open /\ Fault /\ k[1] \in KEvents /\ KeysOf(b, k[1]) = {k}
            /\ Forget(b, k) /\ UNCHANGED undone
      /\ call' = Idle
      /\ UNCHANGED <<funcs, closed, leaked>>

\* The end of cleanup, and close.
CleanupDone ==
  /\ In("cleanup") /\ DOMAIN fds[call.b] = {}
  /\ closed' = closed \cup {call.b}
  /\ funcs' = [funcs EXCEPT ![call.b] = Empty]
  /\ call' = Idle
  /\ UNCHANGED <<fds, open, num_open, faults, leaked, undone>>

-----------------------------------------------------------------------------
\* The events that one call is for: one, or all of a kind.
Kinds == {Kprobes, Kretprobes, Uprobes, Uretprobes, Tracepoints}
Requests == {{ev} : ev \in Events} \cup Kinds

Next ==
  \/ \E b \in Bs :
       \/ \E evs \in Requests, fn \in Fns : attach(b, evs, fn)
       \/ \E ev \in Events : detach(b, KeysOf(b, ev))
       \/ \E k \in DOMAIN fds[b] : k[1] \in KEvents /\ detach(b, {k})
       \/ cleanup(b)
  \/ In("attach") /\ \E ev \in call.left : Attached(ev) \/ NotAttached(ev)
  \/ call.op \in {"detach", "cleanup"} /\ \E k \in Left : Detached(k) \/ NotDetached(k)
  \/ CleanupDone

Spec == Init /\ [][Next]_vars

-----------------------------------------------------------------------------
(* Properties.                                                              *)

OpenCounted == {e \in open : Counted(e[2])}

\* The state is well formed: what is recorded under a key was opened for it.
TypeOK ==
  /\ num_open \in Nat /\ faults \in 0..MaxFaults /\ undone \in BOOLEAN
  /\ closed \subseteq Bs
  /\ leaked \cup open \subseteq Bs \X Events \X Fns \X (Cpus \cup {0}) \X (1..MaxCopies)
  /\ \A b \in Bs : \A k \in DOMAIN fds[b] :
       \A e \in fds[b][k] : e[1] = b /\ Key(e[2], e[3]) = k

\* _check_probe_quota: the probes open in the kernel never exceed the quota, over
\* all objects, with regular expressions and whatever failed; and until a detach
\* fails after closing its event, _num_open_probes is exactly their number, also
\* when an attach has overwritten the record of another.
QuotaIsExact ==
  /\ Cardinality(OpenCounted) <= num_open /\ num_open <= Limit
  /\ ~undone => num_open = Cardinality(OpenCounted)

\* cleanup: an object that has been cleaned up has no event open in the kernel but
\* those whose record an attach overwrote or an attach_perf_event that failed on a
\* later CPU never made; in general, an open event is recorded or one of these.
OpenIsRecorded ==
  /\ \A e \in open \ leaked : e \in Recorded(e[1])
  /\ \A e \in open : e[1] \in closed => e \in leaked
=============================================================================
