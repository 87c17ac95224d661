------------------------------- MODULE Probes -------------------------------
(***************************************************************************)
(* The probe bookkeeping of the C++ API (src/cc/api/BPF.cc) over the       *)
(* attach and detach calls of libbpf.c: which descriptors the maps funcs_, *)
(* kprobes_, uprobes_, tracepoints_, raw_tracepoints_ and perf_events_     *)
(* name, and what the process's descriptor table really holds.             *)
(*                                                                         *)
(* One thread uses the BPF object.  Its calls are split at the system      *)
(* calls, because other threads open and close files meanwhile and a       *)
(* closed number is handed out again.                                      *)
(***************************************************************************)
EXTENDS Integers, Sequences, FiniteSets

CONSTANTS
  Funcs,          \* functions of the loaded module
  Kprobes, Uprobes, Tracepoints, RawTracepoints, PerfEvents, \* event names
  NCpus,          \* online CPUs (perf events are attached on each)
  NFds,           \* size of the descriptor table
  MaxFiles,       \* files the rest of the process holds open at most
  Faults,         \* system calls that may fail
  PrefixPid       \* another process's pid has ours as a prefix

Probed == Kprobes \cup Uprobes
Events == Probed \cup Tracepoints \cup RawTracepoints \cup PerfEvents
Fds == 1..NFds

ASSUME ProbesAssumption ==
  /\ NCpus \in Nat \ {0} /\ NFds \in Nat /\ MaxFiles \in Nat
  /\ Faults \subseteq {"load", "pmu", "create", "open", "set_bpf", "detach"}
  /\ PrefixPid \in BOOLEAN
  /\ RawTracepoints \cap (Probed \cup Tracepoints \cup PerfEvents) = {}
  /\ PerfEvents \cap (Probed \cup Tracepoints) = {}
  /\ Probed \cap Tracepoints = {} /\ Kprobes \cap Uprobes = {}

VARIABLES
  fd,        \* the process's descriptor table: [Fds -> object or Closed]
  funcs_,    \* [Funcs -> Fds], 0 where the map has no entry
  probes,    \* the five maps of open_probe_t, NoProbe where there is no entry
  tracefs,   \* events of this process in [ku]probe_events
  foreign,   \* events whose name starts a line of another process there
  call,      \* the API call in progress
  errors,    \* history: calls that returned an error
  destroyed  \* ~BPF has run

vars == <<fd, funcs_, probes, tracefs, foreign, call, errors, destroyed>>

-----------------------------------------------------------------------------
\* What a descriptor denotes: a program of some type, or a perf event (or raw
\* tracepoint link) running a function, or something of the rest of the process.
Object(what, of, with) == [what |-> what, of |-> of, with |-> with]
Closed == Object("closed", "none", "none")
File == Object("file", "none", "none")
Prog(f, type) == Object("prog", f, type)
Perf(e, f) == Object("perf", e, f)

NoProbe == [func |-> "none", fds |-> <<>>, freed |-> FALSE]
Call(op, at, e, f) == [op |-> op, at |-> at, event |-> e, func |-> f, prog |-> 0,
                       pfd |-> 0, got |-> <<>>, left |-> {}, failed |-> FALSE]
Idle == Call("none", "idle", "none", "none")

\* The bpf_prog_type each attach call asks load_func for.
ProgType(e) == CASE e \in Probed -> "KPROBE"
                 [] e \in Tracepoints -> "TRACEPOINT"
                 [] e \in RawTracepoints -> "RAW_TRACEPOINT"
                 [] e \in PerfEvents -> "PERF_EVENT"

\* How many descriptors an attached event has.
Width(e) == IF e \in PerfEvents THEN NCpus ELSE 1

\* open() and its kin return the lowest free number.
HasFree == \E n \in Fds : fd[n] = Closed
Lowest == CHOOSE n \in Fds : fd[n] = Closed /\ \A m \in 1..(n - 1) : fd[m] # Closed
Open(object) == fd' = [fd EXCEPT ![Lowest] = object]
CloseAll(ns) == fd' = [n \in Fds |-> IF n \in ns THEN Closed ELSE fd[n]]
Numbers(s) == {s[i] : i \in 1..Len(s)}

May(fault) == fault \in Faults
At(l) == call.at = l
Return == call' = Idle
Step(l) == call' = [call EXCEPT !.at = l]

Init ==
  /\ fd = [n \in Fds |-> Closed]
  /\ funcs_ = [f \in Funcs |-> 0]
  /\ probes = [e \in Events |-> NoProbe]
  /\ tracefs = {} /\ foreign = {}
  /\ call = Idle /\ errors = {} /\ destroyed = FALSE

-----------------------------------------------------------------------------
(* load_func and unload_func, called by the user or by attach and detach.   *)

\* attach_*: an event already in the map is refused before anything happens.
attach(e, f) ==
  /\ At("idle") /\ ~destroyed
  /\ probes[e] = NoProbe
  /\ call' = Call("attach", "load", e, f)
  /\ UNCHANGED <<fd, funcs_, probes, tracefs, foreign, errors, destroyed>>

UserLoad(e, f) ==
  /\ At("idle") /\ ~destroyed
  /\ call' = Call("load", "load", e, f)
  /\ UNCHANGED <<fd, funcs_, probes, tracefs, foreign, errors, destroyed>>

UserUnload(f) ==
  /\ At("idle") /\ ~destroyed
  /\ call' = Call("unload", "unload", "none", f)
  /\ UNCHANGED <<fd, funcs_, probes, tracefs, foreign, errors, destroyed>>

\* The history of errors keeps the failed attaches of kprobes and uprobes, and
\* whether a detach ever failed.
Fail == errors' = errors \cup (IF call.op \in {"detach", "destroy"} THEN {"detach"}
                               ELSE {call.event} \cap Probed)

\* A descriptor found in funcs_ is used whatever type it was loaded with.
Loaded(n) == call' = IF call.op = "load" THEN Idle
                     ELSE [call EXCEPT !.prog = n, !.at = "open"]

load_func ==
  /\ At("load")
  /\ \/ /\ funcs_[call.func] # 0
        /\ Loaded(funcs_[call.func])
        /\ UNCHANGED <<fd, funcs_, errors>>
     \/ /\ funcs_[call.func] = 0 /\ HasFree
        /\ Open(Prog(call.func, ProgType(call.event)))
        /\ funcs_' = [funcs_ EXCEPT ![call.func] = Lowest]
        /\ Loaded(Lowest)
        /\ UNCHANGED errors
     \/ /\ funcs_[call.func] = 0 /\ (May("load") \/ ~HasFree)
        /\ Return /\ Fail
        /\ UNCHANGED <<fd, funcs_>>
  /\ UNCHANGED <<probes, tracefs, foreign, destroyed>>

-----------------------------------------------------------------------------
(* bpf_attach_kprobe, _uprobe, _tracepoint, _raw_tracepoint, _perf_event.   *)

\* perf_event_open gave pfd, and SET_BPF comes next; or it failed.
Opened == /\ HasFree
          /\ Open(Perf(call.event, "none"))
          /\ call' = [call EXCEPT !.pfd = Lowest, !.at = "set_bpf"]
NotOpened == Step("failed") /\ UNCHANGED fd

\* bpf_attach_probe: the perf_kprobe PMU, else an event written to tracefs.
OpenProbe ==
  /\ At("open") /\ call.event \in Probed
  /\ \/ Opened /\ UNCHANGED tracefs
     \/ /\ May("pmu") \/ ~HasFree
        /\ \/ (May("create") \/ ~HasFree) /\ NotOpened /\ UNCHANGED tracefs
           \/ /\ HasFree /\ tracefs' = tracefs \cup {call.event}
              /\ Opened \/ (May("open") /\ NotOpened)
  /\ UNCHANGED <<funcs_, probes, foreign, errors, destroyed>>

OpenEvent ==
  /\ At("open") /\ call.event \in Tracepoints \cup PerfEvents
  /\ Opened \/ ((May("open") \/ ~HasFree) /\ NotOpened)
  /\ UNCHANGED <<funcs_, probes, tracefs, foreign, errors, destroyed>>

\* The kernel takes only a program of the event's type.
Accepts == fd[call.prog].what = "prog" /\ fd[call.prog].with = ProgType(call.event)

\* The tail of attach_*: the descriptors of every CPU are there, so record them.
RecordProbeMutant(fds) ==
  /\ call' = [call EXCEPT !.got = fds, !.at = IF Len(fds) <= Width(call.event)
                                               THEN "open" ELSE "idle"]
  /\ probes' = [probes EXCEPT ![call.event] =
                  [func |-> call.func, fds |-> fds, freed |-> FALSE]]
RecordProbe(fds) ==
  IF Len(fds) < Width(call.event)
    THEN call' = [call EXCEPT !.got = fds, !.at = "open"] /\ UNCHANGED probes
    ELSE /\ probes' = [probes EXCEPT ![call.event] =
                         [func |-> call.func, fds |-> fds, freed |-> FALSE]]
         /\ Return

\* bpf_raw_tracepoint_open does it all at once.
OpenRaw ==
  /\ At("open") /\ call.event \in RawTracepoints
  /\ \/ /\ Accepts /\ HasFree
        /\ Open(Perf(call.event, fd[call.prog].of))
        /\ RecordProbe(<<Lowest>>)
     \/ /\ ~Accepts \/ ~HasFree \/ May("open")
        /\ NotOpened /\ UNCHANGED probes
  /\ UNCHANGED <<funcs_, tracefs, foreign, errors, destroyed>>

\* SET_BPF and ENABLE; on failure the caller closes the descriptor.
AfterSetBpfMutant == UNCHANGED fd
AfterSetBpf == CloseAll({call.pfd})

SetBpf ==
  /\ At("set_bpf")
  /\ \/ /\ Accepts
        /\ fd' = [fd EXCEPT ![call.pfd] = Perf(call.event, fd[call.prog].of)]
        /\ RecordProbe(Append(call.got, call.pfd))
     \/ /\ ~Accepts \/ May("set_bpf")
        /\ AfterSetBpf
        /\ Step("failed") /\ UNCHANGED probes
  /\ UNCHANGED <<funcs_, tracefs, foreign, errors, destroyed>>

\* attach_perf_event closes what earlier CPUs got; then unload_func.
AttachFailed ==
  /\ At("failed")
  /\ CloseAll(Numbers(call.got))
  /\ Step("unload") /\ Fail
  /\ UNCHANGED <<funcs_, probes, tracefs, foreign, destroyed>>

-----------------------------------------------------------------------------
(* detach_*, its detach_*_event, and ~BPF, which runs them for every entry. *)

detach(e) ==
  /\ At("idle") /\ ~destroyed
  /\ probes[e] # NoProbe
  /\ call' = Call("detach", "close", e, probes[e].func)
  /\ UNCHANGED <<fd, funcs_, probes, tracefs, foreign, errors, destroyed>>

\* An error return: the entry stays; detach_all goes on with the next one.
Error == /\ Fail
         /\ IF call.op = "destroy" THEN Step("next") ELSE Return

\* bpf_close_perf_event_fd ignores errors for probes and tracepoints; a raw
\* tracepoint's close is checked; a perf event notes them and frees per_cpu_fd.
CloseProbe ==
  LET p == probes[call.event]
      bad == \E n \in Numbers(p.fds) : fd[n].what # "perf"
  IN  /\ At("close") /\ ~p.freed
      /\ CloseAll(Numbers(p.fds))
      /\ IF call.event \in RawTracepoints /\ \E n \in Numbers(p.fds) : fd[n] = Closed
           THEN Error
           ELSE /\ call' = [call EXCEPT !.at = "unload", !.failed = bad]
                /\ UNCHANGED errors
      /\ probes' = [probes EXCEPT ![call.event].freed = call.event \in PerfEvents]
      /\ UNCHANGED <<funcs_, tracefs, foreign, destroyed>>

\* A second detach of a perf event whose per_cpu_fd was freed reads freed memory:
\* it may close any numbers before the second delete ends the process.
CloseFreed ==
  /\ At("close") /\ probes[call.event].freed
  /\ \E ns \in SUBSET Fds : CloseAll(ns)
  /\ Step("crashed")
  /\ UNCHANGED <<funcs_, probes, tracefs, foreign, errors, destroyed>>

\* unload_func: nothing to do, or close the number funcs_ has for the name.
Unloaded ==
  /\ \/ call.op \in {"attach", "unload"} /\ Return /\ UNCHANGED errors
     \/ /\ call.op \in {"detach", "destroy"}
        /\ \/ call.event \in Probed /\ Step("tracefs") /\ UNCHANGED errors
           \/ call.event \in PerfEvents /\ call.failed /\ Error
           \/ /\ call.event \notin Probed /\ ~(call.event \in PerfEvents /\ call.failed)
              /\ Step("erase") /\ UNCHANGED errors
  /\ UNCHANGED probes

EraseFuncMutant == UNCHANGED funcs_
EraseFunc == funcs_' = [funcs_ EXCEPT ![call.func] = 0]

unload_func ==
  LET n == funcs_[call.func]
  IN  /\ At("unload")
      /\ \/ n = 0 /\ Unloaded /\ UNCHANGED <<fd, funcs_>>
         \/ n # 0 /\ fd[n] # Closed /\ CloseAll({n}) /\ EraseFunc /\ Unloaded
         \/ n # 0 /\ fd[n] = Closed /\ Error /\ UNCHANGED <<fd, funcs_, probes>>
      /\ UNCHANGED <<tracefs, foreign, destroyed>>

\* bpf_detach_probe looks for a line that contains the name; what it finds may
\* be the line of a process whose pid starts with ours.  Removing an event that
\* is not there, or is still open, fails.
FoundMutant(e) == FALSE
Found(e) == e \in tracefs \cup foreign
Removable(e) == e \in tracefs /\ \A n \in Fds : ~(fd[n].what = "perf" /\ fd[n].of = e)

bpf_detach_probe ==
  /\ At("tracefs")
  /\ \/ /\ HasFree /\ ~Found(call.event)
        /\ Step("erase") /\ UNCHANGED <<tracefs, errors>>
     \/ /\ HasFree /\ Found(call.event) /\ Removable(call.event)
        /\ tracefs' = tracefs \ {call.event}
        /\ Step("erase") /\ UNCHANGED errors
     \/ /\ \/ May("detach") \/ ~HasFree
           \/ Found(call.event) /\ ~Removable(call.event)
        /\ Error /\ UNCHANGED tracefs
  /\ UNCHANGED <<fd, funcs_, probes, foreign, destroyed>>

\* detach_* erases the entry; detach_all leaves it.
EraseMutant ==
  /\ At("erase")
  /\ IF call.op = "destroy" THEN Step("next") ELSE Return
  /\ UNCHANGED <<fd, funcs_, probes, tracefs, foreign, errors, destroyed>>
Erase ==
  /\ At("erase")
  /\ IF call.op = "destroy"
       THEN Step("next") /\ UNCHANGED probes
       ELSE Return /\ probes' = [probes EXCEPT ![call.event] = NoProbe]
  /\ UNCHANGED <<fd, funcs_, tracefs, foreign, errors, destroyed>>

\* ~BPF calls detach_all: kprobes first, then uprobes, ..., perf events last.
Rank(e) == CASE e \in Kprobes -> 1 [] e \in Uprobes -> 2 [] e \in Tracepoints -> 3
             [] e \in RawTracepoints -> 4 [] e \in PerfEvents -> 5

Destroy ==
  /\ At("idle") /\ ~destroyed
  /\ call' = [Call("destroy", "next", "none", "none")
               EXCEPT !.left = {e \in Events : probes[e] # NoProbe}]
  /\ UNCHANGED <<fd, funcs_, probes, tracefs, foreign, errors, destroyed>>

DestroyNext(e) ==
  /\ At("next") /\ e \in call.left /\ \A d \in call.left : Rank(e) <= Rank(d)
  /\ call' = [Call("destroy", "close", e, probes[e].func) EXCEPT !.left = call.left \ {e}]
  /\ UNCHANGED <<fd, funcs_, probes, tracefs, foreign, errors, destroyed>>

\* The loop over funcs_ that ends detach_all; then the maps are destructed.
DestroyFuncs ==
  /\ At("next") /\ call.left = {}
  /\ CloseAll({funcs_[f] : f \in Funcs})
  /\ funcs_' = [f \in Funcs |-> 0]
  /\ probes' = [e \in Events |-> NoProbe]
  /\ destroyed' = TRUE /\ Return
  /\ UNCHANGED <<tracefs, foreign, errors>>

-----------------------------------------------------------------------------
(* The rest of the process, and of the machine.                             *)

OpenFile ==
  /\ HasFree /\ Cardinality({n \in Fds : fd[n] = File}) < MaxFiles
  /\ Open(File)
  /\ UNCHANGED <<funcs_, probes, tracefs, foreign, call, errors, destroyed>>

CloseFile(n) ==
  /\ fd[n] = File
  /\ CloseAll({n})
  /\ UNCHANGED <<funcs_, probes, tracefs, foreign, call, errors, destroyed>>

OtherProcess(e) ==
  /\ PrefixPid
  /\ foreign' = IF e \in foreign THEN foreign \ {e} ELSE foreign \cup {e}
  /\ UNCHANGED <<fd, funcs_, probes, tracefs, call, errors, destroyed>>

Library ==
  \/ \E e \in Events, f \in Funcs : attach(e, f) \/ UserLoad(e, f)
  \/ \E f \in Funcs : UserUnload(f)
  \/ \E e \in Events : detach(e) \/ DestroyNext(e)
  \/ load_func \/ OpenProbe \/ OpenEvent \/ OpenRaw \/ SetBpf \/ AttachFailed
  \/ CloseProbe \/ CloseFreed \/ unload_func \/ bpf_detach_probe \/ Erase
  \/ Destroy \/ DestroyFuncs

Environment == \/ OpenFile \/ \E n \in Fds : CloseFile(n)
               \/ \E e \in Probed : OtherProcess(e)

Next == Library \/ Environment

Spec == Init /\ [][Next]_vars

-----------------------------------------------------------------------------
(* Properties.                                                              *)

\* The state is well formed: an entry of the maps has one descriptor, and an
\* entry of perf_events_ one for each CPU.
TypeOK ==
  /\ DOMAIN fd = Fds
  /\ \A n \in Fds : fd[n].what \in {"closed", "file", "prog", "perf"}
  /\ funcs_ \in [Funcs -> 0..NFds]
  /\ DOMAIN probes = Events
  /\ \A e \in Events : probes[e] # NoProbe =>
       /\ probes[e].func \in Funcs /\ Numbers(probes[e].fds) \subseteq Fds
       /\ Len(probes[e].fds) = Width(e)
  /\ tracefs \subseteq Probed /\ foreign \subseteq Probed
  /\ call.left \subseteq Events /\ Numbers(call.got) \subseteq Fds

DetachFailed == "detach" \in errors

\* The entry is past the close of its descriptors.
Closing(e) ==
  \/ call.op = "detach" /\ call.event = e /\ call.at # "close"
  \/ call.op = "destroy" /\ e \notin call.left /\ ~(call.event = e /\ call.at = "close")

\* As long as no detach has returned an error, every number in funcs_ is that
\* function's program and every number in an open_probe_t is that event's,
\* running that function: no number is stale, though functions are shared
\* between events, unloaded under them, and numbers are handed out again.
MapsAreTrue ==
  ~DetachFailed =>
    /\ \A f \in Funcs : funcs_[f] # 0 =>
         fd[funcs_[f]].what = "prog" /\ fd[funcs_[f]].of = f
    /\ \A e \in Events : probes[e] # NoProbe /\ ~Closing(e) =>
         \A n \in Numbers(probes[e].fds) : fd[n] = Perf(e, probes[e].func)

\* As long as no detach has returned an error, a call closes only descriptors
\* of the event and the function it is about, never another's.
ClosesOnlyItsOwn ==
  [][Library /\ ~DetachFailed =>
       \A n \in Fds : fd[n] # Closed /\ fd'[n] = Closed =>
         \/ fd[n].what = "perf" /\ fd[n].of = call.event
         \/ fd[n].what = "prog" /\ (fd[n].of = call.func \/ At("next"))]_vars

Named == {funcs_[f] : f \in Funcs} \cup (UNION {Numbers(probes[e].fds) : e \in Events})
           \cup {call.pfd} \cup Numbers(call.got)

\* Every program and perf event the library holds open is named by one of its
\* maps or by the call in progress, on every error path: none is leaked, and
\* after ~BPF (whose maps are gone) none is open.
NothingLeaks == \A n \in Fds : fd[n].what \in {"prog", "perf"} => n \in Named

\* An event this process left in [ku]probe_events belongs to a recorded probe,
\* or to a call that returned an error.
TracefsAccounted ==
  \A e \in tracefs :
    \/ probes[e] # NoProbe \/ call.event = e \/ e \in errors
    \/ destroyed /\ DetachFailed
=============================================================================
