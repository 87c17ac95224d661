-------------------------------- MODULE Usdt --------------------------------
(***************************************************************************)
(* The semaphore of one USDT probe in a traced process, and the tracers    *)
(* that count themselves in it.  A tracer is a USDT::Context               *)
(* (src/cc/usdt/usdt.cc, the Python front end) or a C++ BPF object with an *)
(* ebpf::USDT (src/cc/api/BPF.cc).  The semaphore is read and written back *)
(* through /proc/pid/mem in two system calls, by each tracer for itself.   *)
(***************************************************************************)
EXTENDS Integers, FiniteSets, ProcStat

CONSTANTS
  Contexts,        \* tracers that use a USDT::Context
  Objects,         \* tracers that use an ebpf::BPF object
  Procs,           \* processes that have the pid in turn, as in ProcStat, each
                   \* with a number id
  First,           \* the one the tracers were made for
  MaxExits,        \* processes that exit
  NLocs,           \* locations of the probe
  MaxFaults,       \* failing system calls in a behaviour
  MaxSem           \* bound on the semaphore's absolute value

Tracers == Contexts \cup Objects
Locs == 1..NLocs
None == [id |-> 0]

ASSUME UsdtAssumption ==
  /\ Contexts \cap Objects = {} /\ IsFiniteSet(Tracers)
  /\ First \in Procs /\ \A p \in Procs : p.id \in Nat \ {0} /\ p.exe # Gone.exe
  /\ MaxExits \in Nat /\ NLocs \in Nat \ {0} /\ MaxFaults \in Nat /\ MaxSem \in Nat

VARIABLES
  proc,         \* the process that has the pid, or None
  past,         \* the processes that had it before
  sem,          \* the semaphore in its memory
  need_enable,  \* the probe has a semaphore
  ref_ctr,      \* uprobe_ref_ctr_supported
  tr,           \* [Tracers -> state of a tracer, below]
  faults,       \* system calls that failed
  hist          \* history of this process: increments that nobody will take back,
                \* an update was overwritten, it was written at another's address

vars == <<proc, past, sem, need_enable, ref_ctr, tr, faults, hist>>
kernel == <<need_enable, ref_ctr>>
world == <<proc, past, kernel>>

\* The call in progress (op, at) with its locals, the fields of the probe, the
\* locations in the object's uprobes_ and <<location, process>> of its open perf
\* events, what addsem_probe added; and as history how often is_stale looked at the
\* root (up to 2), the process it saw last, and whether a detach_uprobe failed.
NewTracer ==
  [op |-> "none", at |-> "none", val |-> 0, cnt |-> 0, mem |-> None, orig |-> 0,
   attached_to |-> FALSE, resolved |-> None, uprobes |-> {}, events |-> {}, added |-> 0,
   pid_stat |-> Remember(First), asked |-> 0, seen |-> First, undone |-> FALSE]

Init ==
  /\ proc = First /\ past = {} /\ sem = 0
  /\ need_enable \in BOOLEAN /\ ref_ctr \in BOOLEAN
  /\ tr = [t \in Tracers |-> NewTracer] /\ faults = 0
  /\ hist = [orphans |-> 0, lost |-> FALSE, strayed |-> FALSE]

Alive == proc # None
Running == IF Alive THEN proc ELSE Gone
At(t, at) == tr[t].at = at
In(t, op) == tr[t].op = op
Set(t, r) == tr' = [tr EXCEPT ![t] = r]
Goto(r, op, at, val) == [r EXCEPT !.op = op, !.at = at, !.val = val]
Return(r) == [r EXCEPT !.op = "none", !.at = "none", !.val = 0, !.cnt = 0,
                       !.mem = None, !.orig = 0]
Fault == faults < MaxFaults /\ faults' = faults + 1

-----------------------------------------------------------------------------
(* The traced process (external) and the death of a tracer.                 *)

Exit == /\ Alive /\ Cardinality(past) < MaxExits
        /\ proc' = None /\ past' = past \cup {proc} /\ sem' = 0
        /\ hist' = [orphans |-> 0, lost |-> FALSE, strayed |-> FALSE]
        /\ UNCHANGED <<kernel, tr, faults>>

Start(p) == /\ ~Alive /\ p \notin past /\ proc' = p
            /\ UNCHANGED <<past, sem, kernel, tr, faults, hist>>

\* The probe counts in the semaphore: it is enabled in this process, or about to
\* take the increment back.
Disabling(r) == r.at \in {"add", "write"} /\ r.op \in {"detach", "close"}
Counts(r) == Alive /\ r.resolved = proc /\ need_enable /\ (r.attached_to \/ Disabling(r))
Left(r) == (IF Counts(r) THEN 1 ELSE 0)
           + (IF Alive /\ r.resolved = proc THEN r.added ELSE 0)

\* With ref_ctr the kernel counts the perf events open in the process.
KernelCounts(evs) == IF ref_ctr /\ need_enable
                       THEN Cardinality({e \in evs : e[2] = proc}) ELSE 0

Orphan(n) == hist' = [hist EXCEPT !.orphans = @ + n]

\* A tracer is gone: the kernel closes its perf events, its increments stay.
TracerGone(t, r) ==
  /\ Set(t, [NewTracer EXCEPT !.op = "dead"])
  /\ sem' = sem - KernelCounts(r.events)
  /\ Orphan(Left(r))

Kill(t) == ~In(t, "dead") /\ TracerGone(t, tr[t]) /\ UNCHANGED <<world, faults>>

-----------------------------------------------------------------------------
(* Probe: add_to_semaphore, and what enable and disable do around it.       *)

Enabled(r, op) ==
  LET e == [r EXCEPT !.attached_to = TRUE]
  IN  IF op = "attach" THEN [Goto(e, op, "locs", 1) EXCEPT !.mem = None, !.orig = 0]
                       ELSE Return(e)
EnableProbe(r, op) == IF need_enable THEN Goto(r, op, "add", 1) ELSE Enabled(r, op)

\* disable clears attached_to_ first.
DisableProbeMutant(r, op) == Return([r EXCEPT !.attached_to = FALSE])
DisableProbe(r, op) ==
  IF r.attached_to /\ need_enable
    THEN Goto([r EXCEPT !.attached_to = FALSE], op, "add", -1)
    ELSE Return([r EXCEPT !.attached_to = FALSE])

\* The destructor of a context ends with disable.
Disabled(r) == IF r.op = "close" THEN [NewTracer EXCEPT !.op = "dead"] ELSE Return(r)

Added(r) == CASE r.op \in {"enable", "attach"} -> Enabled(r, r.op)
              [] r.op = "addsem" -> Return([r EXCEPT !.added = @ + r.val])
              [] OTHER -> Disabled(r)

\* The address is resolved once and kept; open pins the memory of the process.
Resolve(r) == [r EXCEPT !.resolved = IF @ = None THEN proc ELSE @]

ReadSem(t) ==
  LET r == Resolve(tr[t])
  IN  /\ At(t, "add") /\ Alive
      /\ Set(t, [r EXCEPT !.at = "write", !.mem = proc,
                          !.orig = IF r.resolved = proc THEN sem ELSE 0])
      /\ UNCHANGED <<world, sem, faults, hist>>

WriteSem(t) ==
  LET r == tr[t]
  IN  /\ At(t, "write") /\ proc = r.mem
      /\ IF r.resolved = proc
           THEN /\ r.orig + r.val \in -MaxSem..MaxSem
                /\ sem' = r.orig + r.val
                /\ hist' = [hist EXCEPT !.lost = @ \/ sem # r.orig]
           ELSE hist' = [hist EXCEPT !.strayed = TRUE] /\ UNCHANGED sem
      /\ Set(t, Added(r))
      /\ UNCHANGED <<world, faults>>

\* No such process any more, nothing mapped at the address, or a failing call.
AddFails(t) ==
  LET r == tr[t]
  IN  /\ \/ At(t, "add") /\ ~Alive /\ UNCHANGED faults /\ Set(t, Disabled(r))
         \/ At(t, "write") /\ proc # r.mem /\ UNCHANGED faults /\ Set(t, Disabled(r))
         \/ /\ At(t, "add") /\ r.resolved \notin {None, proc} /\ UNCHANGED faults
            /\ Set(t, Disabled(r))
         \/ /\ At(t, "add") /\ Alive /\ Fault
            /\ Set(t, Disabled(r)) \/ Set(t, Disabled(Resolve(r)))
         \/ At(t, "write") /\ Fault /\ Set(t, Disabled(r))
      /\ Orphan(IF Disabling(r) THEN Left(r) ELSE 0)
      /\ UNCHANGED <<world, sem>>

-----------------------------------------------------------------------------
(* Context: enable_probe, addsem_probe, and the destructor.                 *)

\* get_checked and the destructor ask whether the process is stale.
Ask(r) ==
  [r EXCEPT !.pid_stat = AfterStale(@, Running), !.seen = proc,
            !.asked = IF AskRoot(r.pid_stat, Running) /\ @ < 2 THEN @ + 1 ELSE @]
StaleMutant(r, junk) == FALSE
Stale(r, junk) == is_stale(r.pid_stat, Running, junk)

enable_probe(t, junk) ==
  LET r == Ask(tr[t])
  IN  /\ In(t, "none")
      /\ Set(t, IF Stale(tr[t], junk) \/ r.attached_to THEN r ELSE EnableProbe(r, "enable"))
      /\ UNCHANGED <<world, sem, faults, hist>>

\* A caller takes back what it added.
addsem_probe(t, val, junk) ==
  LET r == Ask(tr[t])
  IN  /\ In(t, "none") /\ need_enable /\ r.added + val \in {0, 1}
      /\ Set(t, IF Stale(tr[t], junk) THEN r ELSE Goto(r, "addsem", "add", val))
      /\ UNCHANGED <<world, sem, faults, hist>>

close(t, junk) ==
  LET r == Ask(tr[t])
      d == DisableProbe(r, "close")
  IN  /\ In(t, "none")
      /\ IF Stale(tr[t], junk) \/ d.op = "none"
           THEN TracerGone(t, r)
           ELSE /\ Set(t, [d EXCEPT !.added = 0]) /\ UNCHANGED sem
                /\ Orphan(Left([r EXCEPT !.attached_to = FALSE]))
      /\ UNCHANGED <<world, faults>>

-----------------------------------------------------------------------------
(* BPF: attach_usdt, detach_usdt, the destructor.                           *)

attach_usdt(t) ==
  LET r == tr[t]
  IN  /\ In(t, "none") /\ (ref_ctr \/ ~r.attached_to)
      /\ Set(t, IF ref_ctr THEN Goto(r, "attach", "locs", 1) ELSE EnableProbe(r, "attach"))
      /\ UNCHANGED <<world, sem, faults, hist>>

\* attach_uprobe at the next location; a failure starts the clean-up.
AttachLoc(t) ==
  LET r == tr[t]
      l == r.val
      ok == l \notin r.uprobes /\ Alive
      a == [r EXCEPT !.uprobes = @ \cup {l}, !.events = @ \cup {<<l, proc>>}]
  IN  /\ In(t, "attach") /\ At(t, "locs")
      /\ \/ /\ ok /\ UNCHANGED faults
            /\ sem' = sem + KernelCounts({<<l, proc>>})
            /\ Set(t, IF l = NLocs THEN Return(a) ELSE [a EXCEPT !.val = l + 1])
         \/ /\ IF ok THEN Fault ELSE UNCHANGED faults
            /\ Set(t, [Goto(r, "attach", "undo", 1) EXCEPT !.cnt = l - 1])
            /\ UNCHANGED sem
      /\ UNCHANGED <<world, hist>>

\* What detach_uprobe closes at a location.
EventsAtMutant(r, l) == {e \in r.events : e[1] = l /\ e[2] = proc}
EventsAt(r, l) == {e \in r.events : e[1] = l}

\* detach_uprobe; a failure keeps the entry, whether or not its event is closed.
DetachOne(t, l, next) ==
  LET r == [tr[t] EXCEPT !.val = next]
      closed == [r EXCEPT !.events = @ \ EventsAt(r, l)]
  IN  \/ /\ l \in r.uprobes /\ UNCHANGED faults
         /\ sem' = sem - KernelCounts(EventsAt(r, l))
         /\ Set(t, [closed EXCEPT !.uprobes = @ \ {l}])
      \/ /\ l \in r.uprobes /\ Fault
         /\ \/ sem' = sem - KernelCounts(EventsAt(r, l))
               /\ Set(t, [closed EXCEPT !.undone = TRUE])
            \/ UNCHANGED sem /\ Set(t, [r EXCEPT !.undone = TRUE])
      \/ l \notin r.uprobes /\ UNCHANGED <<sem, faults>> /\ Set(t, r)

UndoCountMutant(r) == r.cnt - 1
UndoCount(r) == r.cnt

UndoLoc(t) ==
  LET l == tr[t].val
  IN  /\ At(t, "undo")
      /\ IF l <= UndoCount(tr[t]) THEN DetachOne(t, l, l + 1)
         ELSE Set(t, Return(tr[t])) /\ UNCHANGED <<sem, faults>>
      /\ UNCHANGED <<world, hist>>

detach_usdt(t) ==
  /\ In(t, "none") /\ (tr[t].attached_to \/ tr[t].uprobes # {})
  /\ Set(t, Goto(tr[t], "detach", "locs", 1))
  /\ UNCHANGED <<world, sem, faults, hist>>

\* Every location, then Probe::disable, also after failures.
DetachLoc(t) ==
  LET l == tr[t].val
  IN  /\ In(t, "detach") /\ At(t, "locs")
      /\ IF l <= NLocs THEN DetachOne(t, l, l + 1)
         ELSE /\ Set(t, IF ref_ctr THEN Return(tr[t]) ELSE DisableProbe(tr[t], "detach"))
              /\ UNCHANGED <<sem, faults>>
      /\ UNCHANGED <<world, hist>>

\* detach_all closes the uprobes; the probe is deleted as it is.
destroy(t) == In(t, "none") /\ TracerGone(t, tr[t]) /\ UNCHANGED <<world, faults>>

-----------------------------------------------------------------------------
Probe(t) == ReadSem(t) \/ WriteSem(t) \/ AddFails(t) \/ Kill(t)
Context(t) == \E junk \in BOOLEAN : \/ enable_probe(t, junk) \/ close(t, junk)
                                    \/ \E val \in {-1, 1} : addsem_probe(t, val, junk)
Object(t) == \/ attach_usdt(t) \/ AttachLoc(t) \/ UndoLoc(t) \/ detach_usdt(t)
             \/ DetachLoc(t) \/ destroy(t)

Next == \/ Exit \/ \E p \in Procs : Start(p)
        \/ \E t \in Tracers : Probe(t)
        \/ \E t \in Contexts : Context(t)
        \/ \E t \in Objects : Object(t)

Spec == Init /\ [][Next]_vars

-----------------------------------------------------------------------------
(* Properties.                                                              *)

\* The state is well formed, and an object's open perf events have entries.
TypeOK ==
  /\ proc \in Procs \cup {None} /\ past \subseteq Procs /\ proc \notin past
  /\ sem \in Int /\ need_enable \in BOOLEAN /\ ref_ctr \in BOOLEAN
  /\ faults \in 0..MaxFaults /\ DOMAIN tr = Tracers
  /\ hist \in [orphans : Nat, lost : BOOLEAN, strayed : BOOLEAN]
  /\ \A t \in Tracers : LET r == tr[t] IN
       /\ r.attached_to \in BOOLEAN /\ r.resolved \in Procs \cup {None}
       /\ r.uprobes \subseteq Locs /\ r.added \in {0, 1}
       /\ {e[1] : e \in r.events} \subseteq r.uprobes

\* What the tracers and the kernel still have to take back, one element for each
\* increment: an enabled probe, an addsem_probe, a reference-counted uprobe.
Owes(r, what, l) ==
  \/ what = "enable" /\ l = 0 /\ Counts(r)
  \/ what = "addsem" /\ l = 0 /\ Alive /\ r.resolved = proc /\ r.added = 1
  \/ what = "uprobe" /\ ref_ctr /\ need_enable /\ <<l, proc>> \in r.events
Owed == {o \in Tracers \X {"enable", "addsem", "uprobe"} \X (0..NLocs) :
           Owes(tr[o[1]], o[2], o[3])}
Expected == hist.orphans + Cardinality(Owed)

\* add_to_semaphore by several tracers: unless an update was lost between
\* another tracer's read and write, or a write went to a reused pid, the
\* semaphore is the number of enabled probes, open reference-counted uprobes and
\* outstanding addsem_probe calls, and what dead tracers and failed disables left.
SemaphoreCounts == Alive /\ ~hist.lost /\ ~hist.strayed => sem = Expected

\* attach_usdt leaves all locations or none, also when it fails part-way, and
\* without reference counters the locations of an enabled probe only, as long as
\* no detach_uprobe has failed.
AllLocationsOrNone ==
  \A t \in Objects :
    In(t, "none") /\ ~tr[t].undone =>
      /\ tr[t].uprobes \in {{}, Locs}
      /\ ~ref_ctr /\ tr[t].uprobes # {} => tr[t].attached_to

\* get_checked and ~Context: a context writes to another program in another mount
\* namespace that has the pid now only if the process changed after the check, or
\* is_stale, which answers true once, had answered before.
ForeignWriteOnlyUnseen ==
  [][\A t \in Contexts :
       WriteSem(t) /\ tr[t].resolved # proc =>
         \/ tr[t].seen # proc \/ tr[t].asked > 1
         \/ proc.exe = First.exe \/ proc.ns = First.ns]_vars
=============================================================================
