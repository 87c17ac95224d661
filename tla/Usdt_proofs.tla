---------------------------- MODULE Usdt_proofs -----------------------------
(***************************************************************************)
(* The semaphore of a USDT probe and the locations of its uprobes, for     *)
(* every set of tracers, processes and locations, every number of exits    *)
(* and of failing calls.                                                   *)
(***************************************************************************)
EXTENDS Usdt, FiniteSetTheorems, TLAPS

\* A tracer has the fields of NewTracer.
IsTracer(r) ==
  r = [op |-> r.op, at |-> r.at, val |-> r.val, cnt |-> r.cnt, mem |-> r.mem,
       orig |-> r.orig, attached_to |-> r.attached_to, resolved |-> r.resolved,
       uprobes |-> r.uprobes, events |-> r.events, added |-> r.added,
       pid_stat |-> r.pid_stat, asked |-> r.asked, seen |-> r.seen, undone |-> r.undone]

Known == past \cup {proc, None}

Typed(r) ==
  /\ IsTracer(r)
  /\ r.val \in Int /\ r.cnt \in Int /\ r.orig \in Int
  /\ r.attached_to \in BOOLEAN /\ r.undone \in BOOLEAN
  /\ r.mem \in Known /\ r.resolved \in Known
  /\ r.uprobes \subseteq Locs /\ r.events \subseteq Locs \X (Known \ {None})
  /\ \A e \in r.events : e[1] \in r.uprobes
  /\ r.added \in {0, 1}

\* The calls of a context and of an object, and what holds while they are at the
\* semaphore: an increment that is counted has an address.
Control(t, r) ==
  /\ r.op \in {"none", "dead", "enable", "addsem", "close", "attach", "detach"}
  /\ r.op \in {"none", "dead"} => r.at = "none"
  /\ r.op \in {"enable", "addsem", "close"} => r.at \in {"add", "write"}
  /\ r.op = "attach" => r.at \in {"add", "write", "locs", "undo"}
  /\ r.op = "detach" => r.at \in {"add", "write", "locs"}
  /\ t \in Contexts => /\ r.op \notin {"attach", "detach"}
                       /\ r.uprobes = {} /\ r.events = {}
  /\ t \in Objects => r.op \notin {"enable", "addsem", "close"} /\ r.added = 0
  /\ r.attached_to /\ need_enable => r.resolved # None
  /\ r.added = 1 => r.resolved # None

AtSem(r) ==
  r.at \in {"add", "write"} =>
    /\ need_enable
    /\ r.op \in {"enable", "attach"} => r.val = 1 /\ ~r.attached_to
    /\ r.op \in {"detach", "close"} =>
         r.val = -1 /\ ~r.attached_to /\ r.added = 0 /\ r.resolved # None
    /\ r.op = "addsem" => r.val \in {-1, 1} /\ r.added + r.val \in {0, 1}
    /\ r.at = "write" => r.mem # None /\ r.resolved # None

\* How far attach_usdt and detach_usdt have come in the locations.
Located(r) ==
  /\ r.cnt \in 0..NLocs
  /\ r.op \in {"attach", "detach"} /\ r.at \in {"locs", "undo"} => r.val \in 1..(NLocs + 1)
  /\ r.op = "attach" /\ r.at = "locs" => r.val <= NLocs
  /\ r.op = "attach" /\ r.at \in {"add", "write"} => ~ref_ctr
  /\ r.op = "attach" /\ r.at \in {"locs", "undo"} /\ ~ref_ctr => r.attached_to
Progress(r) ==
  ~r.undone =>
    /\ r.op = "none" => r.uprobes \in {{}, Locs}
    /\ r.op = "none" /\ ~ref_ctr /\ r.uprobes # {} => r.attached_to
    /\ r.op = "attach" =>
         /\ r.at \in {"add", "write"} => r.uprobes = {}
         /\ r.at = "locs" => \/ r.uprobes = 1..(r.val - 1)
                             \/ r.uprobes = Locs /\ r.val = 1
         /\ r.at = "undo" => \/ r.uprobes = r.val..r.cnt
                             \/ r.uprobes = {}
                             \/ r.uprobes = Locs /\ r.val = 1 /\ r.cnt = 0
    /\ r.op = "detach" =>
         /\ r.at \in {"add", "write"} => r.uprobes = {}
         /\ r.at = "locs" => r.uprobes \in {{}, r.val..NLocs}

\* What is_stale remembers and what the last check before a write saw.
Checked(t, r) ==
  /\ r.pid_stat = [exe |-> First.exe, ns |-> r.pid_stat.ns]
  /\ r.asked \in 0..2 /\ (r.asked = 0 => r.pid_stat.ns = First.ns)
  /\ t \in Contexts /\ r.at \in {"add", "write"} =>
       \/ r.seen = None \/ r.asked > 1
       \/ r.seen.exe = First.exe \/ r.seen.ns = First.ns

TracerOK(t, r) ==
  Typed(r) /\ Control(t, r) /\ AtSem(r) /\ Located(r) /\ Progress(r) /\ Checked(t, r)

World == /\ proc \in Procs \cup {None} /\ past \subseteq Procs /\ proc \notin past
         /\ need_enable \in BOOLEAN /\ ref_ctr \in BOOLEAN /\ faults \in 0..MaxFaults

AllOK == /\ tr = [t \in Tracers |-> tr[t]]
         /\ \A t \in Tracers : TracerOK(t, tr[t])

\* The semaphore, and nothing in it when there is no process.
SemOK == /\ sem \in Int
         /\ hist = [orphans |-> hist.orphans, lost |-> hist.lost, strayed |-> hist.strayed]
         /\ hist.orphans \in Nat /\ hist.lost \in BOOLEAN /\ hist.strayed \in BOOLEAN
         /\ ~Alive => sem = 0 /\ hist.orphans = 0
Debts == IsFiniteSet(Owed) /\ SemaphoreCounts

UInv == World /\ AllOK /\ SemOK /\ Debts

-----------------------------------------------------------------------------
(* The fields of a tracer after each of the operators that change it.       *)

\* The fields that a call does not use as its locals.
Rest(r, s) ==
  /\ s.attached_to = r.attached_to /\ s.resolved = r.resolved /\ s.uprobes = r.uprobes
  /\ s.events = r.events /\ s.added = r.added /\ s.pid_stat = r.pid_stat
  /\ s.asked = r.asked /\ s.seen = r.seen /\ s.undone = r.undone

Locals(r, s) == /\ s.op = r.op /\ s.at = r.at /\ s.val = r.val /\ s.cnt = r.cnt
                /\ s.mem = r.mem /\ s.orig = r.orig

Dead == [NewTracer EXCEPT !.op = "dead"]
Fresh(r) ==
  /\ IsTracer(r)
  /\ r.at = "none" /\ r.val = 0 /\ r.cnt = 0 /\ r.mem = None /\ r.orig = 0
  /\ r.attached_to = FALSE /\ r.resolved = None /\ r.uprobes = {} /\ r.events = {}
  /\ r.added = 0 /\ r.pid_stat = Remember(First) /\ r.asked = 0 /\ r.seen = First
  /\ r.undone = FALSE

\* A new tracer, and a dead one.
LEMMA NewFields ==
  Fresh(NewTracer) /\ NewTracer.op = "none" /\ Fresh(Dead) /\ Dead.op = "dead"
<1>0. NewTracer = [op |-> "none", at |-> "none", val |-> 0, cnt |-> 0, mem |-> None, orig |-> 0,
   attached_to |-> FALSE, resolved |-> None, uprobes |-> {}, events |-> {}, added |-> 0,
   pid_stat |-> Remember(First), asked |-> 0, seen |-> First, undone |-> FALSE]
  BY Zenon DEF NewTracer
<1>1. Fresh(NewTracer) /\ NewTracer.op = "none"
  BY <1>0, Zenon DEF IsTracer, Fresh
<1>2. ASSUME NEW r, Fresh(r), NEW s, s = [r EXCEPT !.op = "dead"]
      PROVE  Fresh(s) /\ s.op = "dead"
  <2>1. s = [op |-> "dead", at |-> r.at, val |-> r.val, cnt |-> r.cnt, mem |-> r.mem,
         orig |-> r.orig, attached_to |-> r.attached_to, resolved |-> r.resolved,
         uprobes |-> r.uprobes, events |-> r.events, added |-> r.added,
         pid_stat |-> r.pid_stat, asked |-> r.asked, seen |-> r.seen, undone |-> r.undone]
    BY <1>2, Zenon DEF IsTracer, Fresh
  <2> QED BY <1>2, <2>1, Zenon DEF IsTracer, Fresh
<1>3. Fresh(Dead) /\ Dead.op = "dead"
  BY <1>1, <1>2, Zenon DEF Dead
<1> QED BY <1>1, <1>3, Zenon

\* Goto.
LEMMA GotoFields ==
  ASSUME NEW r, IsTracer(r), NEW op, NEW at, NEW val, NEW s, s = Goto(r, op, at, val)
  PROVE  /\ IsTracer(s) /\ Rest(r, s)
         /\ s.op = op /\ s.at = at /\ s.val = val
         /\ s.cnt = r.cnt /\ s.mem = r.mem /\ s.orig = r.orig
<1>1. s = [op |-> op, at |-> at, val |-> val, cnt |-> r.cnt, mem |-> r.mem,
       orig |-> r.orig, attached_to |-> r.attached_to, resolved |-> r.resolved,
       uprobes |-> r.uprobes, events |-> r.events, added |-> r.added,
       pid_stat |-> r.pid_stat, asked |-> r.asked, seen |-> r.seen, undone |-> r.undone]
  BY Zenon DEF IsTracer, Goto
<1> QED BY <1>1 DEF IsTracer, Rest

\* Return.
LEMMA ReturnFields ==
  ASSUME NEW r, IsTracer(r), NEW s, s = Return(r)
  PROVE  /\ IsTracer(s) /\ Rest(r, s)
         /\ s.op = "none" /\ s.at = "none" /\ s.val = 0 /\ s.cnt = 0 /\ s.mem = None
         /\ s.orig = 0
<1>1. s = [op |-> "none", at |-> "none", val |-> 0, cnt |-> 0, mem |-> None,
       orig |-> 0, attached_to |-> r.attached_to, resolved |-> r.resolved,
       uprobes |-> r.uprobes, events |-> r.events, added |-> r.added,
       pid_stat |-> r.pid_stat, asked |-> r.asked, seen |-> r.seen, undone |-> r.undone]
  BY Zenon DEF IsTracer, Return
<1> QED BY <1>1 DEF IsTracer, Rest

\* attached_to_ is set.
LEMMA AttachedFields ==
  ASSUME NEW r, IsTracer(r), NEW x, NEW s, s = [r EXCEPT !.attached_to = x]
  PROVE  /\ IsTracer(s) /\ Locals(r, s) /\ s.attached_to = x
         /\ s.resolved = r.resolved /\ s.uprobes = r.uprobes /\ s.events = r.events /\ s.added = r.added
         /\ s.pid_stat = r.pid_stat /\ s.asked = r.asked /\ s.seen = r.seen /\ s.undone = r.undone
<1>1. s = [op |-> r.op, at |-> r.at, val |-> r.val, cnt |-> r.cnt, mem |-> r.mem,
         orig |-> r.orig, attached_to |-> x, resolved |-> r.resolved, uprobes |-> r.uprobes,
         events |-> r.events, added |-> r.added, pid_stat |-> r.pid_stat,
         asked |-> r.asked, seen |-> r.seen, undone |-> r.undone]
  BY Zenon DEF IsTracer
<1> QED BY <1>1, Zenon DEF IsTracer, Locals

\* What addsem_probe added is set.
LEMMA AddedFields ==
  ASSUME NEW r, IsTracer(r), NEW x, NEW s, s = [r EXCEPT !.added = x]
  PROVE  /\ IsTracer(s) /\ Locals(r, s) /\ s.added = x
         /\ s.attached_to = r.attached_to /\ s.resolved = r.resolved /\ s.uprobes = r.uprobes /\ s.events = r.events
         /\ s.pid_stat = r.pid_stat /\ s.asked = r.asked /\ s.seen = r.seen /\ s.undone = r.undone
<1>1. s = [op |-> r.op, at |-> r.at, val |-> r.val, cnt |-> r.cnt, mem |-> r.mem,
         orig |-> r.orig, attached_to |-> r.attached_to, resolved |-> r.resolved, uprobes |-> r.uprobes,
         events |-> r.events, added |-> x, pid_stat |-> r.pid_stat,
         asked |-> r.asked, seen |-> r.seen, undone |-> r.undone]
  BY Zenon DEF IsTracer
<1> QED BY <1>1, Zenon DEF IsTracer, Locals

\* The address is set.
LEMMA ResolvedFields ==
  ASSUME NEW r, IsTracer(r), NEW x, NEW s, s = [r EXCEPT !.resolved = x]
  PROVE  /\ IsTracer(s) /\ Locals(r, s) /\ s.resolved = x
         /\ s.attached_to = r.attached_to /\ s.uprobes = r.uprobes /\ s.events = r.events /\ s.added = r.added
         /\ s.pid_stat = r.pid_stat /\ s.asked = r.asked /\ s.seen = r.seen /\ s.undone = r.undone
<1>1. s = [op |-> r.op, at |-> r.at, val |-> r.val, cnt |-> r.cnt, mem |-> r.mem,
         orig |-> r.orig, attached_to |-> r.attached_to, resolved |-> x, uprobes |-> r.uprobes,
         events |-> r.events, added |-> r.added, pid_stat |-> r.pid_stat,
         asked |-> r.asked, seen |-> r.seen, undone |-> r.undone]
  BY Zenon DEF IsTracer
<1> QED BY <1>1, Zenon DEF IsTracer, Locals

\* Ask: what is_stale remembers.
LEMMA AskFields ==
  ASSUME NEW r, IsTracer(r), NEW s, s = Ask(r)
  PROVE  /\ IsTracer(s) /\ Locals(r, s)
         /\ s.attached_to = r.attached_to /\ s.resolved = r.resolved
         /\ s.uprobes = r.uprobes /\ s.events = r.events /\ s.added = r.added
         /\ s.undone = r.undone
         /\ s.pid_stat = AfterStale(r.pid_stat, Running) /\ s.seen = proc
         /\ s.asked = IF AskRoot(r.pid_stat, Running) /\ r.asked < 2 THEN r.asked + 1
                                                                     ELSE r.asked
<1> DEFINE stat == AfterStale(r.pid_stat, Running)
           n == IF AskRoot(r.pid_stat, Running) /\ r.asked < 2 THEN r.asked + 1 ELSE r.asked
<1>1. s = [r EXCEPT !.pid_stat = stat, !.seen = proc, !.asked = n]
  BY Zenon DEF Ask
<1> HIDE DEF stat, n
<1>2. s = [op |-> r.op, at |-> r.at, val |-> r.val, cnt |-> r.cnt, mem |-> r.mem,
       orig |-> r.orig, attached_to |-> r.attached_to, resolved |-> r.resolved,
       uprobes |-> r.uprobes, events |-> r.events, added |-> r.added,
       pid_stat |-> stat, asked |-> n, seen |-> proc, undone |-> r.undone]
  BY <1>1, Zenon DEF IsTracer
<1>3. /\ IsTracer(s) /\ Locals(r, s)
      /\ s.attached_to = r.attached_to /\ s.resolved = r.resolved
      /\ s.uprobes = r.uprobes /\ s.events = r.events /\ s.added = r.added
      /\ s.undone = r.undone /\ s.pid_stat = stat /\ s.seen = proc /\ s.asked = n
  BY <1>2 DEF IsTracer, Locals
<1> QED BY <1>3, Zenon DEF stat, n

EnabledIs(r, op, s) ==
  /\ IsTracer(s) /\ s.attached_to = TRUE
  /\ s.resolved = r.resolved /\ s.uprobes = r.uprobes
  /\ s.events = r.events /\ s.added = r.added /\ s.pid_stat = r.pid_stat
  /\ s.asked = r.asked /\ s.seen = r.seen /\ s.undone = r.undone
  /\ s.mem = None /\ s.orig = 0
  /\ op = "enable" => s.op = "none" /\ s.at = "none" /\ s.val = 0 /\ s.cnt = 0
  /\ op = "attach" => s.op = "attach" /\ s.at = "locs" /\ s.val = 1 /\ s.cnt = r.cnt

\* enable ends, in the call it was made for.
LEMMA EnabledFields ==
  ASSUME NEW r, IsTracer(r), NEW op \in {"enable", "attach"}, NEW s, s = Enabled(r, op)
  PROVE  EnabledIs(r, op, s)
<1>0. PICK e : e = [r EXCEPT !.attached_to = TRUE]
  BY Zenon
<1>1. /\ IsTracer(e) /\ Locals(r, e) /\ e.attached_to = TRUE
      /\ e.resolved = r.resolved /\ e.uprobes = r.uprobes
      /\ e.events = r.events /\ e.added = r.added /\ e.pid_stat = r.pid_stat
      /\ e.asked = r.asked /\ e.seen = r.seen /\ e.undone = r.undone
  BY <1>0, AttachedFields
<1>2. /\ op = "enable" => s = Return(e)
      /\ op = "attach" => s = [Goto(e, "attach", "locs", 1) EXCEPT !.mem = None, !.orig = 0]
  BY <1>0, Zenon DEF Enabled
<1>3. CASE op = "enable"
  BY <1>1, <1>2, <1>3, ReturnFields DEF Rest, EnabledIs
<1>4. CASE op = "attach"
  <2>1. PICK g : g = Goto(e, "attach", "locs", 1)
    BY Zenon
  <2>2. /\ IsTracer(g) /\ Rest(e, g) /\ g.op = "attach" /\ g.at = "locs" /\ g.val = 1
        /\ g.cnt = e.cnt
    BY <1>1, <2>1, GotoFields
  <2>3. s = [g EXCEPT !.mem = None, !.orig = 0]
    BY <1>2, <1>4, <2>1, Zenon
  <2>4. s = [op |-> g.op, at |-> g.at, val |-> g.val, cnt |-> g.cnt, mem |-> None,
         orig |-> 0, attached_to |-> g.attached_to, resolved |-> g.resolved,
         uprobes |-> g.uprobes, events |-> g.events, added |-> g.added,
         pid_stat |-> g.pid_stat, asked |-> g.asked, seen |-> g.seen, undone |-> g.undone]
    BY <2>2, <2>3, Zenon DEF IsTracer
  <2>5. /\ IsTracer(s) /\ Rest(g, s) /\ s.op = g.op /\ s.at = g.at /\ s.val = g.val
        /\ s.cnt = g.cnt /\ s.mem = None /\ s.orig = 0
    BY <2>4 DEF IsTracer, Rest
  <2> QED BY <1>1, <1>4, <2>2, <2>5 DEF Rest, Locals, EnabledIs
<1> QED BY <1>3, <1>4, Zenon

DisableIs(r, op, s) ==
  /\ IsTracer(s) /\ s.attached_to = FALSE
  /\ s.resolved = r.resolved /\ s.uprobes = r.uprobes
  /\ s.events = r.events /\ s.added = r.added /\ s.pid_stat = r.pid_stat
  /\ s.asked = r.asked /\ s.seen = r.seen /\ s.undone = r.undone
  /\ r.attached_to /\ need_enable =>
       /\ s.op = op /\ s.at = "add" /\ s.val = -1
       /\ s.cnt = r.cnt /\ s.mem = r.mem /\ s.orig = r.orig
  /\ ~(r.attached_to /\ need_enable) =>
       /\ s.op = "none" /\ s.at = "none" /\ s.val = 0 /\ s.cnt = 0 /\ s.mem = None
       /\ s.orig = 0

\* disable: the increment is to be taken back, or there is none.
LEMMA DisableFields ==
  ASSUME NEW r, IsTracer(r), NEW op, NEW s, s = DisableProbe(r, op)
  PROVE  DisableIs(r, op, s)
<1>0. PICK e : e = [r EXCEPT !.attached_to = FALSE]
  BY Zenon
<1>1. /\ IsTracer(e) /\ Locals(r, e) /\ e.attached_to = FALSE
      /\ e.resolved = r.resolved /\ e.uprobes = r.uprobes
      /\ e.events = r.events /\ e.added = r.added /\ e.pid_stat = r.pid_stat
      /\ e.asked = r.asked /\ e.seen = r.seen /\ e.undone = r.undone
  BY <1>0, AttachedFields
<1>2. s = IF r.attached_to /\ need_enable THEN Goto(e, op, "add", -1) ELSE Return(e)
  BY <1>0, Zenon DEF DisableProbe
<1>3. CASE r.attached_to /\ need_enable
  BY <1>1, <1>2, <1>3, GotoFields DEF Rest, Locals, DisableIs
<1>4. CASE ~(r.attached_to /\ need_enable)
  BY <1>1, <1>2, <1>4, ReturnFields DEF Rest, DisableIs
<1> QED BY <1>3, <1>4, Zenon

\* The address is resolved once.
LEMMA ResolveFields ==
  ASSUME NEW r, IsTracer(r), NEW s, s = Resolve(r)
  PROVE  /\ IsTracer(s) /\ Locals(r, s)
         /\ s.resolved = (IF r.resolved = None THEN proc ELSE r.resolved)
         /\ s.attached_to = r.attached_to /\ s.added = r.added
         /\ s.uprobes = r.uprobes /\ s.events = r.events /\ s.pid_stat = r.pid_stat
         /\ s.asked = r.asked /\ s.seen = r.seen /\ s.undone = r.undone
<1>1. PICK x : x = IF r.resolved = None THEN proc ELSE r.resolved
  BY Zenon
<1>2. s = [r EXCEPT !.resolved = x]
  BY <1>1, Zenon DEF Resolve
<1>3. /\ IsTracer(s) /\ Locals(r, s) /\ s.resolved = x
      /\ s.attached_to = r.attached_to /\ s.added = r.added
      /\ s.uprobes = r.uprobes /\ s.events = r.events /\ s.pid_stat = r.pid_stat
      /\ s.asked = r.asked /\ s.seen = r.seen /\ s.undone = r.undone
  BY <1>2, ResolvedFields
<1> QED BY <1>1, <1>3, Zenon

-----------------------------------------------------------------------------
(* Steps of other tracers and of the process.                               *)

\* A step of one tracer leaves the others alone.
LEMMA SetEffect ==
  ASSUME AllOK, NEW t \in Tracers, NEW s, Set(t, s)
  PROVE  /\ tr' = [u \in Tracers |-> tr'[u]] /\ tr'[t] = s
         /\ \A u \in Tracers \ {t} : tr'[u] = tr[u]
BY Zenon DEF AllOK, Set

\* What holds of a tracer's next value now, holds of it next, when nothing but the
\* tracers changes.
LEMMA PrimedOK ==
  ASSUME UNCHANGED <<proc, past, need_enable, ref_ctr>>, NEW u, TracerOK(u, tr'[u])
  PROVE  TracerOK(u, tr[u])'
<1>1. Typed(tr[u])'
  BY Zenon DEF TracerOK, Typed, IsTracer, Known
<1>2. Control(u, tr[u])'
  BY Zenon DEF TracerOK, Control
<1>3. AtSem(tr[u])'
  BY Zenon DEF TracerOK, AtSem
<1>4. Located(tr[u])'
  BY Zenon DEF TracerOK, Located
<1>5. Progress(tr[u])'
  BY Zenon DEF TracerOK, Progress
<1>6. Checked(u, tr[u])'
  BY Zenon DEF TracerOK, Checked
<1> QED BY <1>1, <1>2, <1>3, <1>4, <1>5, <1>6, Zenon DEF TracerOK

\* A step of one tracer leaves the others as they are.
LEMMA OneTracer ==
  ASSUME AllOK, NEW t \in Tracers, NEW s, Set(t, s), TracerOK(t, s), UNCHANGED world
  PROVE  AllOK'
<1>1. UNCHANGED <<proc, past, need_enable, ref_ctr>>
  BY Zenon DEF world, kernel
<1>2. /\ tr' = [u \in Tracers |-> tr'[u]] /\ tr'[t] = s
      /\ \A u \in Tracers \ {t} : tr'[u] = tr[u]
  BY SetEffect, Zenon
<1>3. ASSUME NEW u \in Tracers PROVE TracerOK(u, tr'[u])
  BY <1>2, Zenon DEF AllOK
<1>4. ASSUME NEW u \in Tracers PROVE TracerOK(u, tr[u])'
  BY <1>1, <1>3, PrimedOK, Zenon
<1> QED BY <1>2, <1>4, Zenon DEF AllOK

\* The process exits, or another gets the pid.
LEMMA OtherProcess ==
  ASSUME World, AllOK, Exit \/ \E p \in Procs : Start(p)
  PROVE  World' /\ AllOK'
<1>1. UNCHANGED <<need_enable, ref_ctr, tr, faults>> /\ Known \subseteq Known'
  BY Zenon DEF Exit, Start, kernel, Known, Alive
<1>2. World'
  BY <1>1, UsdtAssumption, Zenon DEF World, Exit, Start, Alive, None
<1>3. ASSUME NEW t, NEW r, TracerOK(t, r) PROVE TracerOK(t, r)'
  <2>1. Typed(r)'
    BY <1>1, <1>3, Zenon DEF TracerOK, Typed, IsTracer
  <2>2. Control(t, r)' /\ AtSem(r)'
    BY <1>1, <1>3, Zenon DEF TracerOK, Control, AtSem
  <2>3. Located(r)' /\ Progress(r)' /\ Checked(t, r)'
    BY <1>1, <1>3, Zenon DEF TracerOK, Located, Progress, Checked
  <2> QED BY <2>1, <2>2, <2>3, Zenon DEF TracerOK
<1> QED BY <1>1, <1>2, <1>3, Zenon DEF AllOK

-----------------------------------------------------------------------------
(* What a tracer may become.                                                *)

\* A probe has a location.
LEMMA SomeLocs == NLocs \in Nat \ {0}
BY UsdtAssumption, Zenon

\* A tracer that has not started, or is gone, is well formed.
LEMMA DeadOK == ASSUME World, NEW t PROVE TracerOK(t, Dead) /\ TracerOK(t, NewTracer)
<1>1. ASSUME NEW r, Fresh(r), r.op \in {"none", "dead"} PROVE TracerOK(t, r)
  <2>0. Typed(r)
    <3>1. /\ r.attached_to \in BOOLEAN /\ r.undone \in BOOLEAN /\ IsTracer(r)
      BY <1>1, Zenon DEF Fresh
    <3>2. /\ r.mem \in Known /\ r.resolved \in Known /\ r.uprobes \subseteq Locs
          /\ r.events \subseteq Locs \X (Known \ {None})
          /\ \A e \in r.events : e[1] \in r.uprobes
      BY <1>1, Zenon DEF Fresh, Known
    <3>3. r.val \in Int /\ r.cnt \in Int /\ r.orig \in Int /\ r.added \in {0, 1}
      BY <1>1 DEF Fresh
    <3> QED BY <3>1, <3>2, <3>3, Zenon DEF Typed
  <2>1. Control(t, r) /\ AtSem(r)
    BY <1>1 DEF Fresh, Control, AtSem
  <2>2. Located(r) /\ Progress(r)
    BY <1>1, SomeLocs DEF Fresh, Located, Progress
  <2>3. Checked(t, r)
    BY <1>1 DEF Fresh, Checked, Remember
  <2> QED BY <2>0, <2>1, <2>2, <2>3, Zenon DEF TracerOK
<1> QED BY <1>1, NewFields, Zenon

\* All locations or none, and those of an enabled probe.
Whole(r) == ~r.undone => /\ r.uprobes \in {{}, Locs}
                         /\ ~ref_ctr /\ r.uprobes # {} => r.attached_to

\* A call that returns leaves a well-formed tracer.
LEMMA ReturnOK ==
  ASSUME World, NEW t, NEW r, TracerOK(t, r), Whole(r)
  PROVE  TracerOK(t, Return(r))
<1>1. PICK s : s = Return(r)
  BY Zenon
<1>2. /\ IsTracer(s) /\ Rest(r, s)
      /\ s.op = "none" /\ s.at = "none" /\ s.val = 0 /\ s.cnt = 0 /\ s.mem = None
      /\ s.orig = 0
  BY <1>1, ReturnFields, Zenon DEF TracerOK, Typed
<1>3. Typed(s) /\ Control(t, s) /\ AtSem(s)
  BY <1>2 DEF TracerOK, Typed, Known, Control, AtSem, Rest
<1>4. Located(s) /\ Progress(s) /\ Checked(t, s)
  BY <1>2, SomeLocs DEF TracerOK, Located, Progress, Checked, Rest, Whole
<1> QED BY <1>1, <1>3, <1>4, Zenon DEF TracerOK

\* At the semaphore, and when no call is in progress, the locations are whole.
LEMMA WholeAtSem ==
  ASSUME NEW t \in Tracers, NEW r, TracerOK(t, r), r.op # "dead",
         r.at \in {"none", "add", "write"}
  PROVE  Whole(r)
<1>1. t \in Contexts \/ t \in Objects
  BY Zenon DEF Tracers
<1> QED BY <1>1, Zenon DEF TracerOK, Control, Progress, Whole

\* After is_stale has answered that it is not, the process has the executable or
\* the namespace of the first, or is_stale had looked before.
SeenOK(r) == \/ r.seen = None \/ r.asked > 1
             \/ r.seen.exe = First.exe \/ r.seen.ns = First.ns

\* So does one that asks whether the process is stale; and what the answer that it
\* is not says of the process.
LEMMA AskOK ==
  ASSUME World, NEW t, NEW r, TracerOK(t, r), r.op = "none"
  PROVE  /\ TracerOK(t, Ask(r))
         /\ \A junk \in BOOLEAN : ~Stale(r, junk) => SeenOK(Ask(r))
<1>1. PICK s : s = Ask(r)
  BY Zenon
<1>2. /\ IsTracer(s) /\ Locals(r, s)
      /\ s.attached_to = r.attached_to /\ s.resolved = r.resolved
      /\ s.uprobes = r.uprobes /\ s.events = r.events /\ s.added = r.added
      /\ s.undone = r.undone
      /\ s.pid_stat = AfterStale(r.pid_stat, Running) /\ s.seen = proc
      /\ s.asked = IF AskRoot(r.pid_stat, Running) /\ r.asked < 2 THEN r.asked + 1
                                                                  ELSE r.asked
  BY <1>1, AskFields, Zenon DEF TracerOK, Typed
<1>3. r.at = "none" /\ Checked(t, r)
  BY Zenon DEF TracerOK, Control
<1>4. /\ s.pid_stat = [exe |-> First.exe, ns |-> s.pid_stat.ns]
      /\ ~AskRoot(r.pid_stat, Running) => s.pid_stat = r.pid_stat
  BY <1>2, <1>3 DEF Checked, AfterStale
<1>5. Checked(t, s)
  BY <1>2, <1>3, <1>4 DEF Checked, Locals
<1>6. Typed(s) /\ Control(t, s) /\ AtSem(s) /\ Located(s) /\ Progress(s)
  BY <1>2, <1>3, Zenon DEF TracerOK, Typed, Control, AtSem, Located, Progress, Locals
<1>7. ASSUME NEW junk \in BOOLEAN, ~Stale(r, junk) PROVE SeenOK(s)
  <2>1. CASE ~Alive
    BY <1>2, <2>1, Zenon DEF SeenOK, Alive
  <2>2. CASE Alive /\ ~AskRoot(r.pid_stat, Running)
    <3>1. Running = proc /\ proc \in Procs
      BY <2>2, Zenon DEF Running, World, Alive
    <3>2. proc.exe = First.exe
      BY <1>3, <2>2, <3>1, UsdtAssumption DEF AskRoot, Checked
    <3> QED BY <1>2, <3>2, Zenon DEF SeenOK
  <2>3. CASE Alive /\ AskRoot(r.pid_stat, Running)
    <3>1. proc.ns = r.pid_stat.ns
      BY <1>7, <2>3, Zenon DEF Running, Stale, is_stale
    <3>2. r.asked = 0 => proc.ns = First.ns
      BY <1>3, <3>1, Zenon DEF Checked
    <3>3. r.asked # 0 => s.asked > 1
      BY <1>2, <1>3, <2>3 DEF Checked
    <3> QED BY <1>2, <3>2, <3>3, Zenon DEF SeenOK
  <2> QED BY <2>1, <2>2, <2>3, Zenon
<1> QED BY <1>1, <1>5, <1>6, <1>7, Zenon DEF TracerOK

\* So does disable, once the semaphore is written or given up.
LEMMA DisabledOK ==
  ASSUME World, NEW t \in Tracers, NEW r, TracerOK(t, r), r.at \in {"add", "write"}
  PROVE  TracerOK(t, Disabled(r))
<1>1. Whole(r)
  BY WholeAtSem, Zenon DEF TracerOK, Control
<1>2. Disabled(r) = Dead \/ Disabled(r) = Return(r)
  BY Zenon DEF Disabled, Dead
<1> QED BY <1>1, <1>2, DeadOK, ReturnOK, Zenon

\* So does the resolution of the semaphore's address.
LEMMA ResolveOK ==
  ASSUME World, NEW t, NEW r, TracerOK(t, r)
  PROVE  TracerOK(t, Resolve(r))
<1>1. PICK s : s = Resolve(r)
  BY Zenon
<1>2. /\ IsTracer(s) /\ Locals(r, s)
      /\ s.resolved = (IF r.resolved = None THEN proc ELSE r.resolved)
      /\ s.attached_to = r.attached_to /\ s.added = r.added
      /\ s.uprobes = r.uprobes /\ s.events = r.events /\ s.pid_stat = r.pid_stat
      /\ s.asked = r.asked /\ s.seen = r.seen /\ s.undone = r.undone
  BY <1>1, ResolveFields, Zenon DEF TracerOK, Typed
<1>3. s.resolved \in Known /\ (r.resolved # None => s.resolved # None)
  BY <1>2, Zenon DEF TracerOK, Typed, Known
<1>4. Typed(s) /\ Control(t, s) /\ AtSem(s)
  BY <1>2, <1>3, Zenon DEF TracerOK, Typed, Control, AtSem, Locals
<1>5. Located(s) /\ Progress(s) /\ Checked(t, s)
  BY <1>2 DEF TracerOK, Located, Progress, Checked, Locals
<1> QED BY <1>1, <1>4, <1>5, Zenon DEF TracerOK

\* enable, in the call it is made for.
LEMMA EnabledOK ==
  ASSUME World, NEW t \in Tracers, NEW r, TracerOK(t, r),
         NEW op \in {"enable", "attach"}, need_enable => r.resolved # None,
         op = "attach" => /\ t \in Objects /\ ~ref_ctr /\ (~r.undone => r.uprobes = {}),
         op = "enable" => t \in Contexts
  PROVE  TracerOK(t, Enabled(r, op))
<1>1. PICK s : s = Enabled(r, op)
  BY Zenon
<1>2. /\ IsTracer(s) /\ s.attached_to = TRUE
      /\ s.resolved = r.resolved /\ s.uprobes = r.uprobes
      /\ s.events = r.events /\ s.added = r.added /\ s.pid_stat = r.pid_stat
      /\ s.asked = r.asked /\ s.seen = r.seen /\ s.undone = r.undone
      /\ s.mem = None /\ s.orig = 0
      /\ op = "enable" => s.op = "none" /\ s.at = "none" /\ s.val = 0 /\ s.cnt = 0
      /\ op = "attach" => s.op = "attach" /\ s.at = "locs" /\ s.val = 1 /\ s.cnt = r.cnt
  <2>1. IsTracer(r)
    BY Zenon DEF TracerOK, Typed
  <2>2. EnabledIs(r, op, s)
    BY <1>1, <2>1, EnabledFields, Zenon
  <2> QED BY <2>2, Zenon DEF EnabledIs
<1>3. Typed(s)
  <2>1. s.attached_to \in BOOLEAN
    BY <1>2, Zenon
  <2>2. s.val \in Int /\ s.cnt \in Int /\ s.orig \in Int
    BY <1>2 DEF TracerOK, Typed
  <2> QED BY <1>2, <2>1, <2>2, Zenon DEF TracerOK, Typed, Known
<1>4. ~(t \in Contexts /\ t \in Objects)
  BY UsdtAssumption, Zenon
<1>5. Control(t, s) /\ AtSem(s)
  BY <1>2, <1>4, Zenon DEF TracerOK, Control, AtSem
<1>6. Located(s)
  <2>1. s.cnt \in 0..NLocs
    BY <1>2, UsdtAssumption DEF TracerOK, Located
  <2> QED BY <1>2, <2>1, UsdtAssumption DEF Located
<1>7. Progress(s)
  <2>1. CASE op = "enable"
    BY <1>2, <2>1, Zenon DEF TracerOK, Control, Progress
  <2>2. CASE op = "attach"
    <3>1. 1..(s.val - 1) = {}
      BY <1>2, <2>2
    <3>2. ~s.undone => s.uprobes = {}
      BY <1>2, <2>2, Zenon
    <3> QED BY <1>2, <2>2, <3>1, <3>2, Zenon DEF Progress
  <2> QED BY <2>1, <2>2, Zenon
<1>8. Checked(t, s)
  BY <1>2, Zenon DEF TracerOK, Checked
<1> QED BY <1>1, <1>3, <1>5, <1>6, <1>7, <1>8, Zenon DEF TracerOK

\* The semaphore is read; the address is resolved.
LEMMA ReadOK ==
  ASSUME World, NEW t \in Tracers, TracerOK(t, tr[t]), SemOK, ReadSem(t)
  PROVE  \E s : Set(t, s) /\ TracerOK(t, s)
<1>1. PICK r : r = Resolve(tr[t])
  BY Zenon
<1>2. PICK o : o = IF r.resolved = proc THEN sem ELSE 0
  BY Zenon
<1>3. PICK s : s = [r EXCEPT !.at = "write", !.mem = proc, !.orig = o]
  BY Zenon
<1>4. TracerOK(t, r) /\ Locals(tr[t], r) /\ r.at = "add" /\ Alive
      /\ r.resolved = (IF tr[t].resolved = None THEN proc ELSE tr[t].resolved)
  BY <1>1, ResolveOK, ResolveFields DEF ReadSem, At, TracerOK, Typed, Locals
<1>5. s = [op |-> r.op, at |-> "write", val |-> r.val, cnt |-> r.cnt, mem |-> proc,
       orig |-> o, attached_to |-> r.attached_to, resolved |-> r.resolved,
       uprobes |-> r.uprobes, events |-> r.events, added |-> r.added,
       pid_stat |-> r.pid_stat, asked |-> r.asked, seen |-> r.seen, undone |-> r.undone]
  BY <1>3, <1>4, Zenon DEF TracerOK, Typed, IsTracer
<1>6. /\ IsTracer(s) /\ Rest(r, s) /\ s.op = r.op /\ s.at = "write" /\ s.val = r.val
      /\ s.cnt = r.cnt /\ s.mem = proc /\ s.orig = o
  BY <1>5, Zenon DEF IsTracer, Rest
<1>7. o \in Int /\ proc # None /\ r.resolved # None
  BY <1>2, <1>4 DEF SemOK, Alive
<1>8. Typed(s) /\ Control(t, s) /\ AtSem(s)
  BY <1>4, <1>6, <1>7, Zenon DEF TracerOK, Typed, Known, Control, AtSem, Rest
<1>9. Located(s) /\ Progress(s) /\ Checked(t, s)
  BY <1>4, <1>6, Zenon DEF TracerOK, Located, Progress, Checked, Rest
<1>10. Set(t, s)
  BY <1>1, <1>2, <1>3, Zenon DEF ReadSem
<1> QED BY <1>8, <1>9, <1>10, Zenon DEF TracerOK

\* It is written: the call goes on.
LEMMA WriteOK ==
  ASSUME World, NEW t \in Tracers, NEW r, TracerOK(t, r), r.at = "write"
  PROVE  TracerOK(t, Added(r))
<1>1. /\ r.op \in {"enable", "attach", "addsem", "detach", "close"} /\ r.resolved # None
      /\ r.op = "attach" => t \in Objects /\ ~ref_ctr /\ (~r.undone => r.uprobes = {})
      /\ r.op \in {"enable", "addsem"} => t \in Contexts
  BY Zenon DEF TracerOK, Control, AtSem, Located, Progress, Tracers
<1>2. CASE r.op \in {"enable", "attach"}
  BY <1>1, <1>2, EnabledOK, Zenon DEF Added
<1>3. CASE r.op = "addsem"
  <2>1. PICK x : x = r.added + r.val
    BY Zenon
  <2>2. PICK e : e = [r EXCEPT !.added = x]
    BY Zenon
  <2>3. PICK s : s = Return(e)
    BY Zenon
  <2>4. Added(r) = s
    BY <1>3, <2>1, <2>2, <2>3, Zenon DEF Added
  <2>5. /\ IsTracer(e) /\ Locals(r, e) /\ e.added = x
        /\ e.attached_to = r.attached_to /\ e.resolved = r.resolved
        /\ e.uprobes = r.uprobes /\ e.events = r.events
        /\ e.pid_stat = r.pid_stat /\ e.asked = r.asked /\ e.seen = r.seen
        /\ e.undone = r.undone
    BY <2>2, AddedFields DEF TracerOK, Typed
  <2>6. /\ IsTracer(s) /\ Rest(e, s)
        /\ s.op = "none" /\ s.at = "none" /\ s.val = 0 /\ s.cnt = 0 /\ s.mem = None
        /\ s.orig = 0
    BY <2>3, <2>5, ReturnFields, Zenon
  <2>7. s.added \in {0, 1}
    BY <1>3, <2>1, <2>5, <2>6, Zenon DEF TracerOK, AtSem, Rest
  <2>8. Typed(s)
    BY <2>5, <2>6, <2>7 DEF TracerOK, Typed, Known, Rest
  <2>9. Control(t, s) /\ AtSem(s) /\ Located(s) /\ Progress(s) /\ Checked(t, s)
    <3>1. t \in Contexts /\ t \notin Objects
      BY <1>1, <1>3, UsdtAssumption, Zenon
    <3> QED BY <1>1, <2>5, <2>6, <2>7, <3>1, SomeLocs
           DEF TracerOK, Control, AtSem, Located, Progress, Checked, Rest
  <2> QED BY <2>4, <2>8, <2>9, Zenon DEF TracerOK
<1>4. CASE r.op \in {"detach", "close"}
  BY <1>4, DisabledOK, Zenon DEF Added
<1> QED BY <1>1, <1>2, <1>3, <1>4, Zenon

\* A call to the semaphore fails.
LEMMA AddFailsOK ==
  ASSUME World, NEW t \in Tracers, TracerOK(t, tr[t]), AddFails(t)
  PROVE  \E s : Set(t, s) /\ TracerOK(t, s)
<1>1. tr[t].at \in {"add", "write"}
      /\ (Set(t, Disabled(tr[t])) \/ Set(t, Disabled(Resolve(tr[t]))))
  BY Zenon DEF AddFails, At
<1>2. TracerOK(t, Resolve(tr[t])) /\ Locals(tr[t], Resolve(tr[t]))
  BY ResolveOK, ResolveFields, Zenon DEF TracerOK, Typed
<1>3. TracerOK(t, Disabled(tr[t])) /\ TracerOK(t, Disabled(Resolve(tr[t])))
  BY <1>1, <1>2, DisabledOK, Zenon DEF Locals
<1> QED BY <1>1, <1>3, Zenon

\* A call of a context begins at the semaphore.
LEMMA GotoAddOK ==
  ASSUME World, NEW t \in Tracers, NEW r, TracerOK(t, r), r.op = "none", need_enable,
         NEW op \in {"enable", "addsem", "attach"}, NEW val \in {-1, 1},
         op = "attach" => t \in Objects /\ ~ref_ctr,
         op # "attach" => t \in Contexts /\ SeenOK(r),
         op # "addsem" => val = 1 /\ ~r.attached_to,
         op = "addsem" => r.added + val \in {0, 1}
  PROVE  TracerOK(t, Goto(r, op, "add", val))
<1>1. PICK s : s = Goto(r, op, "add", val)
  BY Zenon
<1>2. /\ IsTracer(s) /\ Rest(r, s) /\ s.op = op /\ s.at = "add" /\ s.val = val
      /\ s.cnt = r.cnt /\ s.mem = r.mem /\ s.orig = r.orig
  BY <1>1, GotoFields DEF TracerOK, Typed
<1>3. ~(t \in Contexts /\ t \in Objects)
  BY UsdtAssumption, Zenon
<1>4. Typed(s) /\ Control(t, s) /\ AtSem(s)
  BY <1>2, <1>3 DEF TracerOK, Typed, Control, AtSem, Rest
<1>5. Located(s) /\ Checked(t, s)
  BY <1>2, <1>3, Zenon DEF TracerOK, Located, Checked, Rest, SeenOK
<1>6. Progress(s)
  <2>1. CASE op = "attach"
    BY <1>2, <2>1, Zenon DEF TracerOK, Progress, Rest
  <2>2. CASE op # "attach"
    BY <1>2, <2>2, Zenon DEF Progress
  <2> QED BY <2>1, <2>2, Zenon
<1> QED BY <1>1, <1>4, <1>5, <1>6, Zenon DEF TracerOK

\* So does enable when it begins.
LEMMA EnableOK ==
  ASSUME World, NEW t \in Tracers, NEW r, TracerOK(t, r), r.op = "none", ~r.attached_to,
         NEW op \in {"enable", "attach"},
         op = "attach" => t \in Objects /\ ~ref_ctr,
         op = "enable" => t \in Contexts /\ SeenOK(r)
  PROVE  TracerOK(t, EnableProbe(r, op))
<1>1. CASE need_enable
  BY <1>1, GotoAddOK, Zenon DEF EnableProbe
<1>2. CASE ~need_enable
  <2>1. op = "attach" => (~r.undone => r.uprobes = {})
    BY Zenon DEF TracerOK, Progress
  <2>2. TracerOK(t, Enabled(r, op))
    BY <1>2, <2>1, EnabledOK, Zenon
  <2> QED BY <1>2, <2>2, Zenon DEF EnableProbe
<1> QED BY <1>1, <1>2, Zenon

\* Every step of a tracer with a context keeps it well formed.
LEMMA ContextOK ==
  ASSUME World, NEW t \in Contexts, TracerOK(t, tr[t]), Context(t)
  PROVE  \E s : Set(t, s) /\ TracerOK(t, s)
<1>1. PICK r : r = Ask(tr[t])
  BY Zenon
<1>2. PICK junk \in BOOLEAN : \/ enable_probe(t, junk) \/ close(t, junk)
                              \/ \E val \in {-1, 1} : addsem_probe(t, val, junk)
  BY Zenon DEF Context
<1>3. tr[t].op = "none" /\ t \in Tracers
  BY <1>2, Zenon DEF enable_probe, close, addsem_probe, In, Tracers
<1>4. TracerOK(t, r) /\ (~Stale(tr[t], junk) => SeenOK(r)) /\ Locals(tr[t], r)
  BY <1>1, <1>3, AskOK, AskFields, Zenon DEF TracerOK, Typed
<1>5. r.op = "none" /\ r.at = "none"
  BY <1>3, <1>4, Zenon DEF Locals, TracerOK, Control
<1>6. CASE enable_probe(t, junk)
  <2>1. Set(t, IF Stale(tr[t], junk) \/ r.attached_to THEN r ELSE EnableProbe(r, "enable"))
    BY <1>1, <1>6, Zenon DEF enable_probe
  <2>2. CASE Stale(tr[t], junk) \/ r.attached_to
    BY <1>4, <2>1, <2>2, Zenon
  <2>3. CASE ~(Stale(tr[t], junk) \/ r.attached_to)
    BY <1>3, <1>4, <1>5, <2>1, <2>3, EnableOK, Zenon
  <2> QED BY <2>2, <2>3, Zenon
<1>7. ASSUME NEW val \in {-1, 1}, addsem_probe(t, val, junk)
      PROVE  \E s : Set(t, s) /\ TracerOK(t, s)
  <2>1. /\ Set(t, IF Stale(tr[t], junk) THEN r ELSE Goto(r, "addsem", "add", val))
        /\ need_enable /\ r.added + val \in {0, 1}
    BY <1>1, <1>7, Zenon DEF addsem_probe
  <2>2. CASE Stale(tr[t], junk)
    BY <1>4, <2>1, <2>2, Zenon
  <2>3. CASE ~Stale(tr[t], junk)
    BY <1>3, <1>4, <1>5, <2>1, <2>3, GotoAddOK, Zenon
  <2> QED BY <2>2, <2>3, Zenon
<1>8. CASE close(t, junk)
  <2>1. PICK d : d = DisableProbe(r, "close")
    BY Zenon
  <2>2. CASE Stale(tr[t], junk) \/ d.op = "none"
    BY <1>1, <1>8, <2>1, <2>2, DeadOK, Zenon DEF close, TracerGone, Dead
  <2>3. CASE ~(Stale(tr[t], junk) \/ d.op = "none")
    <3>1. PICK s : s = [d EXCEPT !.added = 0]
      BY Zenon
    <3>2. Set(t, s)
      BY <1>1, <1>8, <2>1, <2>3, <3>1, Zenon DEF close
    <3>3. /\ IsTracer(d) /\ d.attached_to = FALSE
          /\ d.resolved = r.resolved /\ d.uprobes = r.uprobes
          /\ d.events = r.events /\ d.added = r.added /\ d.pid_stat = r.pid_stat
          /\ d.asked = r.asked /\ d.seen = r.seen /\ d.undone = r.undone
          /\ r.attached_to /\ need_enable /\ d.op = "close" /\ d.at = "add" /\ d.val = -1
          /\ d.cnt = r.cnt /\ d.mem = r.mem /\ d.orig = r.orig
      <4>1. DisableIs(r, "close", d)
        BY <1>4, <2>1, DisableFields, Zenon DEF TracerOK, Typed
      <4> QED BY <2>3, <4>1, Zenon DEF DisableIs
    <3>4. /\ IsTracer(s) /\ Locals(d, s) /\ s.added = 0
          /\ s.attached_to = d.attached_to /\ s.resolved = d.resolved
          /\ s.uprobes = d.uprobes /\ s.events = d.events
          /\ s.pid_stat = d.pid_stat /\ s.asked = d.asked /\ s.seen = d.seen
          /\ s.undone = d.undone
      BY <3>1, <3>3, AddedFields
    <3>5. t \notin Objects /\ SeenOK(r)
      BY <1>4, <2>3, UsdtAssumption, Zenon
    <3>6. Typed(s)
      <4>1. s.attached_to \in BOOLEAN
        BY <3>3, <3>4, Zenon
      <4>2. s.val \in Int /\ s.added \in {0, 1}
        BY <3>3, <3>4 DEF Locals
      <4>3. /\ s.cnt = r.cnt /\ s.orig = r.orig /\ s.mem = r.mem /\ s.resolved = r.resolved
            /\ s.undone = r.undone /\ s.uprobes = r.uprobes /\ s.events = r.events
        BY <3>3, <3>4, Zenon DEF Locals
      <4>4. Typed(r) /\ IsTracer(s)
        BY <1>4, <3>4, Zenon DEF TracerOK
      <4> QED BY <4>1, <4>2, <4>3, <4>4, Zenon DEF Typed
    <3>7. /\ s.op = "close" /\ s.at = "add" /\ s.val = -1 /\ s.cnt = r.cnt
          /\ s.attached_to = FALSE /\ s.resolved = r.resolved /\ s.added = 0
      BY <3>3, <3>4, Zenon DEF Locals
    <3>8. Control(t, s)
      <4>1. s.uprobes = {} /\ s.events = {}
        BY <1>4, <3>3, <3>4, Zenon DEF TracerOK, Control
      <4> QED BY <3>5, <3>7, <4>1 DEF Control
    <3>9. AtSem(s)
      <4>1. r.resolved # None
        BY <1>4, <3>3, Zenon DEF TracerOK, Control
      <4> QED BY <3>3, <3>7, <4>1 DEF AtSem
    <3>10. Located(s)
      <4>1. s.cnt \in 0..NLocs
        BY <1>4, <3>7, Zenon DEF TracerOK, Located
      <4> QED BY <3>7, <4>1 DEF Located
    <3>11. Progress(s)
      BY <3>7 DEF Progress
    <3>12. Checked(t, s)
      <4>1. /\ s.pid_stat = r.pid_stat /\ s.asked = r.asked /\ s.seen = r.seen
        BY <3>3, <3>4, Zenon
      <4> QED BY <1>4, <3>5, <4>1, Zenon DEF TracerOK, Checked, SeenOK
    <3> QED BY <3>2, <3>6, <3>8, <3>9, <3>10, <3>11, <3>12, Zenon DEF TracerOK
  <2> QED BY <2>2, <2>3, Zenon
<1> QED BY <1>2, <1>6, <1>7, <1>8, Zenon

-----------------------------------------------------------------------------
(* The locations of an object.                                              *)

LocIs(r, s, val, uprobes, events, undone) ==
  /\ IsTracer(s) /\ s.val = val /\ s.uprobes = uprobes /\ s.events = events
  /\ s.undone = undone /\ s.op = r.op /\ s.at = r.at /\ s.cnt = r.cnt /\ s.mem = r.mem
  /\ s.orig = r.orig /\ s.attached_to = r.attached_to /\ s.resolved = r.resolved
  /\ s.added = r.added /\ s.pid_stat = r.pid_stat /\ s.asked = r.asked /\ s.seen = r.seen

\* Changes of the locations one after the other.
LEMMA LocFields ==
  ASSUME NEW r, IsTracer(r), NEW val, NEW us, NEW es, NEW r1, r1 = [r EXCEPT !.val = val],
         NEW r2, r2 = [r1 EXCEPT !.events = es], NEW r3, r3 = [r2 EXCEPT !.uprobes = us],
         NEW r4, r4 = [r2 EXCEPT !.undone = TRUE], NEW r5, r5 = [r1 EXCEPT !.undone = TRUE]
  PROVE  /\ LocIs(r, r1, val, r.uprobes, r.events, r.undone)
         /\ LocIs(r, r2, val, r.uprobes, es, r.undone)
         /\ LocIs(r, r3, val, us, es, r.undone)
         /\ LocIs(r, r4, val, r.uprobes, es, TRUE)
         /\ LocIs(r, r5, val, r.uprobes, r.events, TRUE)
<1>1. ASSUME NEW q, NEW v, NEW u, NEW e, NEW b,
             q = [op |-> r.op, at |-> r.at, val |-> v, cnt |-> r.cnt, mem |-> r.mem,
                  orig |-> r.orig, attached_to |-> r.attached_to, resolved |-> r.resolved,
                  uprobes |-> u, events |-> e, added |-> r.added, pid_stat |-> r.pid_stat,
                  asked |-> r.asked, seen |-> r.seen, undone |-> b]
      PROVE  LocIs(r, q, v, u, e, b)
  BY <1>1, Zenon DEF IsTracer, LocIs
<1>2. r1 = [op |-> r.op, at |-> r.at, val |-> val, cnt |-> r.cnt, mem |-> r.mem,
            orig |-> r.orig, attached_to |-> r.attached_to, resolved |-> r.resolved,
            uprobes |-> r.uprobes, events |-> r.events, added |-> r.added,
            pid_stat |-> r.pid_stat, asked |-> r.asked, seen |-> r.seen, undone |-> r.undone]
  BY Zenon DEF IsTracer
<1>3. r2 = [op |-> r.op, at |-> r.at, val |-> val, cnt |-> r.cnt, mem |-> r.mem,
            orig |-> r.orig, attached_to |-> r.attached_to, resolved |-> r.resolved,
            uprobes |-> r.uprobes, events |-> es, added |-> r.added,
            pid_stat |-> r.pid_stat, asked |-> r.asked, seen |-> r.seen, undone |-> r.undone]
  BY <1>2, Zenon
<1>4. r3 = [op |-> r.op, at |-> r.at, val |-> val, cnt |-> r.cnt, mem |-> r.mem,
            orig |-> r.orig, attached_to |-> r.attached_to, resolved |-> r.resolved,
            uprobes |-> us, events |-> es, added |-> r.added,
            pid_stat |-> r.pid_stat, asked |-> r.asked, seen |-> r.seen, undone |-> r.undone]
  BY <1>3, Zenon
<1>5. r4 = [op |-> r.op, at |-> r.at, val |-> val, cnt |-> r.cnt, mem |-> r.mem,
            orig |-> r.orig, attached_to |-> r.attached_to, resolved |-> r.resolved,
            uprobes |-> r.uprobes, events |-> es, added |-> r.added,
            pid_stat |-> r.pid_stat, asked |-> r.asked, seen |-> r.seen, undone |-> TRUE]
  BY <1>3, Zenon
<1>6. r5 = [op |-> r.op, at |-> r.at, val |-> val, cnt |-> r.cnt, mem |-> r.mem,
            orig |-> r.orig, attached_to |-> r.attached_to, resolved |-> r.resolved,
            uprobes |-> r.uprobes, events |-> r.events, added |-> r.added,
            pid_stat |-> r.pid_stat, asked |-> r.asked, seen |-> r.seen, undone |-> TRUE]
  BY <1>2, Zenon
<1> QED BY <1>1, <1>2, <1>3, <1>4, <1>5, <1>6, Zenon

\* detach_uprobe at a location, with its effect on the semaphore.
DetachIs(r, s, l, next) ==
  LET es == EventsAt(r, l)
  IN  \/ /\ l \in r.uprobes /\ UNCHANGED faults /\ sem' = sem - KernelCounts(es)
         /\ LocIs(r, s, next, r.uprobes \ {l}, r.events \ es, r.undone)
      \/ /\ l \in r.uprobes /\ Fault /\ sem' = sem - KernelCounts(es)
         /\ LocIs(r, s, next, r.uprobes, r.events \ es, TRUE)
      \/ /\ Fault /\ UNCHANGED sem
         /\ LocIs(r, s, next, r.uprobes, r.events, TRUE)
      \/ /\ l \notin r.uprobes /\ UNCHANGED <<sem, faults>>
         /\ LocIs(r, s, next, r.uprobes, r.events, r.undone)

\* Which fields closing one location changes.
LEMMA DetachOneFields ==
  ASSUME NEW t, IsTracer(tr[t]), NEW l, NEW next, DetachOne(t, l, next)
  PROVE  \E s : Set(t, s) /\ DetachIs(tr[t], s, l, next)
<1>1. PICK r : r = tr[t]
  BY Zenon
<1>2. PICK es : es = EventsAt(r, l)
  BY Zenon
<1>3. PICK r1 : r1 = [r EXCEPT !.val = next]
  BY Zenon
<1>4. PICK r2 : r2 = [r1 EXCEPT !.events = r.events \ es]
  BY Zenon
<1>5. PICK r3 : r3 = [r2 EXCEPT !.uprobes = r.uprobes \ {l}]
  BY Zenon
<1>6. PICK r4 : r4 = [r2 EXCEPT !.undone = TRUE]
  BY Zenon
<1>7. PICK r5 : r5 = [r1 EXCEPT !.undone = TRUE]
  BY Zenon
<1>8. /\ LocIs(r, r1, next, r.uprobes, r.events, r.undone)
      /\ LocIs(r, r2, next, r.uprobes, r.events \ es, r.undone)
      /\ LocIs(r, r3, next, r.uprobes \ {l}, r.events \ es, r.undone)
      /\ LocIs(r, r4, next, r.uprobes, r.events \ es, TRUE)
      /\ LocIs(r, r5, next, r.uprobes, r.events, TRUE)
  BY <1>1, <1>3, <1>4, <1>5, <1>6, <1>7, LocFields
<1>9. r1.uprobes = r.uprobes /\ r1.events = r.events /\ r2.uprobes = r.uprobes
  BY <1>8, Zenon DEF LocIs
<1>10. EventsAt(r1, l) = es
  BY <1>2, <1>9, Zenon DEF EventsAt
<1>11. /\ r2 = [r1 EXCEPT !.events = @ \ EventsAt(r1, l)]
       /\ r3 = [r2 EXCEPT !.uprobes = @ \ {l}]
  BY <1>4, <1>5, <1>9, <1>10, Zenon
<1>12. \/ l \in r1.uprobes /\ UNCHANGED faults /\ sem' = sem - KernelCounts(es) /\ Set(t, r3)
       \/ l \in r1.uprobes /\ Fault /\ sem' = sem - KernelCounts(es) /\ Set(t, r4)
       \/ l \in r1.uprobes /\ Fault /\ UNCHANGED sem /\ Set(t, r5)
       \/ l \notin r1.uprobes /\ UNCHANGED <<sem, faults>> /\ Set(t, r1)
  BY <1>1, <1>3, <1>6, <1>7, <1>10, <1>11, Zenon DEF DetachOne
<1> QED BY <1>1, <1>2, <1>8, <1>9, <1>12, Zenon DEF DetachIs

\* detach_uprobe at the next location of a clean-up or of detach_usdt.
LEMMA DetachStepOK ==
  ASSUME World, NEW t \in Objects, NEW r, TracerOK(t, r), NEW s, DetachIs(r, s, r.val, r.val + 1),
         \/ r.op = "attach" /\ r.at = "undo" /\ r.val <= r.cnt
         \/ r.op = "detach" /\ r.at = "locs" /\ r.val <= NLocs
  PROVE  TracerOK(t, s)
<1>1. PICK us, es, u :
        /\ LocIs(r, s, r.val + 1, us, es, u)
        /\ es \subseteq r.events /\ us \subseteq r.uprobes /\ u \in BOOLEAN
        /\ \A e \in es : e[1] \in us
        /\ ~u => ~r.undone /\ (us = r.uprobes \ {r.val})
  <2>1. \A e \in r.events \ EventsAt(r, r.val) : e[1] \in r.uprobes \ {r.val}
    BY Zenon DEF TracerOK, Typed, EventsAt
  <2>2. /\ r.undone \in BOOLEAN /\ \A e \in r.events : e[1] \in r.uprobes
    BY Zenon DEF TracerOK, Typed
  <2>3. r.val \notin r.uprobes => r.uprobes = r.uprobes \ {r.val}
    BY Zenon
  <2> DEFINE es == EventsAt(r, r.val)
             P(us, f, u) == /\ LocIs(r, s, r.val + 1, us, f, u)
                            /\ f \subseteq r.events /\ us \subseteq r.uprobes /\ u \in BOOLEAN
                            /\ \A e \in f : e[1] \in us
                            /\ ~u => ~r.undone /\ (us = r.uprobes \ {r.val})
  <2>4. CASE LocIs(r, s, r.val + 1, r.uprobes \ {r.val}, r.events \ es, r.undone)
    <3>1. P(r.uprobes \ {r.val}, r.events \ es, r.undone)
      BY <2>1, <2>2, <2>4, Zenon
    <3> QED BY <3>1, Zenon
  <2>5. CASE LocIs(r, s, r.val + 1, r.uprobes, r.events \ es, TRUE)
    <3>1. P(r.uprobes, r.events \ es, TRUE)
      BY <2>2, <2>5, Zenon
    <3> QED BY <3>1, Zenon
  <2>6. CASE LocIs(r, s, r.val + 1, r.uprobes, r.events, TRUE)
    <3>1. P(r.uprobes, r.events, TRUE)
      BY <2>2, <2>6, Zenon
    <3> QED BY <3>1, Zenon
  <2>7. CASE r.val \notin r.uprobes /\ LocIs(r, s, r.val + 1, r.uprobes, r.events, r.undone)
    <3>1. P(r.uprobes, r.events, r.undone)
      BY <2>2, <2>3, <2>7, Zenon
    <3> QED BY <3>1, Zenon
  <2> QED BY <2>4, <2>5, <2>6, <2>7, Zenon DEF DetachIs
<1>2. /\ r.val \in Nat \ {0} /\ r.cnt \in 0..NLocs /\ r.val <= NLocs /\ NLocs \in Nat
      /\ r.uprobes \subseteq Locs
  <2>1. r.val \in 1..(NLocs + 1) /\ r.cnt \in 0..NLocs /\ r.uprobes \subseteq Locs
    BY Zenon DEF TracerOK, Typed, Located
  <2> QED BY <2>1, SomeLocs
<1>3. Typed(s)
  <2>1. /\ IsTracer(s) /\ s.val = r.val + 1 /\ s.cnt = r.cnt /\ s.orig = r.orig
        /\ s.mem = r.mem /\ s.resolved = r.resolved /\ s.attached_to = r.attached_to
        /\ s.added = r.added /\ s.undone = u /\ s.uprobes = us /\ s.events = es
    BY <1>1, Zenon DEF LocIs
  <2>2. s.val \in Int
    BY <1>2, <2>1
  <2>3. Typed(r)
    BY Zenon DEF TracerOK
  <2>4. us \subseteq Locs /\ es \subseteq Locs \X (Known \ {None})
    BY <1>1, <1>2, <2>3, Zenon DEF Typed
  <2> QED BY <1>1, <2>1, <2>2, <2>3, <2>4, Zenon DEF Typed
<1>4. Control(t, s) /\ AtSem(s)
  BY <1>1, Zenon DEF TracerOK, Control, AtSem, LocIs
<1>5. Located(s)
  BY <1>1, <1>2 DEF TracerOK, Located, LocIs
<1>6. Progress(s)
  <2> SUFFICES ASSUME ~u PROVE Progress(s)
    BY <1>1, Zenon DEF Progress, LocIs
  <2>1. ~r.undone /\ us = r.uprobes \ {r.val}
    BY <1>1, Zenon
  <2>2. s.uprobes = us /\ s.val = r.val + 1 /\ s.op = r.op /\ s.at = r.at /\ s.cnt = r.cnt
    BY <1>1, Zenon DEF LocIs
  <2>3. ASSUME NEW n \in Nat PROVE (r.val..n) \ {r.val} = (r.val + 1)..n
    BY <1>2
  <2>4. CASE r.op = "attach"
    <3>1. r.uprobes = r.val..r.cnt \/ r.uprobes = {}
      BY <1>2, <2>1, <2>4 DEF TracerOK, Progress
    <3>2. us = (r.val + 1)..r.cnt \/ us = {}
      BY <1>2, <2>1, <2>3, <3>1
    <3> QED BY <2>2, <2>4, <3>2, Zenon DEF Progress
  <2>5. CASE r.op = "detach"
    <3>1. r.uprobes = r.val..NLocs \/ r.uprobes = {}
      BY <2>1, <2>5, Zenon DEF TracerOK, Progress
    <3>2. us = (r.val + 1)..NLocs \/ us = {}
      BY <1>2, <2>1, <2>3, <3>1, Zenon
    <3> QED BY <2>2, <2>5, <3>2, Zenon DEF Progress
  <2> QED BY <2>4, <2>5, Zenon
<1>7. Checked(t, s)
  BY <1>1, Zenon DEF TracerOK, Checked, LocIs
<1> QED BY <1>3, <1>4, <1>5, <1>6, <1>7, Zenon DEF TracerOK

\* attach_uprobe at a location, with its effect on the semaphore.
OpenIs(r, s) ==
  /\ r.val \notin r.uprobes /\ Alive /\ UNCHANGED faults
  /\ sem' = sem + KernelCounts({<<r.val, proc>>})
  /\ IsTracer(s) /\ s.uprobes = r.uprobes \cup {r.val}
  /\ s.events = r.events \cup {<<r.val, proc>>}
  /\ s.attached_to = r.attached_to /\ s.resolved = r.resolved /\ s.added = r.added
  /\ s.pid_stat = r.pid_stat /\ s.asked = r.asked /\ s.seen = r.seen /\ s.undone = r.undone
  /\ r.val = NLocs => /\ s.op = "none" /\ s.at = "none" /\ s.val = 0 /\ s.cnt = 0
                      /\ s.mem = None /\ s.orig = 0
  /\ r.val # NLocs => /\ s.op = r.op /\ s.at = r.at /\ s.val = r.val + 1 /\ s.cnt = r.cnt
                      /\ s.mem = r.mem /\ s.orig = r.orig
NotOpenIs(r, s) ==
  /\ UNCHANGED faults \/ Fault
  /\ UNCHANGED sem /\ IsTracer(s) /\ Rest(r, s)
  /\ s.op = "attach" /\ s.at = "undo" /\ s.val = 1 /\ s.cnt = r.val - 1
  /\ s.mem = r.mem /\ s.orig = r.orig

\* Which fields opening one location changes.
LEMMA AttachLocFields ==
  ASSUME NEW t, IsTracer(tr[t]), AttachLoc(t)
  PROVE  \E s : Set(t, s) /\ (OpenIs(tr[t], s) \/ NotOpenIs(tr[t], s))
<1>1. PICK r : r = tr[t]
  BY Zenon
<1>2. PICK us : us = r.uprobes \cup {r.val}
  BY Zenon
<1>3. PICK es : es = r.events \cup {<<r.val, proc>>}
  BY Zenon
<1>4. PICK a : a = [r EXCEPT !.uprobes = us, !.events = es]
  BY Zenon
<1>5. a = [op |-> r.op, at |-> r.at, val |-> r.val, cnt |-> r.cnt, mem |-> r.mem,
           orig |-> r.orig, attached_to |-> r.attached_to, resolved |-> r.resolved,
           uprobes |-> us, events |-> es, added |-> r.added,
           pid_stat |-> r.pid_stat, asked |-> r.asked, seen |-> r.seen, undone |-> r.undone]
  BY <1>1, <1>4, Zenon DEF IsTracer
<1>6. /\ IsTracer(a) /\ Locals(r, a) /\ a.uprobes = us /\ a.events = es
      /\ a.attached_to = r.attached_to /\ a.resolved = r.resolved /\ a.added = r.added
      /\ a.pid_stat = r.pid_stat /\ a.asked = r.asked /\ a.seen = r.seen
      /\ a.undone = r.undone
  BY <1>5, Zenon DEF IsTracer, Locals
<1>7. PICK a1 : a1 = [a EXCEPT !.val = r.val + 1]
  BY Zenon
<1>8. a1 = [op |-> a.op, at |-> a.at, val |-> r.val + 1, cnt |-> a.cnt, mem |-> a.mem,
           orig |-> a.orig, attached_to |-> a.attached_to, resolved |-> a.resolved,
           uprobes |-> a.uprobes, events |-> a.events, added |-> a.added,
           pid_stat |-> a.pid_stat, asked |-> a.asked, seen |-> a.seen, undone |-> a.undone]
  BY <1>6, <1>7, Zenon DEF IsTracer
<1>9. /\ IsTracer(a1) /\ Rest(a, a1) /\ a1.op = a.op /\ a1.at = a.at
      /\ a1.val = r.val + 1 /\ a1.cnt = a.cnt /\ a1.mem = a.mem /\ a1.orig = a.orig
  BY <1>8, Zenon DEF IsTracer, Rest
<1>10. PICK g : g = Goto(r, "attach", "undo", 1)
  BY Zenon
<1>11. /\ IsTracer(g) /\ Rest(r, g) /\ g.op = "attach" /\ g.at = "undo" /\ g.val = 1
       /\ g.cnt = r.cnt /\ g.mem = r.mem /\ g.orig = r.orig
  BY <1>1, <1>10, GotoFields
<1>12. PICK f : f = [g EXCEPT !.cnt = r.val - 1]
  BY Zenon
<1>13. f = [op |-> g.op, at |-> g.at, val |-> g.val, cnt |-> r.val - 1, mem |-> g.mem,
           orig |-> g.orig, attached_to |-> g.attached_to, resolved |-> g.resolved,
           uprobes |-> g.uprobes, events |-> g.events, added |-> g.added,
           pid_stat |-> g.pid_stat, asked |-> g.asked, seen |-> g.seen, undone |-> g.undone]
  BY <1>11, <1>12, Zenon DEF IsTracer
<1>14. /\ IsTracer(f) /\ Rest(r, f) /\ f.op = "attach" /\ f.at = "undo" /\ f.val = 1
       /\ f.cnt = r.val - 1 /\ f.mem = r.mem /\ f.orig = r.orig
  BY <1>11, <1>13, Zenon DEF IsTracer, Rest
<1>15. \/ /\ r.val \notin r.uprobes /\ Alive /\ UNCHANGED faults
          /\ sem' = sem + KernelCounts({<<r.val, proc>>})
          /\ Set(t, IF r.val = NLocs THEN Return(a) ELSE a1)
       \/ (UNCHANGED faults \/ Fault) /\ Set(t, f) /\ UNCHANGED sem
  BY <1>1, <1>2, <1>3, <1>4, <1>7, <1>10, <1>12, Zenon DEF AttachLoc
<1>16. CASE (UNCHANGED faults \/ Fault) /\ Set(t, f) /\ UNCHANGED sem
  BY <1>1, <1>14, <1>16, Zenon DEF NotOpenIs
<1>17. ASSUME r.val \notin r.uprobes, Alive, UNCHANGED faults,
              sem' = sem + KernelCounts({<<r.val, proc>>}),
              Set(t, IF r.val = NLocs THEN Return(a) ELSE a1)
       PROVE  \E s : Set(t, s) /\ OpenIs(tr[t], s)
  <2>1. CASE r.val = NLocs
    <3>1. PICK q : q = Return(a)
      BY Zenon
    <3>2. /\ IsTracer(q) /\ Rest(a, q)
          /\ q.op = "none" /\ q.at = "none" /\ q.val = 0 /\ q.cnt = 0 /\ q.mem = None
          /\ q.orig = 0
      BY <1>6, <3>1, ReturnFields, Zenon
    <3>3. OpenIs(r, q)
      BY <1>2, <1>3, <1>6, <1>17, <2>1, <3>2, Zenon DEF OpenIs, Rest
    <3> QED BY <1>1, <1>17, <2>1, <3>1, <3>3, Zenon
  <2>2. CASE r.val # NLocs
    <3>1. OpenIs(r, a1)
      BY <1>2, <1>3, <1>6, <1>9, <1>17, <2>2, Zenon DEF OpenIs, Rest, Locals
    <3> QED BY <1>1, <1>17, <2>2, <3>1, Zenon
  <2> QED BY <2>1, <2>2, Zenon
<1> QED BY <1>15, <1>16, <1>17, Zenon

\* The next location is attached, or the clean-up starts.
LEMMA AttachStepOK ==
  ASSUME World, NEW t \in Objects, NEW r, TracerOK(t, r), r.op = "attach", r.at = "locs",
         NEW s, OpenIs(r, s) \/ NotOpenIs(r, s)
  PROVE  TracerOK(t, s)
<1>1. /\ r.val \in Nat \ {0} /\ r.val <= NLocs /\ NLocs \in Nat \ {0} /\ r.uprobes \subseteq Locs
      /\ r.cnt \in 0..NLocs /\ (~ref_ctr => r.attached_to)
      /\ ~r.undone => r.uprobes = 1..(r.val - 1) \/ (r.uprobes = Locs /\ r.val = 1)
  BY SomeLocs DEF TracerOK, Typed, Located, Progress
<1>2. t \notin Contexts
  BY UsdtAssumption, Zenon
<1>3. CASE OpenIs(r, s)
  <2>1. r.val \in Locs /\ <<r.val, proc>> \in Locs \X (Known \ {None})
    BY <1>1, <1>3 DEF OpenIs, Locs, Alive, Known
  <2>2. s.uprobes \subseteq Locs /\ s.events \subseteq Locs \X (Known \ {None})
        /\ \A e \in s.events : e[1] \in s.uprobes
    BY <1>3, <2>1 DEF OpenIs, TracerOK, Typed
  <2>3. s.val \in Int /\ s.cnt \in 0..NLocs /\ s.orig \in Int /\ s.mem \in Known
    BY <1>1, <1>3 DEF OpenIs, TracerOK, Typed, Known
  <2>4. Typed(s)
    BY <1>3, <2>2, <2>3, Zenon DEF OpenIs, TracerOK, Typed
  <2>5. Control(t, s) /\ AtSem(s)
    BY <1>2, <1>3, Zenon DEF OpenIs, TracerOK, Control, AtSem
  <2>6. Located(s)
    BY <1>1, <1>3, <2>3 DEF OpenIs, Located
  <2>7. Progress(s)
    <3> SUFFICES ASSUME ~s.undone PROVE Progress(s)
      BY Zenon DEF Progress
    <3>1. r.uprobes = 1..(r.val - 1)
      BY <1>1, <1>3, <2>1, Zenon DEF OpenIs
    <3>2. s.uprobes = 1..r.val
      <4>1. (1..(r.val - 1)) \cup {r.val} = 1..r.val
        BY <1>1
      <4> QED BY <1>3, <3>1, <4>1, Zenon DEF OpenIs
    <3>3. CASE r.val = NLocs
      <4>1. s.uprobes = Locs /\ s.op = "none" /\ (~ref_ctr => s.attached_to)
        BY <1>1, <1>3, <3>2, <3>3, Zenon DEF OpenIs, Locs
      <4> QED BY <4>1, Zenon DEF Progress
    <3>4. CASE r.val # NLocs
      <4>1. s.op = "attach" /\ s.at = "locs" /\ s.val - 1 = r.val
        BY <1>1, <1>3, <3>4 DEF OpenIs
      <4> QED BY <3>2, <4>1, Zenon DEF Progress
    <3> QED BY <3>3, <3>4, Zenon
  <2>8. Checked(t, s)
    BY <1>2, <1>3, Zenon DEF OpenIs, TracerOK, Checked
  <2> QED BY <2>4, <2>5, <2>6, <2>7, <2>8, Zenon DEF TracerOK
<1>4. CASE NotOpenIs(r, s)
  <2>1. Typed(s)
    BY <1>1, <1>4 DEF NotOpenIs, Rest, TracerOK, Typed
  <2>2. Control(t, s) /\ AtSem(s)
    BY <1>2, <1>4, Zenon DEF NotOpenIs, Rest, TracerOK, Control, AtSem
  <2>3. Located(s)
    BY <1>1, <1>4 DEF NotOpenIs, Rest, Located
  <2>4. Progress(s)
    BY <1>1, <1>4 DEF NotOpenIs, Rest, Progress
  <2>5. Checked(t, s)
    BY <1>2, <1>4, Zenon DEF NotOpenIs, Rest, TracerOK, Checked
  <2> QED BY <2>1, <2>2, <2>3, <2>4, <2>5, Zenon DEF TracerOK
<1> QED BY <1>3, <1>4, Zenon

\* attach_usdt and detach_usdt begin with the first location.
LEMMA GotoLocsOK ==
  ASSUME World, NEW t \in Objects, NEW r, TracerOK(t, r), r.op = "none",
         NEW op \in {"attach", "detach"}, op = "attach" => ref_ctr
  PROVE  TracerOK(t, Goto(r, op, "locs", 1))
<1>1. PICK s : s = Goto(r, op, "locs", 1)
  BY Zenon
<1>2. /\ IsTracer(s) /\ Rest(r, s) /\ s.op = op /\ s.at = "locs" /\ s.val = 1
      /\ s.cnt = r.cnt /\ s.mem = r.mem /\ s.orig = r.orig
  BY <1>1, GotoFields DEF TracerOK, Typed
<1>3. t \notin Contexts /\ NLocs \in Nat \ {0} /\ 1..0 = {} /\ s.val - 1 = 0
  BY <1>2, UsdtAssumption
<1>4. Typed(s) /\ Control(t, s) /\ AtSem(s)
  BY <1>2, <1>3 DEF TracerOK, Typed, Control, AtSem, Rest
<1>5. Located(s) /\ Checked(t, s)
  BY <1>2, <1>3 DEF TracerOK, Located, Checked, Rest
<1>6. Progress(s)
  BY <1>2, <1>3, Zenon DEF TracerOK, Progress, Rest, Locs
<1> QED BY <1>1, <1>4, <1>5, <1>6, Zenon DEF TracerOK

\* Probe::disable at the end of detach_usdt.
LEMMA DetachEndOK ==
  ASSUME World, NEW t \in Objects, NEW r, TracerOK(t, r), r.op = "detach", r.at = "locs",
         r.val > NLocs
  PROVE  TracerOK(t, Return(r)) /\ TracerOK(t, DisableProbe(r, "detach"))
<1>1. ~r.undone => r.uprobes = {}
  <2>1. r.val..NLocs = {}
    BY SomeLocs DEF TracerOK, Located
  <2> QED BY <2>1, Zenon DEF TracerOK, Progress
<1>2. TracerOK(t, Return(r))
  BY <1>1, ReturnOK, Zenon DEF Whole
<1>3. PICK s : s = DisableProbe(r, "detach")
  BY Zenon
<1>4. DisableIs(r, "detach", s)
  BY <1>3, DisableFields, Zenon DEF TracerOK, Typed
<1>5. t \notin Contexts /\ NLocs \in Nat
  BY UsdtAssumption, Zenon
<1>6. Typed(s)
  <2>1. s.attached_to \in BOOLEAN
    BY <1>4, Zenon DEF DisableIs
  <2>2. s.val \in Int /\ s.cnt \in Int /\ s.orig \in Int /\ s.mem \in Known
    BY <1>4 DEF DisableIs, TracerOK, Typed, Known
  <2> QED BY <1>4, <2>1, <2>2, Zenon DEF DisableIs, TracerOK, Typed
<1>7. Control(t, s) /\ AtSem(s)
  BY <1>4, <1>5, Zenon DEF DisableIs, TracerOK, Control, AtSem
<1>8. Located(s) /\ Progress(s)
  BY <1>1, <1>4, <1>5 DEF DisableIs, TracerOK, Located, Progress
<1>9. Checked(t, s)
  BY <1>4, <1>5, Zenon DEF DisableIs, TracerOK, Checked
<1> QED BY <1>2, <1>3, <1>6, <1>7, <1>8, <1>9, Zenon DEF TracerOK

\* Every step of a tracer that attaches keeps it well formed.
LEMMA ObjectOK ==
  ASSUME World, NEW t \in Objects, TracerOK(t, tr[t]), Object(t)
  PROVE  \E s : Set(t, s) /\ TracerOK(t, s)
<1>1. PICK r : r = tr[t]
  BY Zenon
<1>2. TracerOK(t, r) /\ t \in Tracers /\ IsTracer(tr[t])
  BY <1>1, Zenon DEF Tracers, TracerOK, Typed
<1>3. CASE attach_usdt(t)
  <2>1. /\ r.op = "none" /\ (ref_ctr \/ ~r.attached_to)
        /\ Set(t, IF ref_ctr THEN Goto(r, "attach", "locs", 1) ELSE EnableProbe(r, "attach"))
    BY <1>1, <1>3, Zenon DEF attach_usdt, In
  <2>2. CASE ref_ctr
    BY <1>2, <2>1, <2>2, GotoLocsOK, Zenon
  <2>3. CASE ~ref_ctr
    BY <1>2, <2>1, <2>3, EnableOK, Zenon
  <2> QED BY <2>2, <2>3, Zenon
<1>4. CASE AttachLoc(t)
  <2>1. r.op = "attach" /\ r.at = "locs"
    BY <1>1, <1>4, Zenon DEF AttachLoc, In, At
  <2> QED BY <1>1, <1>2, <1>4, <2>1, AttachLocFields, AttachStepOK, Zenon
<1>5. CASE UndoLoc(t)
  <2>1. r.op = "attach" /\ r.at = "undo" /\ r.val \in Int /\ r.cnt \in Int
    BY <1>1, <1>2, <1>5, Zenon DEF UndoLoc, At, TracerOK, Control, Typed
  <2>2. CASE r.val <= r.cnt
    <3>1. DetachOne(t, r.val, r.val + 1)
      BY <1>1, <1>5, <2>2, Zenon DEF UndoLoc, UndoCount
    <3> QED BY <1>1, <1>2, <2>1, <2>2, <3>1, DetachOneFields, DetachStepOK, Zenon
  <2>3. CASE ~(r.val <= r.cnt)
    <3>1. Set(t, Return(r))
      BY <1>1, <1>5, <2>3, Zenon DEF UndoLoc, UndoCount
    <3>2. r.val..r.cnt = {}
      BY <2>1, <2>3
    <3>3. Whole(r)
      BY <1>2, <2>1, <3>2, Zenon DEF TracerOK, Progress, Located, Whole
    <3> QED BY <1>2, <3>1, <3>3, ReturnOK, Zenon
  <2> QED BY <2>2, <2>3, Zenon
<1>6. CASE detach_usdt(t)
  <2>1. r.op = "none" /\ Set(t, Goto(r, "detach", "locs", 1))
    BY <1>1, <1>6, Zenon DEF detach_usdt, In
  <2> QED BY <1>2, <2>1, GotoLocsOK, Zenon
<1>7. CASE DetachLoc(t)
  <2>1. r.op = "detach" /\ r.at = "locs" /\ r.val \in Int /\ NLocs \in Nat
    BY <1>1, <1>2, <1>7, SomeLocs, Zenon DEF DetachLoc, In, At, TracerOK, Typed
  <2>2. CASE r.val <= NLocs
    <3>1. DetachOne(t, r.val, r.val + 1)
      BY <1>1, <1>7, <2>2, Zenon DEF DetachLoc
    <3> QED BY <1>1, <1>2, <2>1, <2>2, <3>1, DetachOneFields, DetachStepOK, Zenon
  <2>3. CASE ~(r.val <= NLocs)
    <3>1. Set(t, IF ref_ctr THEN Return(r) ELSE DisableProbe(r, "detach"))
      BY <1>1, <1>7, <2>3, Zenon DEF DetachLoc
    <3>2. TracerOK(t, Return(r)) /\ TracerOK(t, DisableProbe(r, "detach"))
      BY <1>2, <2>1, <2>3, DetachEndOK
    <3> QED BY <3>1, <3>2, Zenon
  <2> QED BY <2>2, <2>3, Zenon
<1>8. CASE destroy(t)
  BY <1>8, DeadOK, Zenon DEF destroy, TracerGone, Dead
<1> QED BY <1>3, <1>4, <1>5, <1>6, <1>7, <1>8, Zenon DEF Object

-----------------------------------------------------------------------------
(* What a tracer owes, as a set and as a number.                            *)

LocsIn(es) == {l \in Locs : <<l, proc>> \in es}
Uprobes(t, es) == {<<t, "uprobe", l>> : l \in LocsIn(es)}

\* The kernel counts one increment for each location.
LEMMA LocsCounted ==
  ASSUME NEW t, NEW es, es \subseteq Locs \X (Known \ {None})
  PROVE  /\ IsFiniteSet(LocsIn(es)) /\ Cardinality(LocsIn(es)) \in Nat
         /\ KernelCounts(es) = IF ref_ctr /\ need_enable THEN Cardinality(LocsIn(es)) ELSE 0
         /\ IsFiniteSet(Uprobes(t, es))
         /\ Cardinality(Uprobes(t, es)) = Cardinality(LocsIn(es))
         /\ ~Alive => LocsIn(es) = {}
<1>1. IsFiniteSet(LocsIn(es))
  <2>1. IsFiniteSet(Locs)
    BY FS_Interval, SomeLocs DEF Locs
  <2>2. LocsIn(es) \in SUBSET Locs
    BY Zenon DEF LocsIn
  <2> QED BY <2>1, <2>2, FS_Subset, Zenon
<1>2. Cardinality(LocsIn(es)) \in Nat
  BY <1>1, FS_CardinalityType, Zenon
<1>3. Cardinality({e \in es : e[2] = proc}) = Cardinality(LocsIn(es))
  <2> DEFINE f == [l \in LocsIn(es) |-> <<l, proc>>]
             T == {e \in es : e[2] = proc}
  <2>1. f \in [LocsIn(es) -> T]
    BY Zenon DEF LocsIn
  <2>2. \A a, b \in LocsIn(es) : f[a] = f[b] => a = b
    BY Zenon
  <2>3. \A e \in T : \E l \in LocsIn(es) : f[l] = e
    <3> SUFFICES ASSUME NEW e \in T PROVE \E l \in LocsIn(es) : f[l] = e
      BY Zenon
    <3>1. e = <<e[1], proc>> /\ e[1] \in Locs
      OBVIOUS
    <3>2. e[1] \in LocsIn(es)
      BY <3>1, Zenon DEF LocsIn
    <3> QED BY <3>1, <3>2, Zenon
  <2> HIDE DEF f, T
  <2>4. f \in Bijection(LocsIn(es), T)
    BY <2>1, <2>2, <2>3, Zenon DEF Bijection, Injection, Surjection, IsInjective
  <2>5. ExistsBijection(LocsIn(es), T)
    BY <2>4, Zenon DEF ExistsBijection
  <2> QED BY <1>1, <2>5, FS_Bijection, Zenon DEF T
<1>4. IsFiniteSet(Uprobes(t, es)) /\ Cardinality(Uprobes(t, es)) = Cardinality(LocsIn(es))
  <2> DEFINE f == [l \in LocsIn(es) |-> <<t, "uprobe", l>>]
             T == Uprobes(t, es)
  <2>1. f \in [LocsIn(es) -> T]
    BY Zenon DEF Uprobes
  <2>2. \A a, b \in LocsIn(es) : f[a] = f[b] => a = b
    BY Zenon
  <2>3. \A e \in T : \E l \in LocsIn(es) : f[l] = e
    BY Zenon DEF Uprobes
  <2> HIDE DEF f, T
  <2>4. f \in Bijection(LocsIn(es), T)
    BY <2>1, <2>2, <2>3, Zenon DEF Bijection, Injection, Surjection, IsInjective
  <2>5. ExistsBijection(LocsIn(es), T)
    BY <2>4, Zenon DEF ExistsBijection
  <2> QED BY <1>1, <2>5, FS_Bijection, Zenon DEF T
<1>5. ~Alive => LocsIn(es) = {}
  BY Zenon DEF LocsIn, Alive
<1> QED BY <1>1, <1>2, <1>3, <1>4, <1>5, Zenon DEF KernelCounts

\* The same, for the events alone.
LEMMA KernelIs ==
  ASSUME NEW es, es \subseteq Locs \X (Known \ {None})
  PROVE  /\ IsFiniteSet(LocsIn(es)) /\ Cardinality(LocsIn(es)) \in Nat
         /\ KernelCounts(es) = IF ref_ctr /\ need_enable THEN Cardinality(LocsIn(es)) ELSE 0
BY LocsCounted, Zenon

\* One location more, or the events of a location less.
LEMMA LocsChange ==
  ASSUME NEW es, es \subseteq Locs \X (Known \ {None})
  PROVE  /\ KernelCounts({}) = 0
         /\ \A l \in Locs : Alive /\ (\A e \in es : e[1] # l) =>
              KernelCounts(es \cup {<<l, proc>>}) = KernelCounts(es) + KernelCounts({<<l, proc>>})
         /\ \A r, l : r.events = es =>
              KernelCounts(es \ EventsAt(r, l)) = KernelCounts(es) - KernelCounts(EventsAt(r, l))
<1>1. KernelCounts({}) = 0
  <2>1. {e \in {} : e[2] = proc} = {}
    BY Zenon
  <2> QED BY <2>1, FS_EmptySet, Zenon DEF KernelCounts
<1>2. ASSUME NEW l \in Locs, Alive, \A e \in es : e[1] # l
      PROVE  KernelCounts(es \cup {<<l, proc>>}) = KernelCounts(es) + KernelCounts({<<l, proc>>})
  <2>1. {<<l, proc>>} \subseteq Locs \X (Known \ {None})
    BY <1>2 DEF Alive, Known
  <2>2. es \cup {<<l, proc>>} \subseteq Locs \X (Known \ {None})
    BY <2>1, Zenon
  <2>3. LocsIn(es \cup {<<l, proc>>}) = LocsIn(es) \cup {l} /\ l \notin LocsIn(es)
        /\ LocsIn({<<l, proc>>}) = {l}
    BY <1>2, Zenon DEF LocsIn
  <2>4. /\ Cardinality(LocsIn(es \cup {<<l, proc>>})) = Cardinality(LocsIn(es)) + 1
        /\ Cardinality(LocsIn({<<l, proc>>})) = 1
    <3>1. IsFiniteSet(LocsIn(es))
      BY KernelIs, Zenon
    <3> QED BY <2>3, <3>1, FS_AddElement, FS_Singleton, Zenon
  <2>5. /\ KernelCounts(es) = IF ref_ctr /\ need_enable THEN Cardinality(LocsIn(es)) ELSE 0
        /\ KernelCounts(es \cup {<<l, proc>>}) =
              IF ref_ctr /\ need_enable THEN Cardinality(LocsIn(es \cup {<<l, proc>>})) ELSE 0
        /\ KernelCounts({<<l, proc>>}) =
              IF ref_ctr /\ need_enable THEN Cardinality(LocsIn({<<l, proc>>})) ELSE 0
    <3>1. PICK one : one = {<<l, proc>>}
      BY Zenon
    <3>2. PICK more : more = es \cup one
      BY Zenon
    <3>3. one \subseteq Locs \X (Known \ {None}) /\ more \subseteq Locs \X (Known \ {None})
      BY <2>1, <2>2, <3>1, <3>2, Zenon
    <3>4. KernelCounts(one) = IF ref_ctr /\ need_enable THEN Cardinality(LocsIn(one)) ELSE 0
      BY <3>3, KernelIs, Zenon
    <3>5. KernelCounts(more) = IF ref_ctr /\ need_enable THEN Cardinality(LocsIn(more)) ELSE 0
      BY <3>3, KernelIs, Zenon
    <3> QED BY <3>1, <3>2, <3>4, <3>5, KernelIs, Zenon
  <2> QED BY <2>4, <2>5, KernelIs
<1>3. ASSUME NEW r, NEW l, r.events = es
      PROVE  KernelCounts(es \ EventsAt(r, l)) = KernelCounts(es) - KernelCounts(EventsAt(r, l))
  <2>1. PICK at : at = EventsAt(r, l)
    BY Zenon
  <2>2. at = {e \in es : e[1] = l} /\ at \subseteq Locs \X (Known \ {None})
    BY <1>3, <2>1, Zenon DEF EventsAt
  <2>3. PICK rem : rem = es \ at
    BY Zenon
  <2>4. rem \subseteq Locs \X (Known \ {None})
    BY <2>3, Zenon
  <2>7. /\ KernelCounts(es) = IF ref_ctr /\ need_enable THEN Cardinality(LocsIn(es)) ELSE 0
        /\ KernelCounts(at) = IF ref_ctr /\ need_enable THEN Cardinality(LocsIn(at)) ELSE 0
        /\ KernelCounts(rem) = IF ref_ctr /\ need_enable THEN Cardinality(LocsIn(rem)) ELSE 0
        /\ Cardinality(LocsIn(es)) \in Nat
    BY <2>2, <2>4, KernelIs, Zenon
  <2>5. CASE <<l, proc>> \in es /\ l \in Locs
    <3>1. LocsIn(at) = {l} /\ LocsIn(rem) = LocsIn(es) \ {l} /\ l \in LocsIn(es)
      BY <2>2, <2>3, <2>5, Zenon DEF LocsIn
    <3>2. /\ Cardinality(LocsIn(rem)) = Cardinality(LocsIn(es)) - 1
          /\ Cardinality(LocsIn(at)) = 1
      <4>1. IsFiniteSet(LocsIn(es))
        BY KernelIs, Zenon
      <4> QED BY <3>1, <4>1, FS_RemoveElement, FS_Singleton, Zenon
    <3>3. KernelCounts(rem) = KernelCounts(es) - KernelCounts(at)
      BY <2>7, <3>2
    <3> QED BY <2>1, <2>3, <3>3, Zenon
  <2>6. CASE ~(<<l, proc>> \in es /\ l \in Locs)
    <3>1. LocsIn(at) = {} /\ LocsIn(rem) = LocsIn(es)
      BY <2>2, <2>3, <2>6, Zenon DEF LocsIn
    <3>2. Cardinality(LocsIn(at)) = 0
      BY <3>1, FS_EmptySet, Zenon
    <3>3. KernelCounts(rem) = KernelCounts(es) - KernelCounts(at)
      BY <2>7, <3>1, <3>2
    <3> QED BY <2>1, <2>3, <3>3, Zenon
  <2> QED BY <2>5, <2>6, Zenon
<1> QED BY <1>1, <1>2, <1>3, Zenon

Of(t, r) == {o \in {t} \X {"enable", "addsem", "uprobe"} \X (0..NLocs) : Owes(r, o[2], o[3])}
Weight(r) == Left(r) + KernelCounts(r.events)

\* What one tracer owes.
LEMMA OfCounted ==
  ASSUME NEW t, NEW r, Typed(r)
  PROVE  /\ IsFiniteSet(Of(t, r)) /\ Cardinality(Of(t, r)) = Weight(r)
         /\ Left(r) \in Nat /\ KernelCounts(r.events) \in Nat /\ Weight(r) \in Nat
         /\ ~Alive => Left(r) = 0 /\ KernelCounts(r.events) = 0
<1> DEFINE A == IF Counts(r) THEN {<<t, "enable", 0>>} ELSE {}
           B == IF Alive /\ r.resolved = proc /\ r.added = 1 THEN {<<t, "addsem", 0>>} ELSE {}
           C == IF ref_ctr /\ need_enable THEN Uprobes(t, r.events) ELSE {}
<1>1. r.events \subseteq Locs \X (Known \ {None}) /\ r.added \in {0, 1} /\ NLocs \in Nat
  BY SomeLocs, Zenon DEF Typed
<1>2. Of(t, r) = (A \cup B) \cup C
  <2>1. \A l : <<l, proc>> \in r.events => l \in Locs
    BY <1>1, Zenon
  <2>2. 0 \in 0..NLocs /\ Locs \subseteq 0..NLocs
    BY <1>1 DEF Locs
  <2>3. \A o \in Of(t, r) : o \in (A \cup B) \cup C
    <3> SUFFICES ASSUME NEW o \in Of(t, r) PROVE o \in (A \cup B) \cup C
      BY Zenon
    <3>1. o = <<t, o[2], o[3]>> /\ Owes(r, o[2], o[3])
      BY DEF Of
    <3>2. o[2] = "uprobe" /\ <<o[3], proc>> \in r.events => o \in Uprobes(t, r.events)
      BY <2>1, <3>1, Zenon DEF Uprobes, LocsIn
    <3> QED BY <3>1, <3>2, Zenon DEF Owes
  <2>4. A \subseteq Of(t, r) /\ B \subseteq Of(t, r)
    BY <2>2 DEF Of, Owes
  <2>5. C \subseteq Of(t, r)
    <3> SUFFICES ASSUME ref_ctr, need_enable, NEW o \in Uprobes(t, r.events)
                 PROVE  o \in Of(t, r)
      BY Zenon
    <3>1. PICK l \in Locs : <<l, proc>> \in r.events /\ o = <<t, "uprobe", l>>
      BY Zenon DEF Uprobes, LocsIn
    <3> QED BY <2>2, <3>1, Zenon DEF Of, Owes
  <2> HIDE DEF A, B, C
  <2> QED BY <2>3, <2>4, <2>5, Zenon
<1>3. /\ IsFiniteSet(A) /\ IsFiniteSet(B) /\ IsFiniteSet(C)
      /\ Cardinality(A) = (IF Counts(r) THEN 1 ELSE 0)
      /\ Cardinality(B) = (IF Alive /\ r.resolved = proc /\ r.added = 1 THEN 1 ELSE 0)
      /\ Cardinality(C) = KernelCounts(r.events)
  <2>1. IsFiniteSet(A) /\ Cardinality(A) = (IF Counts(r) THEN 1 ELSE 0)
    BY FS_EmptySet, FS_Singleton, Zenon
  <2>2. /\ IsFiniteSet(B)
        /\ Cardinality(B) = (IF Alive /\ r.resolved = proc /\ r.added = 1 THEN 1 ELSE 0)
    BY FS_EmptySet, FS_Singleton, Zenon
  <2>3. IsFiniteSet(C) /\ Cardinality(C) = KernelCounts(r.events)
    <3>1. PICK es : es = r.events
      BY Zenon
    <3>2. es \subseteq Locs \X (Known \ {None})
      BY <1>1, <3>1, Zenon
    <3>3. /\ KernelCounts(es) = IF ref_ctr /\ need_enable THEN Cardinality(LocsIn(es)) ELSE 0
          /\ IsFiniteSet(Uprobes(t, es))
          /\ Cardinality(Uprobes(t, es)) = Cardinality(LocsIn(es))
      BY <3>2, LocsCounted, Zenon
    <3>4. C = IF ref_ctr /\ need_enable THEN Uprobes(t, es) ELSE {}
      BY <3>1, Zenon
    <3> QED BY <3>1, <3>3, <3>4, FS_EmptySet, Zenon
  <2> HIDE DEF A, B, C
  <2> QED BY <2>1, <2>2, <2>3, Zenon
<1>4. A \cap B = {} /\ (A \cup B) \cap C = {}
  BY DEF Uprobes
<1>5. Left(r) = Cardinality(A) + Cardinality(B)
  BY <1>1, <1>3, Zenon DEF Left
<1>6. KernelCounts(r.events) \in Nat /\ (~Alive => KernelCounts(r.events) = 0)
  <2>1. ~Alive => Cardinality(LocsIn(r.events)) = 0
    BY <1>1, LocsCounted, FS_EmptySet, Zenon
  <2> QED BY <1>1, <2>1, KernelIs
<1>7. ~Alive => Left(r) = 0
  BY DEF Left, Counts
<1> HIDE DEF A, B, C
<1>8. IsFiniteSet(A \cup B) /\ Cardinality(A \cup B) = Cardinality(A) + Cardinality(B)
  <2>1. IsFiniteSet(A \cup B)
        /\ Cardinality(A \cup B) = Cardinality(A) + Cardinality(B) - Cardinality(A \cap B)
    BY <1>3, FS_Union, Zenon
  <2>2. Cardinality(A) \in Nat /\ Cardinality(B) \in Nat /\ Cardinality(A \cap B) = 0
    BY <1>3, <1>4, FS_EmptySet, FS_CardinalityType, Zenon
  <2> QED BY <2>1, <2>2
<1>9. IsFiniteSet(Of(t, r)) /\ Cardinality(Of(t, r)) = Cardinality(A \cup B) + Cardinality(C)
  <2>1. PICK D : D = A \cup B
    BY Zenon
  <2>2. IsFiniteSet(D \cup C)
        /\ Cardinality(D \cup C) = Cardinality(D) + Cardinality(C) - Cardinality(D \cap C)
    BY <1>3, <1>8, <2>1, FS_Union, Zenon
  <2>3. D \cap C = {} /\ Of(t, r) = D \cup C
    BY <1>2, <1>4, <2>1, Zenon
  <2>4. Cardinality(D) \in Nat /\ Cardinality(C) \in Nat
    BY <1>3, <1>8, <2>1, FS_CardinalityType, Zenon
  <2> QED BY <2>1, <2>2, <2>3, <2>4, FS_EmptySet
<1>10. Left(r) \in Nat
  BY <1>3, <1>5
<1> QED BY <1>3, <1>5, <1>6, <1>7, <1>8, <1>9, <1>10 DEF Weight

\* A step of a tracer changes what is owed by what that tracer owes.
LEMMA OwedStep ==
  ASSUME AllOK, NEW t \in Tracers, NEW s, Set(t, s), TracerOK(t, s), UNCHANGED world,
         IsFiniteSet(Owed)
  PROVE  /\ IsFiniteSet(Owed') /\ Cardinality(Owed) \in Nat
         /\ Cardinality(Owed') = Cardinality(Owed) - Weight(tr[t]) + Weight(s)
<1>1. UNCHANGED <<proc, past, need_enable, ref_ctr>>
  BY Zenon DEF world, kernel
<1>2. tr'[t] = s /\ \A u \in Tracers \ {t} : tr'[u] = tr[u]
  BY SetEffect, Zenon
<1>3. Typed(s) /\ Typed(tr[t])
  BY Zenon DEF AllOK, TracerOK
<1>4. PICK X : X = Of(t, tr[t])
  BY Zenon
<1>5. PICK Y : Y = Of(t, s)
  BY Zenon
<1>6. /\ IsFiniteSet(X) /\ Cardinality(X) = Weight(tr[t]) /\ Weight(tr[t]) \in Nat
      /\ IsFiniteSet(Y) /\ Cardinality(Y) = Weight(s) /\ Weight(s) \in Nat
  BY <1>3, <1>4, <1>5, OfCounted, Zenon
<1> DEFINE P == Tracers \X {"enable", "addsem", "uprobe"} \X (0..NLocs)
<1>7. Owed' = {o \in P : Owes(tr'[o[1]], o[2], o[3])}
  BY <1>1, Zenon DEF Owed, Owes, Counts, Alive, Disabling
<1>8. X \subseteq Owed
  BY <1>4, Zenon DEF Of, Owed
<1>9. Owed' = (Owed \ X) \cup Y /\ (Owed \ X) \cap Y = {}
  <2>1. \A o \in P : o[1] = t => (o \in X <=> o \in Owed) /\ (o \in Y <=> o \in Owed')
    BY <1>2, <1>4, <1>5, <1>7, Zenon DEF Of, Owed
  <2>2. \A o \in P : o[1] # t => o \notin X /\ o \notin Y /\ (o \in Owed <=> o \in Owed')
    BY <1>2, <1>4, <1>5, <1>7, Zenon DEF Of, Owed
  <2>3. Owed \subseteq P /\ Owed' \subseteq P
    BY <1>7, Zenon DEF Owed
  <2>4. Y \subseteq P
    BY <1>5, Zenon DEF Of
  <2> HIDE DEF P
  <2> QED BY <2>1, <2>2, <2>3, <2>4, Zenon
<1>10. PICK Z : Z = Owed \ X
  BY Zenon
<1>11. IsFiniteSet(Z) /\ Cardinality(Z) = Cardinality(Owed) - Cardinality(X)
  <2>1. IsFiniteSet(Z)
    BY <1>10, FS_Difference, Zenon
  <2>2. Cardinality(Z \cup X) = Cardinality(Z) + Cardinality(X) - Cardinality(Z \cap X)
    BY <1>6, <2>1, FS_Union, Zenon
  <2>3. Z \cup X = Owed /\ Z \cap X = {}
    BY <1>8, <1>10, Zenon
  <2>4. Cardinality(Z) \in Nat
    BY <2>1, FS_CardinalityType, Zenon
  <2> QED BY <1>6, <2>1, <2>2, <2>3, <2>4, FS_EmptySet
<1>12. Cardinality(Owed) \in Nat /\ Cardinality(Z) \in Nat
  BY <1>11, FS_CardinalityType, Zenon
<1>13. IsFiniteSet(Z \cup Y) /\ Cardinality(Z \cup Y) = Cardinality(Z) + Cardinality(Y)
  <2>1. IsFiniteSet(Z \cup Y)
        /\ Cardinality(Z \cup Y) = Cardinality(Z) + Cardinality(Y) - Cardinality(Z \cap Y)
    BY <1>6, <1>11, FS_Union, Zenon
  <2>2. Z \cap Y = {}
    BY <1>9, <1>10, Zenon
  <2>3. Cardinality(Z \cap Y) = 0 /\ Cardinality(Y) \in Nat
    BY <1>6, <2>2, FS_EmptySet, FS_CardinalityType, Zenon
  <2> QED BY <1>12, <2>1, <2>3
<1>14. Owed' = Z \cup Y
  BY <1>9, <1>10, Zenon
<1> QED BY <1>6, <1>11, <1>12, <1>13, <1>14, Zenon

-----------------------------------------------------------------------------
(* The semaphore after a step of a tracer.                                  *)

HistIs(h) == /\ h = [orphans |-> h.orphans, lost |-> h.lost, strayed |-> h.strayed]
             /\ h.orphans \in Nat /\ h.lost \in BOOLEAN /\ h.strayed \in BOOLEAN

\* The semaphore moves by what the tracer owes more and what is orphaned less.
Balanced(t, s) ==
  /\ sem' \in Int /\ HistIs(hist')
  /\ hist.lost => hist'.lost
  /\ hist.strayed => hist'.strayed
  /\ ~Alive => sem' = 0 /\ hist'.orphans = 0
  /\ Alive /\ ~hist'.lost /\ ~hist'.strayed =>
       sem' - sem = (hist'.orphans - hist.orphans) + (Weight(s) - Weight(tr[t]))

\* A balanced step of one tracer keeps the invariant.
LEMMA BalancedSteps ==
  ASSUME UInv, NEW t \in Tracers, NEW s, Set(t, s), TracerOK(t, s), UNCHANGED world,
         Balanced(t, s)
  PROVE  SemOK' /\ Debts'
<1>1. UNCHANGED <<proc, need_enable, ref_ctr>> /\ (Alive <=> Alive')
  BY Zenon DEF world, kernel, Alive
<1>2. SemOK'
  BY <1>1, Zenon DEF Balanced, HistIs, SemOK
<1>3. /\ IsFiniteSet(Owed') /\ Cardinality(Owed) \in Nat
      /\ Cardinality(Owed') = Cardinality(Owed) - Weight(tr[t]) + Weight(s)
  BY OwedStep, Zenon DEF UInv, Debts
<1>4. Weight(tr[t]) \in Nat /\ Weight(s) \in Nat
  BY OfCounted, Zenon DEF UInv, AllOK, TracerOK
<1>5. ASSUME Alive, ~hist'.lost, ~hist'.strayed
      PROVE  sem' = hist'.orphans + Cardinality(Owed')
  <2>1. sem = hist.orphans + Cardinality(Owed)
    BY <1>5, Zenon DEF UInv, Debts, SemaphoreCounts, Expected, Balanced
  <2>2. sem' - sem = (hist'.orphans - hist.orphans) + (Weight(s) - Weight(tr[t]))
    BY <1>5, Zenon DEF Balanced
  <2>3. sem \in Int /\ sem' \in Int /\ hist.orphans \in Nat /\ hist'.orphans \in Nat
    BY Zenon DEF Balanced, HistIs, UInv, SemOK
  <2> QED BY <1>3, <1>4, <2>1, <2>2, <2>3
<1>6. SemaphoreCounts'
  BY <1>1, <1>5, Zenon DEF SemaphoreCounts, Expected
<1> QED BY <1>2, <1>3, <1>6, Zenon DEF Debts

\* A step that changes neither the semaphore nor what the tracer owes.
LEMMA QuietStep ==
  ASSUME UInv, NEW t \in Tracers, NEW s, TracerOK(t, s), UNCHANGED <<sem, hist>>,
         Weight(s) = Weight(tr[t])
  PROVE  Balanced(t, s)
<1>1. Weight(s) \in Nat
  BY OfCounted, Zenon DEF TracerOK
<1> QED BY <1>1 DEF UInv, SemOK, Balanced, HistIs

\* The history after increments are left behind.
LEMMA OrphanEffect ==
  ASSUME SemOK, NEW n \in Nat, Orphan(n)
  PROVE  /\ HistIs(hist') /\ hist'.orphans = hist.orphans + n
         /\ hist'.lost = hist.lost /\ hist'.strayed = hist.strayed
<1>1. hist' = [orphans |-> hist.orphans + n, lost |-> hist.lost, strayed |-> hist.strayed]
  BY Zenon DEF SemOK, Orphan
<1>2. hist.orphans + n \in Nat
  BY DEF SemOK
<1>3. hist.lost \in BOOLEAN /\ hist.strayed \in BOOLEAN
  BY Zenon DEF SemOK
<1> QED BY <1>1, <1>2, <1>3, Zenon DEF HistIs

\* A step that takes k from the semaphore and leaves n increments behind.
LEMMA MovingStep ==
  ASSUME UInv, NEW t \in Tracers, NEW s, TracerOK(t, s),
         NEW k \in Int, sem' = sem - k, NEW n \in Nat, Orphan(n),
         ~Alive => k = 0 /\ n = 0, Alive => Weight(tr[t]) = Weight(s) + k + n
  PROVE  Balanced(t, s)
<1>1. Weight(s) \in Nat /\ Weight(tr[t]) \in Nat
  BY OfCounted, Zenon DEF TracerOK, UInv, AllOK
<1>2. /\ HistIs(hist') /\ hist'.orphans = hist.orphans + n
      /\ hist'.lost = hist.lost /\ hist'.strayed = hist.strayed
  BY OrphanEffect, Zenon DEF UInv
<1>3. sem \in Int /\ hist.orphans \in Nat /\ (~Alive => sem = 0 /\ hist.orphans = 0)
  BY Zenon DEF UInv, SemOK
<1>4. sem' \in Int /\ (~Alive => sem' = 0 /\ hist'.orphans = 0)
  BY <1>2, <1>3
<1>5. Alive => sem' - sem = (hist'.orphans - hist.orphans) + (Weight(s) - Weight(tr[t]))
  BY <1>1, <1>2, <1>3
<1>6. (hist.lost => hist'.lost) /\ (hist.strayed => hist'.strayed)
  BY <1>2, Zenon
<1> QED BY <1>2, <1>4, <1>5, <1>6, Zenon DEF Balanced

\* What a tracer owes depends on these fields only.
LEMMA SameWeight ==
  ASSUME NEW r, NEW s, s.attached_to = r.attached_to, s.resolved = r.resolved,
         s.added = r.added, s.events = r.events, Disabling(s) <=> Disabling(r)
  PROVE  Left(s) = Left(r) /\ Weight(s) = Weight(r)
BY Zenon DEF Left, Counts, Weight

\* A tracer that is gone owes nothing.
LEMMA DeadWeight == ASSUME World PROVE Weight(Dead) = 0
<1>1. Dead.events = {} /\ Dead.resolved = None
  BY NewFields, Zenon DEF Fresh
<1>2. KernelCounts({}) = 0
  BY LocsChange, Zenon
<1> QED BY <1>1, <1>2 DEF Weight, Left, Counts, Alive

\* A tracer that goes is balanced: the kernel takes back what it counted for the
\* events, and the rest is recorded as left behind.
LEMMA GoneBalanced ==
  ASSUME UInv, NEW t \in Tracers, NEW r, Typed(r), Weight(r) = Weight(tr[t]), TracerGone(t, r)
  PROVE  Set(t, Dead) /\ TracerOK(t, Dead) /\ Balanced(t, Dead)
<1>1. Set(t, Dead) /\ sem' = sem - KernelCounts(r.events) /\ Orphan(Left(r))
  BY Zenon DEF TracerGone, Dead
<1>2. TracerOK(t, Dead) /\ Weight(Dead) = 0
  BY DeadOK, DeadWeight, Zenon DEF UInv
<1>3. /\ Left(r) \in Nat /\ KernelCounts(r.events) \in Nat
      /\ ~Alive => Left(r) = 0 /\ KernelCounts(r.events) = 0
  BY OfCounted, Zenon
<1>4. Weight(tr[t]) = Weight(Dead) + KernelCounts(r.events) + Left(r)
  BY <1>2, <1>3 DEF Weight
<1>5. KernelCounts(r.events) \in Int
  BY <1>3
<1> QED BY <1>1, <1>2, <1>3, <1>4, <1>5, MovingStep, Zenon

\* The step of an action determines the tracer.
LEMMA OneSet ==
  ASSUME AllOK, NEW t \in Tracers, NEW a, Set(t, a), NEW b, Set(t, b)
  PROVE  a = b
BY SetEffect

\* Resolving the address counts nothing: what is counted has an address.
LEMMA ResolveWeight ==
  ASSUME World, NEW t, NEW r, TracerOK(t, r), NEW s, s = Resolve(r)
  PROVE  /\ Weight(s) = Weight(r) /\ Locals(r, s)
         /\ s.attached_to = r.attached_to /\ s.added = r.added /\ s.events = r.events
         /\ r.resolved # None => s.resolved = r.resolved
<1>1. /\ Locals(r, s) /\ s.attached_to = r.attached_to /\ s.added = r.added
      /\ s.events = r.events
      /\ s.resolved = (IF r.resolved = None THEN proc ELSE r.resolved)
  BY ResolveFields, Zenon DEF TracerOK, Typed
<1>2. CASE r.resolved # None
  BY <1>1, <1>2, Zenon DEF Weight, Left, Counts, Disabling, Locals
<1>3. CASE r.resolved = None
  <2>1. r.added = 0 /\ ~(need_enable /\ r.attached_to) /\ ~Disabling(r)
    BY <1>3, Zenon DEF TracerOK, Control, AtSem, Disabling, Typed
  <2>2. s.added = 0 /\ ~(need_enable /\ s.attached_to) /\ ~Disabling(s)
    BY <1>1, <2>1, Zenon DEF Disabling, Locals
  <2>3. Left(r) = 0 /\ Left(s) = 0
    BY <2>1, <2>2 DEF Left, Counts
  <2> QED BY <1>1, <1>3, <2>3, Zenon DEF Weight
<1> QED BY <1>1, <1>2, <1>3, Zenon

\* Reading the semaphore changes no balance.
LEMMA ReadBalance ==
  ASSUME UInv, NEW t \in Tracers, NEW s, Set(t, s), TracerOK(t, s), ReadSem(t)
  PROVE  Balanced(t, s)
<1>1. PICK r : r = Resolve(tr[t])
  BY Zenon
<1>2. PICK o : o = IF r.resolved = proc THEN sem ELSE 0
  BY Zenon
<1>3. PICK q : q = [r EXCEPT !.at = "write", !.mem = proc, !.orig = o]
  BY Zenon
<1>4. Set(t, q) /\ UNCHANGED <<sem, hist>> /\ tr[t].at = "add"
  BY <1>1, <1>2, <1>3, Zenon DEF ReadSem, At
<1>5. s = q
  BY <1>4, OneSet, Zenon DEF UInv
<1>6. TracerOK(t, tr[t])
  BY Zenon DEF UInv, AllOK
<1>7. Weight(r) = Weight(tr[t]) /\ Locals(tr[t], r) /\ IsTracer(r)
  BY <1>1, <1>6, ResolveWeight, ResolveFields, Zenon DEF UInv, TracerOK, Typed
<1>8. q = [op |-> r.op, at |-> "write", val |-> r.val, cnt |-> r.cnt, mem |-> proc,
       orig |-> o, attached_to |-> r.attached_to, resolved |-> r.resolved,
       uprobes |-> r.uprobes, events |-> r.events, added |-> r.added,
       pid_stat |-> r.pid_stat, asked |-> r.asked, seen |-> r.seen, undone |-> r.undone]
  BY <1>3, <1>7, Zenon DEF IsTracer
<1>9. /\ q.attached_to = r.attached_to /\ q.resolved = r.resolved /\ q.added = r.added
      /\ q.events = r.events /\ (Disabling(q) <=> Disabling(r))
  BY <1>4, <1>7, <1>8, Zenon DEF Locals, Disabling
<1>10. Weight(q) = Weight(r)
  BY <1>9, SameWeight, Zenon
<1> QED BY <1>4, <1>5, <1>7, <1>10, QuietStep, Zenon

\* What a call at the semaphore has added once its value is written.
LEMMA AddedWeight ==
  ASSUME World, NEW t \in Tracers, NEW r, TracerOK(t, r), r.at = "write", Alive,
         r.resolved = proc
  PROVE  Weight(Added(r)) = Weight(r) + r.val
<1>1. PICK s : s = Added(r)
  BY Zenon
<1>2. /\ IsTracer(r) /\ r.added \in {0, 1} /\ KernelCounts(r.events) \in Nat /\ need_enable
      /\ r.op \in {"enable", "attach", "addsem", "detach", "close"}
  BY OfCounted, Zenon DEF TracerOK, Typed, Control, AtSem
<1>3. CASE r.op \in {"enable", "attach"}
  <2>1. EnabledIs(r, r.op, s)
    BY <1>1, <1>2, <1>3, EnabledFields, Zenon DEF Added
  <2>2. s.attached_to
    BY <2>1, Zenon DEF EnabledIs
  <2>3. s.resolved = r.resolved /\ s.added = r.added /\ s.events = r.events
    BY <2>1, Zenon DEF EnabledIs
  <2>4. ~r.attached_to /\ r.val = 1 /\ ~Disabling(r)
    BY <1>3, Zenon DEF TracerOK, AtSem, Disabling
  <2>5. Left(r) = r.added /\ Left(s) = r.added + 1
    BY <1>2, <2>2, <2>3, <2>4 DEF Left, Counts
  <2> QED BY <1>1, <1>2, <2>3, <2>4, <2>5 DEF Weight
<1>4. CASE r.op = "addsem"
  <2>1. PICK x : x = r.added + r.val
    BY Zenon
  <2>2. PICK e : e = [r EXCEPT !.added = x]
    BY Zenon
  <2>3. s = Return(e)
    BY <1>1, <1>4, <2>1, <2>2, Zenon DEF Added
  <2>4. /\ IsTracer(e) /\ e.added = x /\ e.attached_to = r.attached_to
        /\ e.resolved = r.resolved /\ e.events = r.events
    BY <1>2, <2>2, AddedFields
  <2>5. Rest(e, s) /\ s.op = "none"
    BY <2>3, <2>4, ReturnFields, Zenon
  <2>6. ~Disabling(r) /\ ~Disabling(s) /\ r.val \in Int
    BY <1>4, <2>5, Zenon DEF Disabling, TracerOK, Typed
  <2>7. /\ s.resolved = r.resolved /\ s.added = r.added + r.val /\ s.events = r.events
        /\ s.attached_to = r.attached_to
    BY <2>1, <2>4, <2>5, Zenon DEF Rest
  <2>8. Counts(s) <=> Counts(r)
    BY <2>6, <2>7, Zenon DEF Counts
  <2>9. Left(s) = Left(r) + r.val
    BY <1>2, <2>6, <2>7, <2>8 DEF Left
  <2> QED BY <1>1, <1>2, <2>6, <2>7, <2>9, OfCounted DEF Weight, TracerOK
<1>5. CASE r.op \in {"detach", "close"}
  <2>1. r.val = -1 /\ ~r.attached_to /\ r.added = 0 /\ Disabling(r)
    BY <1>5, Zenon DEF TracerOK, AtSem, Disabling
  <2>2. Left(r) = 1
    BY <1>2, <2>1 DEF Left, Counts
  <2>3. CASE r.op = "detach"
    <3>1. s = Return(r)
      BY <1>1, <2>3, Zenon DEF Added, Disabled
    <3>2. Rest(r, s) /\ s.op = "none"
      BY <1>2, <3>1, ReturnFields, Zenon
    <3>3. Left(s) = 0 /\ s.events = r.events
      BY <2>1, <3>2 DEF Left, Counts, Disabling, Rest
    <3> QED BY <1>1, <1>2, <2>1, <2>2, <3>3 DEF Weight
  <2>4. CASE r.op = "close"
    <3>1. s = Dead /\ Weight(s) = 0
      BY <1>1, <2>4, DeadWeight, Zenon DEF Added, Disabled, Dead
    <3>2. r.events = {}
      BY <2>4, Zenon DEF TracerOK, Control, Tracers
    <3>3. KernelCounts(r.events) = 0
      BY <3>2, LocsChange, Zenon
    <3> QED BY <1>1, <2>1, <2>2, <3>1, <3>3 DEF Weight
  <2> QED BY <1>5, <2>3, <2>4, Zenon
<1> QED BY <1>2, <1>3, <1>4, <1>5, Zenon

\* The written value: one update for one call, unless one came between.
LEMMA WriteBalance ==
  ASSUME UInv, NEW t \in Tracers, WriteSem(t)
  PROVE  \E s : Set(t, s) /\ TracerOK(t, s) /\ Balanced(t, s)
<1>1. PICK r : r = tr[t]
  BY Zenon
<1>2. PICK s : s = Added(r)
  BY Zenon
<1>3. TracerOK(t, r) /\ r.at = "write" /\ proc = r.mem /\ Set(t, s)
  BY <1>1, <1>2, Zenon DEF WriteSem, At, UInv, AllOK
<1>4. Alive /\ r.val \in Int /\ r.orig \in Int
  BY <1>3, Zenon DEF TracerOK, Typed, AtSem, Alive
<1>5. TracerOK(t, s)
  BY <1>2, <1>3, WriteOK, Zenon DEF UInv
<1>6. Weight(s) \in Nat /\ Weight(r) \in Nat
  BY <1>3, <1>5, OfCounted, Zenon DEF TracerOK
<1>7. /\ sem \in Int /\ hist.orphans \in Nat /\ hist.lost \in BOOLEAN
      /\ hist.strayed \in BOOLEAN
      /\ hist = [orphans |-> hist.orphans, lost |-> hist.lost, strayed |-> hist.strayed]
  BY Zenon DEF UInv, SemOK
<1>8. CASE r.resolved = proc
  <2>1. PICK b : b = (hist.lost \/ sem # r.orig)
    BY Zenon
  <2>2. sem' = r.orig + r.val /\ hist' = [hist EXCEPT !.lost = b]
    BY <1>1, <1>8, <2>1, Zenon DEF WriteSem
  <2>3. hist' = [orphans |-> hist.orphans, lost |-> b, strayed |-> hist.strayed]
    BY <1>7, <2>2, Zenon
  <2>4. b \in BOOLEAN
    BY <2>1, Zenon
  <2>5. /\ HistIs(hist') /\ hist'.orphans = hist.orphans /\ hist'.lost = b
        /\ hist'.strayed = hist.strayed
    BY <1>7, <2>3, <2>4, Zenon DEF HistIs
  <2>6. (hist.lost => hist'.lost) /\ (~hist'.lost => sem = r.orig)
    BY <2>1, <2>5, Zenon
  <2>7. Weight(s) = Weight(r) + r.val
    BY <1>2, <1>3, <1>4, <1>8, AddedWeight, Zenon DEF UInv
  <2>8. sem' \in Int
    BY <1>4, <2>2
  <2>9. ~hist'.lost => sem' - sem = (hist'.orphans - hist.orphans) + (Weight(s) - Weight(r))
    BY <1>4, <1>6, <1>7, <2>2, <2>5, <2>6, <2>7
  <2>10. Balanced(t, s)
    BY <1>1, <1>4, <2>5, <2>6, <2>8, <2>9, Zenon DEF Balanced
  <2> QED BY <1>3, <1>5, <2>10, Zenon
<1>9. CASE r.resolved # proc
  <2>1. sem' = sem /\ hist' = [hist EXCEPT !.strayed = TRUE]
    BY <1>1, <1>9, Zenon DEF WriteSem
  <2>2. hist' = [orphans |-> hist.orphans, lost |-> hist.lost, strayed |-> TRUE]
    BY <1>7, <2>1, Zenon
  <2>3. HistIs(hist') /\ hist'.lost = hist.lost /\ hist'.strayed = TRUE
    BY <1>7, <2>2, Zenon DEF HistIs
  <2>4. hist'.strayed
    BY <2>3, Zenon
  <2>5. Balanced(t, s)
    BY <1>4, <1>7, <2>1, <2>3, <2>4, Zenon DEF Balanced
  <2> QED BY <1>3, <1>5, <2>5, Zenon
<1> QED BY <1>8, <1>9, Zenon

\* A call that ends without its update has changed nothing; what disable was to
\* take back stays.
LEMMA DisabledWeight ==
  ASSUME World, NEW t \in Tracers, NEW r, TracerOK(t, r), r.at \in {"add", "write"}
  PROVE  Weight(r) = Weight(Disabled(r)) + (IF Disabling(r) THEN Left(r) ELSE 0)
<1>1. PICK s : s = Disabled(r)
  BY Zenon
<1>2. IsTracer(r) /\ KernelCounts(r.events) \in Nat /\ Left(r) \in Nat
  BY OfCounted, Zenon DEF TracerOK, Typed
<1>3. CASE r.op = "close"
  <2>1. s = Dead /\ Weight(s) = 0
    BY <1>1, <1>3, DeadWeight, Zenon DEF Disabled, Dead
  <2>2. r.events = {}
    BY <1>3, Zenon DEF TracerOK, Control, Tracers
  <2>3. KernelCounts(r.events) = 0
    BY <2>2, LocsChange, Zenon
  <2>4. Disabling(r)
    BY <1>3, Zenon DEF Disabling
  <2> QED BY <1>1, <1>2, <2>1, <2>3, <2>4 DEF Weight
<1>4. CASE r.op # "close"
  <2>1. s = Return(r)
    BY <1>1, <1>4, Zenon DEF Disabled
  <2>2. Rest(r, s) /\ s.op = "none"
    BY <1>2, <2>1, ReturnFields, Zenon
  <2>3. ~Disabling(s)
    BY <2>2, Zenon DEF Disabling
  <2>4. CASE Disabling(r)
    <3>1. ~r.attached_to /\ r.added = 0
      BY <2>4, Zenon DEF TracerOK, AtSem, Disabling
    <3>2. Left(s) = 0 /\ s.events = r.events
      BY <2>2, <2>3, <3>1 DEF Left, Counts, Rest
    <3> QED BY <1>1, <1>2, <2>4, <3>2 DEF Weight
  <2>5. CASE ~Disabling(r)
    <3>1. Weight(s) = Weight(r)
      BY <2>2, <2>3, <2>5, SameWeight, Zenon DEF Rest
    <3>2. Weight(r) \in Nat
      BY OfCounted, Zenon DEF TracerOK
    <3> QED BY <1>1, <2>5, <3>1, <3>2
  <2> QED BY <2>4, <2>5, Zenon
<1> QED BY <1>3, <1>4, Zenon

\* Failing to read or to write it is balanced too: what disable would have taken
\* back is recorded as left behind.
LEMMA AddFailsBalance ==
  ASSUME UInv, NEW t \in Tracers, AddFails(t)
  PROVE  \E s : Set(t, s) /\ TracerOK(t, s) /\ Balanced(t, s)
<1>1. PICK r : r = tr[t]
  BY Zenon
<1>2. PICK q : q = Resolve(r)
  BY Zenon
<1>3. PICK n : n = IF Disabling(r) THEN Left(r) ELSE 0
  BY Zenon
<1>4. /\ r.at \in {"add", "write"} /\ Orphan(n) /\ sem' = sem
      /\ Set(t, Disabled(r)) \/ Set(t, Disabled(q))
  BY <1>1, <1>2, <1>3, Zenon DEF AddFails, At
<1>5. TracerOK(t, r) /\ World
  BY <1>1, Zenon DEF UInv, AllOK
<1>6. TracerOK(t, q) /\ Weight(q) = Weight(r) /\ Locals(r, q)
  BY <1>2, <1>5, ResolveOK, ResolveWeight, Zenon
<1>7. (Disabling(q) <=> Disabling(r)) /\ (Disabling(r) => Left(q) = Left(r))
  <2>1. Disabling(q) <=> Disabling(r)
    BY <1>6, Zenon DEF Disabling, Locals
  <2>2. /\ r.resolved # None => q.resolved = r.resolved
        /\ q.attached_to = r.attached_to /\ q.added = r.added
    BY <1>2, <1>5, ResolveWeight, Zenon
  <2>3. Disabling(r) => r.resolved # None
    BY <1>5, Zenon DEF TracerOK, AtSem, Disabling
  <2> QED BY <2>1, <2>2, <2>3, Zenon DEF Left, Counts
<1>8. n \in Nat /\ (~Alive => n = 0)
  BY <1>3, <1>5, OfCounted, Zenon DEF TracerOK
<1>9. ASSUME NEW x, TracerOK(t, x), x.at \in {"add", "write"}, Weight(x) = Weight(r),
             Disabling(x) <=> Disabling(r), Disabling(r) => Left(x) = Left(r),
             Set(t, Disabled(x))
      PROVE  \E s : Set(t, s) /\ TracerOK(t, s) /\ Balanced(t, s)
  <2>1. PICK s : s = Disabled(x)
    BY Zenon
  <2>2. TracerOK(t, s)
    BY <1>5, <1>9, <2>1, DisabledOK, Zenon
  <2>3. Weight(r) = Weight(s) + n
    BY <1>3, <1>5, <1>9, <2>1, DisabledWeight, Zenon
  <2>4. Weight(s) \in Nat /\ sem \in Int
    BY <2>2, OfCounted, Zenon DEF TracerOK, UInv, SemOK
  <2>5. sem' = sem - 0 /\ Weight(tr[t]) = Weight(s) + 0 + n
    BY <1>1, <1>4, <1>8, <2>3, <2>4
  <2>6. Balanced(t, s)
    BY <1>4, <1>8, <2>2, <2>5, MovingStep
  <2> QED BY <1>9, <2>1, <2>2, <2>6, Zenon
<1>10. q.at \in {"add", "write"}
  BY <1>4, <1>6, Zenon DEF Locals
<1> QED BY <1>4, <1>5, <1>6, <1>7, <1>9, <1>10, Zenon

\* A call that begins counts nothing: its increment is not made, or not needed.
LEMMA BeginWeight ==
  ASSUME World, NEW t, NEW r, TracerOK(t, r), r.op = "none"
  PROVE  /\ \A op, at, val : op \notin {"detach", "close"} \/ at \notin {"add", "write"} =>
              Weight(Goto(r, op, at, val)) = Weight(r)
         /\ \A op \in {"enable", "attach"} : Weight(EnableProbe(r, op)) = Weight(r)
<1>1. IsTracer(r) /\ ~Disabling(r)
  BY Zenon DEF TracerOK, Typed, Disabling
<1>2. ASSUME NEW op, NEW at, NEW val, op \notin {"detach", "close"} \/ at \notin {"add", "write"}
      PROVE  Weight(Goto(r, op, at, val)) = Weight(r)
  <2>1. PICK s : s = Goto(r, op, at, val)
    BY Zenon
  <2>2. Rest(r, s) /\ s.op = op /\ s.at = at
    BY <1>1, <2>1, GotoFields
  <2>3. ~Disabling(s)
    BY <1>2, <2>2, Zenon DEF Disabling
  <2>4. Weight(s) = Weight(r)
    BY <1>1, <2>2, <2>3, SameWeight, Zenon DEF Rest
  <2> QED BY <2>1, <2>4, Zenon
<1>3. ASSUME NEW op \in {"enable", "attach"}
      PROVE  Weight(EnableProbe(r, op)) = Weight(r)
  <2>1. CASE need_enable
    <3>1. Weight(Goto(r, op, "add", 1)) = Weight(r)
      BY <1>2
    <3> QED BY <2>1, <3>1, Zenon DEF EnableProbe
  <2>2. CASE ~need_enable
    <3>1. PICK s : s = Enabled(r, op)
      BY Zenon
    <3>2. EnabledIs(r, op, s)
      BY <1>1, <3>1, EnabledFields, Zenon
    <3>3. Left(s) = Left(r) /\ s.events = r.events
      BY <2>2, <3>2, Zenon DEF EnabledIs, Left, Counts
    <3> QED BY <2>2, <3>1, <3>3, Zenon DEF EnableProbe, Weight
  <2> QED BY <2>1, <2>2, Zenon
<1> QED BY <1>2, <1>3, Zenon

\* The calls of a context.
LEMMA ContextBalance ==
  ASSUME UInv, NEW t \in Contexts, Context(t)
  PROVE  \E s : Set(t, s) /\ TracerOK(t, s) /\ Balanced(t, s)
<1>0. t \in Tracers /\ World /\ AllOK /\ TracerOK(t, tr[t])
  BY Zenon DEF Tracers, UInv, AllOK
<1>1. PICK s : Set(t, s) /\ TracerOK(t, s)
  BY <1>0, ContextOK, Zenon
<1>2. PICK r : r = Ask(tr[t])
  BY Zenon
<1>3. PICK junk \in BOOLEAN : \/ enable_probe(t, junk) \/ close(t, junk)
                              \/ \E val \in {-1, 1} : addsem_probe(t, val, junk)
  BY Zenon DEF Context
<1>4. tr[t].op = "none"
  BY <1>3, Zenon DEF enable_probe, close, addsem_probe, In
<1>5. TracerOK(t, r)
  BY <1>0, <1>2, <1>4, AskOK, Zenon
<1>6. /\ Weight(r) = Weight(tr[t]) /\ Left(r) = Left(tr[t]) /\ r.op = "none"
  <2>1. /\ Locals(tr[t], r) /\ r.attached_to = tr[t].attached_to
        /\ r.resolved = tr[t].resolved /\ r.events = tr[t].events /\ r.added = tr[t].added
    BY <1>0, <1>2, AskFields DEF TracerOK, Typed
  <2>2. Disabling(r) <=> Disabling(tr[t])
    BY <2>1, Zenon DEF Locals, Disabling
  <2>3. r.op = "none"
    BY <1>4, <2>1, Zenon DEF Locals
  <2> QED BY <2>1, <2>2, <2>3, SameWeight, Zenon
<1>7. ASSUME NEW q, Set(t, q), Weight(q) = Weight(r), UNCHANGED <<sem, hist>>
      PROVE  Balanced(t, s)
  BY <1>0, <1>1, <1>6, <1>7, OneSet, QuietStep, Zenon
<1>8. CASE enable_probe(t, junk)
  <2>1. /\ Set(t, IF Stale(tr[t], junk) \/ r.attached_to THEN r ELSE EnableProbe(r, "enable"))
        /\ UNCHANGED <<sem, hist>>
    BY <1>2, <1>8, Zenon DEF enable_probe
  <2>2. Weight(EnableProbe(r, "enable")) = Weight(r)
    BY <1>0, <1>5, <1>6, BeginWeight, Zenon
  <2> QED BY <1>1, <1>7, <2>1, <2>2, Zenon
<1>9. ASSUME NEW val \in {-1, 1}, addsem_probe(t, val, junk)
      PROVE  Balanced(t, s)
  <2>1. /\ Set(t, IF Stale(tr[t], junk) THEN r ELSE Goto(r, "addsem", "add", val))
        /\ UNCHANGED <<sem, hist>>
    BY <1>2, <1>9, Zenon DEF addsem_probe
  <2>2. Weight(Goto(r, "addsem", "add", val)) = Weight(r)
    BY <1>0, <1>5, <1>6, BeginWeight
  <2> QED BY <1>7, <2>1, <2>2, Zenon
<1>10. CASE close(t, junk)
  <2>1. PICK d : d = DisableProbe(r, "close")
    BY Zenon
  <2>2. CASE Stale(tr[t], junk) \/ d.op = "none"
    <3>1. TracerGone(t, r)
      BY <1>2, <1>10, <2>1, <2>2, Zenon DEF close
    <3>2. Set(t, Dead) /\ TracerOK(t, Dead) /\ Balanced(t, Dead)
      BY <1>0, <1>5, <1>6, <3>1, GoneBalanced, Zenon DEF TracerOK
    <3> QED BY <3>2, Zenon
  <2>3. CASE ~(Stale(tr[t], junk) \/ d.op = "none")
    <3>1. PICK q : q = [d EXCEPT !.added = 0]
      BY Zenon
    <3>2. PICK e : e = [r EXCEPT !.attached_to = FALSE]
      BY Zenon
    <3>3. Set(t, q) /\ sem' = sem /\ Orphan(Left(e))
      BY <1>2, <1>10, <2>1, <2>3, <3>1, <3>2, Zenon DEF close
    <3>4. q = s
      BY <1>0, <1>1, <3>3, OneSet, Zenon
    <3>5. DisableIs(r, "close", d)
      BY <1>5, <2>1, DisableFields, Zenon DEF TracerOK, Typed
    <3>6. /\ IsTracer(d) /\ d.op = "close" /\ d.at = "add" /\ d.resolved = r.resolved
          /\ d.events = r.events /\ r.attached_to /\ need_enable
      BY <2>3, <3>5, Zenon DEF DisableIs
    <3>7. /\ q.added = 0 /\ q.op = "close" /\ q.at = "add" /\ q.resolved = r.resolved
          /\ q.events = r.events
      BY <3>1, <3>6, AddedFields DEF Locals
    <3>8. /\ IsTracer(e) /\ e.attached_to = FALSE /\ Locals(r, e) /\ e.resolved = r.resolved
          /\ e.added = r.added
      BY <1>5, <3>2, AttachedFields DEF TracerOK, Typed
    <3>9. ~e.attached_to /\ ~Disabling(e) /\ ~Disabling(r) /\ Disabling(q)
      BY <1>6, <3>7, <3>8, Zenon DEF Disabling, Locals
    <3>10. /\ Left(q) = IF Alive /\ r.resolved = proc THEN 1 ELSE 0
           /\ Left(e) = IF Alive /\ r.resolved = proc THEN r.added ELSE 0
           /\ Left(r) = IF Alive /\ r.resolved = proc THEN 1 + r.added ELSE 0
           /\ r.added \in {0, 1}
      <4>1. r.added \in {0, 1}
        BY <1>5, Zenon DEF TracerOK, Typed
      <4> QED BY <3>6, <3>7, <3>8, <3>9, <4>1 DEF Left, Counts
    <3>11. /\ Left(e) \in Nat /\ (~Alive => Left(e) = 0)
           /\ KernelCounts(r.events) \in Nat /\ sem \in Int
      BY <1>5, <3>10, OfCounted DEF TracerOK, UInv, SemOK
    <3>12. /\ sem' = sem - 0 /\ Weight(tr[t]) = Weight(s) + 0 + Left(e)
      BY <1>6, <3>3, <3>4, <3>7, <3>10, <3>11 DEF Weight
    <3>13. PICK n \in Nat : n = Left(e)
      BY <3>11, Zenon
    <3>14. Balanced(t, s)
      BY <1>0, <1>1, <3>3, <3>11, <3>12, <3>13, MovingStep
    <3> QED BY <1>1, <3>14, Zenon
  <2> QED BY <2>2, <2>3, Zenon
<1> QED BY <1>1, <1>3, <1>8, <1>9, <1>10, Zenon

\* Nothing is left behind.
LEMMA NoOrphan == ASSUME SemOK, UNCHANGED hist PROVE Orphan(0)
<1>1. hist = [orphans |-> hist.orphans, lost |-> hist.lost, strayed |-> hist.strayed]
      /\ hist.orphans + 0 = hist.orphans
  BY DEF SemOK
<1>2. [hist EXCEPT !.orphans = @ + 0] = hist
  BY <1>1, Zenon
<1> QED BY <1>2, Zenon DEF Orphan

\* detach_uprobe closes the events of a location.
LEMMA DetachBalance ==
  ASSUME UInv, NEW t \in Objects, NEW s, TracerOK(t, s), UNCHANGED hist,
         NEW l, NEW next, DetachIs(tr[t], s, l, next)
  PROVE  Balanced(t, s)
<1>1. PICK r : r = tr[t]
  BY Zenon
<1>2. PICK es : es = EventsAt(r, l)
  BY Zenon
<1>3. TracerOK(t, r) /\ t \in Tracers /\ SemOK
  BY <1>1, Zenon DEF Tracers, UInv, AllOK
<1>4. r.events \subseteq Locs \X (Known \ {None})
  BY <1>3, Zenon DEF TracerOK, Typed
<1>5. KernelCounts(r.events \ es) = KernelCounts(r.events) - KernelCounts(es)
  BY <1>2, <1>4, LocsChange
<1>6. /\ KernelCounts(r.events) \in Nat /\ Left(r) \in Nat
      /\ ~Alive => KernelCounts(r.events) = 0
  BY <1>3, OfCounted, Zenon DEF TracerOK
<1>7. KernelCounts(es) \in Nat /\ (~Alive => KernelCounts(es) = 0)
  <2>1. es \subseteq Locs \X (Known \ {None})
    BY <1>2, <1>4, Zenon DEF EventsAt
  <2>2. /\ KernelCounts(es) = IF ref_ctr /\ need_enable THEN Cardinality(LocsIn(es)) ELSE 0
        /\ Cardinality(LocsIn(es)) \in Nat
    BY <2>1, KernelIs, Zenon
  <2>3. ~Alive => LocsIn(es) = {}
    BY <2>1, Zenon DEF LocsIn, Alive
  <2>4. Cardinality({}) = 0
    BY FS_EmptySet, Zenon
  <2> QED BY <2>2, <2>3, <2>4
<1>8. /\ s.attached_to = r.attached_to /\ s.resolved = r.resolved /\ s.added = r.added
      /\ Disabling(s) <=> Disabling(r)
  BY <1>1, Zenon DEF DetachIs, LocIs, Disabling
<1>9. Left(s) = Left(r)
  BY <1>8, Zenon DEF Left, Counts
<1>10. \/ sem' = sem - KernelCounts(es) /\ s.events = r.events \ es
       \/ sem' = sem /\ s.events = r.events
  BY <1>1, <1>2, Zenon DEF DetachIs, LocIs
<1>11. CASE sem' = sem - KernelCounts(es) /\ s.events = r.events \ es
  <2>1. Weight(tr[t]) = Weight(s) + KernelCounts(es) + 0
    BY <1>1, <1>5, <1>6, <1>7, <1>9, <1>11 DEF Weight
  <2>2. PICK k \in Int : k = KernelCounts(es)
    BY <1>7
  <2>3. Orphan(0)
    BY <1>3, NoOrphan, Zenon
  <2> QED BY <1>3, <1>7, <1>11, <2>1, <2>2, <2>3, MovingStep, Zenon
<1>12. CASE sem' = sem /\ s.events = r.events
  <2>1. Weight(s) = Weight(tr[t])
    BY <1>1, <1>9, <1>12, Zenon DEF Weight
  <2> QED BY <1>3, <1>12, <2>1, QuietStep, Zenon
<1> QED BY <1>10, <1>11, <1>12, Zenon

\* attach_uprobe opens the event of a location.
LEMMA AttachBalance ==
  ASSUME UInv, NEW t \in Objects, NEW s, TracerOK(t, s), UNCHANGED hist,
         tr[t].op = "attach", tr[t].at = "locs", OpenIs(tr[t], s) \/ NotOpenIs(tr[t], s)
  PROVE  Balanced(t, s)
<1>1. PICK r : r = tr[t]
  BY Zenon
<1>2. TracerOK(t, r) /\ t \in Tracers /\ SemOK /\ ~Disabling(r)
  BY <1>1, Zenon DEF Tracers, UInv, AllOK, Disabling
<1>3. CASE NotOpenIs(r, s)
  <2>1. Rest(r, s) /\ ~Disabling(s) /\ sem' = sem
    BY <1>3, Zenon DEF NotOpenIs, Disabling
  <2>2. Weight(s) = Weight(tr[t])
    BY <1>1, <1>2, <2>1, SameWeight, Zenon DEF Rest
  <2> QED BY <1>2, <2>1, <2>2, QuietStep, Zenon
<1>4. CASE OpenIs(r, s)
  <2>1. PICK one : one = {<<r.val, proc>>}
    BY Zenon
  <2>2. /\ r.val \in Locs /\ r.events \subseteq Locs \X (Known \ {None})
        /\ \A e \in r.events : e[1] # r.val
    BY <1>1, <1>2, <1>4, SomeLocs, Zenon DEF OpenIs, TracerOK, Typed, Located, Locs
  <2>3. Alive /\ sem' = sem + KernelCounts(one) /\ s.events = r.events \cup one
    BY <1>4, <2>1, Zenon DEF OpenIs
  <2>4. KernelCounts(r.events \cup one) = KernelCounts(r.events) + KernelCounts(one)
    BY <2>1, <2>2, <2>3, LocsChange, Zenon
  <2>5. one \subseteq Locs \X (Known \ {None})
    BY <2>1, <2>2, <2>3 DEF Alive, Known
  <2>6. KernelCounts(one) \in Nat
    BY <2>5, KernelIs
  <2>7. KernelCounts(r.events) \in Nat /\ Left(r) \in Nat /\ sem \in Int
    BY <1>2, OfCounted, Zenon DEF TracerOK, SemOK
  <2>8. ~Disabling(s)
    BY <1>1, <1>4, Zenon DEF OpenIs, Disabling
  <2>9. Left(s) = Left(r)
    BY <1>2, <1>4, <2>8, Zenon DEF Left, Counts, OpenIs
  <2>10. PICK k \in Int : k = 0 - KernelCounts(one)
    BY <2>6
  <2>11. sem' = sem - k /\ Weight(tr[t]) = Weight(s) + k + 0
    BY <1>1, <2>3, <2>4, <2>6, <2>7, <2>9, <2>10 DEF Weight
  <2>12. Orphan(0)
    BY <1>2, NoOrphan, Zenon
  <2> QED BY <1>2, <2>3, <2>11, <2>12, MovingStep, Zenon
<1> QED BY <1>1, <1>3, <1>4, Zenon

\* Every step of a tracer that attaches is balanced.
LEMMA ObjectBalance ==
  ASSUME UInv, NEW t \in Objects, Object(t)
  PROVE  \E s : Set(t, s) /\ TracerOK(t, s) /\ Balanced(t, s)
<1>1. PICK r : r = tr[t]
  BY Zenon
<1>2. TracerOK(t, r) /\ t \in Tracers /\ World /\ AllOK /\ IsTracer(r)
  BY <1>1, Zenon DEF Tracers, UInv, AllOK, TracerOK, Typed
<1>3. PICK s : Set(t, s) /\ TracerOK(t, s)
  BY <1>1, <1>2, ObjectOK, Zenon
<1>4. ASSUME NEW q, Set(t, q), Weight(q) = Weight(r), UNCHANGED <<sem, hist>>
      PROVE  Balanced(t, s)
  BY <1>1, <1>2, <1>3, <1>4, OneSet, QuietStep, Zenon
<1>5. ASSUME ~Disabling(r)
      PROVE  Weight(Return(r)) = Weight(r)
  <2>1. PICK q : q = Return(r)
    BY Zenon
  <2>2. Rest(r, q) /\ q.op = "none"
    BY <1>2, <2>1, ReturnFields, Zenon
  <2>3. Weight(q) = Weight(r)
    BY <1>5, <2>2, SameWeight, Zenon DEF Rest, Disabling
  <2> QED BY <2>1, <2>3, Zenon
<1>6. CASE attach_usdt(t)
  <2>1. /\ r.op = "none" /\ UNCHANGED <<sem, hist>>
        /\ Set(t, IF ref_ctr THEN Goto(r, "attach", "locs", 1) ELSE EnableProbe(r, "attach"))
    BY <1>1, <1>6, Zenon DEF attach_usdt, In
  <2>2. /\ Weight(Goto(r, "attach", "locs", 1)) = Weight(r)
        /\ Weight(EnableProbe(r, "attach")) = Weight(r)
    BY <1>2, <2>1, BeginWeight
  <2> QED BY <1>3, <1>4, <2>1, <2>2, Zenon
<1>7. CASE AttachLoc(t)
  <2>1. r.op = "attach" /\ r.at = "locs" /\ UNCHANGED hist
    BY <1>1, <1>7, Zenon DEF AttachLoc, In, At
  <2>2. PICK q : Set(t, q) /\ (OpenIs(tr[t], q) \/ NotOpenIs(tr[t], q))
    BY <1>1, <1>2, <1>7, AttachLocFields, Zenon
  <2>3. q = s
    BY <1>2, <1>3, <2>2, OneSet, Zenon
  <2> QED BY <1>1, <1>3, <2>1, <2>2, <2>3, AttachBalance, Zenon
<1>8. ASSUME NEW l, NEW next, DetachOne(t, l, next), UNCHANGED hist
      PROVE  Balanced(t, s)
  <2>1. PICK q : Set(t, q) /\ DetachIs(tr[t], q, l, next)
    BY <1>1, <1>2, <1>8, DetachOneFields, Zenon
  <2>2. q = s
    BY <1>2, <1>3, <2>1, OneSet, Zenon
  <2> QED BY <1>3, <1>8, <2>1, <2>2, DetachBalance, Zenon
<1>9. CASE UndoLoc(t)
  <2>1. /\ r.at = "undo" /\ UNCHANGED hist
        /\ \/ DetachOne(t, r.val, r.val + 1)
           \/ Set(t, Return(r)) /\ UNCHANGED sem
    BY <1>1, <1>9, Zenon DEF UndoLoc, At
  <2>2. ~Disabling(r)
    BY <2>1, Zenon DEF Disabling
  <2> QED BY <1>3, <1>4, <1>5, <1>8, <2>1, <2>2, Zenon
<1>10. CASE detach_usdt(t)
  <2>1. r.op = "none" /\ UNCHANGED <<sem, hist>> /\ Set(t, Goto(r, "detach", "locs", 1))
    BY <1>1, <1>10, Zenon DEF detach_usdt, In
  <2>2. Weight(Goto(r, "detach", "locs", 1)) = Weight(r)
    BY <1>2, <2>1, BeginWeight
  <2> QED BY <1>3, <1>4, <2>1, <2>2, Zenon
<1>11. CASE DetachLoc(t)
  <2>1. /\ r.at = "locs" /\ UNCHANGED hist
        /\ \/ DetachOne(t, r.val, r.val + 1)
           \/ /\ Set(t, IF ref_ctr THEN Return(r) ELSE DisableProbe(r, "detach"))
              /\ UNCHANGED sem
    BY <1>1, <1>11, Zenon DEF DetachLoc, At
  <2>2. ~Disabling(r)
    BY <2>1, Zenon DEF Disabling
  <2>3. Weight(DisableProbe(r, "detach")) = Weight(r)
    <3>1. PICK d : d = DisableProbe(r, "detach")
      BY Zenon
    <3>2. DisableIs(r, "detach", d)
      BY <1>2, <3>1, DisableFields, Zenon
    <3>3. ~d.attached_to
      BY <3>2, Zenon DEF DisableIs
    <3>4. /\ d.resolved = r.resolved /\ d.events = r.events /\ d.added = r.added
          /\ r.attached_to /\ need_enable => Disabling(d)
          /\ ~(r.attached_to /\ need_enable) => ~Disabling(d)
      BY <3>2, Zenon DEF DisableIs, Disabling
    <3>5. Counts(d) <=> Counts(r)
      BY <2>2, <3>3, <3>4, Zenon DEF Counts
    <3>6. Weight(d) = Weight(r)
      BY <3>4, <3>5, Zenon DEF Weight, Left
    <3> QED BY <3>1, <3>6, Zenon
  <2> QED BY <1>3, <1>4, <1>5, <1>8, <2>1, <2>2, <2>3, Zenon
<1>12. CASE destroy(t)
  <2>1. TracerGone(t, r)
    BY <1>1, <1>12, Zenon DEF destroy
  <2> QED BY <1>1, <1>2, <2>1, GoneBalanced, Zenon DEF TracerOK
<1> QED BY <1>3, <1>6, <1>7, <1>9, <1>10, <1>11, <1>12, Zenon DEF Object

-----------------------------------------------------------------------------
(* The inductive invariant.                                                 *)

\* A process is not None.
LEMMA SomeProc == \A p \in Procs : p # None
BY UsdtAssumption DEF None

\* In a new process nothing is counted yet, in none nothing at all.
LEMMA ProcessBalance ==
  ASSUME UInv, Exit \/ \E p \in Procs : Start(p)
  PROVE  SemOK' /\ Debts'
<1>1. UNCHANGED <<need_enable, ref_ctr, tr>>
  BY Zenon DEF Exit, Start, kernel
<1>2. ASSUME NEW t \in Tracers
      PROVE  /\ Alive' => tr[t].resolved # proc'
             /\ \A l : <<l, proc'>> \notin tr[t].events
  <2>1. /\ tr[t].resolved \in past \cup {proc, None}
        /\ tr[t].events \subseteq Locs \X ((past \cup {proc, None}) \ {None})
    BY Zenon DEF UInv, AllOK, TracerOK, Typed, Known
  <2>2. CASE Exit
    BY <2>1, <2>2, Zenon DEF Exit, Alive
  <2>3. ASSUME NEW p \in Procs, Start(p)
        PROVE  p \notin past /\ p # None /\ proc = None /\ proc' = p
    BY <2>3, SomeProc, Zenon DEF Start, Alive
  <2> QED BY <2>1, <2>2, <2>3, Zenon
<1>3. Owed' = {}
  <2>1. ASSUME NEW t \in Tracers, NEW what, NEW l PROVE ~Owes(tr[t], what, l)'
    <3>1. Alive' => tr'[t].resolved # proc'
      BY <1>1, <1>2, Zenon
    <3>2. <<l, proc'>> \notin tr'[t].events
      BY <1>1, <1>2, Zenon
    <3> QED BY <3>1, <3>2, Zenon DEF Owes, Counts
  <2>2. \A t \in Tracers : \A what, l : ~Owes(tr[t], what, l)'
    BY <2>1, Zenon
  <2> QED BY <2>2, Zenon DEF Owed
<1>4. IsFiniteSet(Owed') /\ Cardinality(Owed') = 0
  BY <1>3, FS_EmptySet, Zenon
<1>5. SemOK' /\ sem' = 0 /\ hist'.orphans = 0
  <2>1. CASE Exit
    <3>1. sem' = 0 /\ hist' = [orphans |-> 0, lost |-> FALSE, strayed |-> FALSE]
      BY <2>1, Zenon DEF Exit
    <3>2. hist'.lost \in BOOLEAN /\ hist'.strayed \in BOOLEAN
      <4>1. hist'.lost = FALSE /\ hist'.strayed = FALSE
        BY <3>1, Zenon
      <4> QED BY <4>1, Zenon
    <3> QED BY <3>1, <3>2 DEF SemOK
  <2>2. CASE \E p \in Procs : Start(p)
    <3>1. ~Alive /\ UNCHANGED <<sem, hist>>
      BY <2>2, Zenon DEF Start
    <3> QED BY <3>1, Zenon DEF UInv, SemOK
  <2> QED BY <2>1, <2>2, Zenon
<1>6. SemaphoreCounts'
  <2>1. sem' = Expected'
    BY <1>4, <1>5 DEF Expected
  <2> QED BY <2>1, Zenon DEF SemaphoreCounts
<1> QED BY <1>4, <1>5, <1>6, Zenon DEF Debts

\* The system calls that fail are bounded.
LEMMA FaultsStep ==
  ASSUME World, UNCHANGED world, UNCHANGED faults \/ Fault
  PROVE  World'
<1>1. faults' \in 0..MaxFaults
  BY UsdtAssumption DEF World, Fault
<1> QED BY <1>1, Zenon DEF World, world, kernel

\* No step of a tracer changes the process, and each makes one call at most.
LEMMA TracerWorld ==
  ASSUME NEW t, Probe(t) \/ Context(t) \/ Object(t)
  PROVE  UNCHANGED world /\ (UNCHANGED faults \/ Fault)
<1>1. CASE Probe(t)
  BY <1>1, Zenon DEF Probe, ReadSem, WriteSem, AddFails, Kill
<1>2. CASE Context(t)
  BY <1>2, Zenon DEF Context, enable_probe, close, addsem_probe
<1>3. CASE Object(t)
  <2>1. \A l, next : DetachOne(t, l, next) => UNCHANGED faults \/ Fault
    BY Zenon DEF DetachOne
  <2> QED BY <1>3, <2>1, Zenon DEF Object, attach_usdt, AttachLoc, UndoLoc, detach_usdt, DetachLoc,
                            destroy
<1> QED BY <1>1, <1>2, <1>3, Zenon

\* The steps at the semaphore, and the death of a tracer.
LEMMA ProbeBalance ==
  ASSUME UInv, NEW t \in Tracers, Probe(t)
  PROVE  \E s : Set(t, s) /\ TracerOK(t, s) /\ Balanced(t, s)
<1>1. TracerOK(t, tr[t]) /\ World /\ SemOK
  BY Zenon DEF UInv, AllOK
<1>2. CASE ReadSem(t)
  BY <1>1, <1>2, ReadOK, ReadBalance, Zenon
<1>3. CASE WriteSem(t)
  BY <1>3, WriteBalance, Zenon
<1>4. CASE AddFails(t)
  BY <1>4, AddFailsBalance, Zenon
<1>5. CASE Kill(t)
  <2>1. TracerGone(t, tr[t])
    BY <1>5, Zenon DEF Kill
  <2>2. PICK r : r = tr[t]
    BY Zenon
  <2>3. Typed(r) /\ Weight(r) = Weight(tr[t]) /\ TracerGone(t, r)
    BY <1>1, <2>1, <2>2, Zenon DEF TracerOK
  <2> QED BY <2>3, GoneBalanced, Zenon
<1> QED BY <1>2, <1>3, <1>4, <1>5, Zenon DEF Probe

\* Every step keeps the invariant.
LEMMA UInvNext == UInv /\ [Next]_vars => UInv'
<1> SUFFICES ASSUME UInv, [Next]_vars PROVE UInv'
  BY Zenon
<1>1. CASE Exit \/ \E p \in Procs : Start(p)
  BY <1>1, OtherProcess, ProcessBalance, Zenon DEF UInv
<1>2. ASSUME NEW t \in Tracers, Probe(t) \/ Context(t) \/ Object(t),
             \E s : Set(t, s) /\ TracerOK(t, s) /\ Balanced(t, s)
      PROVE  UInv'
  <2>1. UNCHANGED world /\ (UNCHANGED faults \/ Fault)
    BY <1>2, TracerWorld, Zenon
  <2>2. PICK s : Set(t, s) /\ TracerOK(t, s) /\ Balanced(t, s)
    BY <1>2, Zenon
  <2>3. World' /\ AllOK'
    BY <2>1, <2>2, FaultsStep, OneTracer, Zenon DEF UInv
  <2>4. SemOK' /\ Debts'
    BY <2>1, <2>2, BalancedSteps, Zenon
  <2> QED BY <2>3, <2>4, Zenon DEF UInv
<1>3. ASSUME NEW t \in Tracers, Probe(t) PROVE UInv'
  BY <1>2, <1>3, ProbeBalance, Zenon
<1>4. ASSUME NEW t \in Contexts, Context(t) PROVE UInv'
  BY <1>2, <1>4, ContextBalance, Zenon DEF Tracers
<1>5. ASSUME NEW t \in Objects, Object(t) PROVE UInv'
  BY <1>2, <1>5, ObjectBalance, Zenon DEF Tracers
<1>6. CASE UNCHANGED vars
  <2>1. UNCHANGED <<proc, past, sem, need_enable, ref_ctr, tr, faults, hist>>
    BY <1>6, Zenon DEF vars
  <2>2. World' /\ SemOK'
    BY <2>1, Zenon DEF UInv, World, SemOK, Alive
  <2>3. AllOK'
    <3>1. tr' = [t \in Tracers |-> tr'[t]] /\ \A t \in Tracers : TracerOK(t, tr'[t])
      BY <2>1, Zenon DEF UInv, AllOK
    <3>2. ASSUME NEW t \in Tracers PROVE TracerOK(t, tr[t])'
      BY <2>1, <3>1, PrimedOK, Zenon
    <3> QED BY <3>1, <3>2, Zenon DEF AllOK
  <2>4. Debts'
    <3>1. Owed' = Owed
      BY <2>1, Zenon DEF Owed, Owes, Counts, Alive, Disabling
    <3> QED BY <2>1, <3>1, Zenon DEF UInv, Debts, SemaphoreCounts, Expected, Alive
  <2> QED BY <2>2, <2>3, <2>4, Zenon DEF UInv
<1> QED BY <1>1, <1>3, <1>4, <1>5, <1>6, Zenon DEF Next

\* It holds at the start.
LEMMA UInvInit == Init => UInv
<1> SUFFICES ASSUME Init PROVE UInv
  BY Zenon
<1>1. World
  BY UsdtAssumption DEF Init, World
<1>2. AllOK
  BY <1>1, DeadOK, Zenon DEF Init, AllOK
<1>3. SemOK
  <2>1. sem = 0 /\ hist = [orphans |-> 0, lost |-> FALSE, strayed |-> FALSE]
    BY Zenon DEF Init
  <2>2. hist.lost \in BOOLEAN /\ hist.strayed \in BOOLEAN
    <3>1. hist.lost = FALSE /\ hist.strayed = FALSE
      BY <2>1, Zenon
    <3> QED BY <3>1, Zenon
  <2> QED BY <2>1, <2>2 DEF SemOK
<1>4. Owed = {}
  <2>1. ASSUME NEW t \in Tracers
        PROVE  tr[t].resolved = None /\ tr[t].events = {}
    BY NewFields, Zenon DEF Init, Fresh
  <2>2. proc # None
    BY SomeProc, UsdtAssumption, Zenon DEF Init
  <2> QED BY <2>1, <2>2, Zenon DEF Owed, Owes, Counts
<1>5. Debts
  <2>1. IsFiniteSet(Owed) /\ Cardinality(Owed) = 0
    BY <1>4, FS_EmptySet, Zenon
  <2>2. sem = Expected
    BY <2>1 DEF Expected, Init
  <2> QED BY <2>1, <2>2, Zenon DEF Debts, SemaphoreCounts
<1> QED BY <1>1, <1>2, <1>3, <1>5, Zenon DEF UInv

\* The invariant holds in every state.
LEMMA UInvHolds == Spec => []UInv
<1>1. UInv /\ [Next]_vars => UInv'
  BY UInvNext, Zenon
<1> QED BY <1>1, UInvInit, PTL DEF Spec

-----------------------------------------------------------------------------
(* The results.                                                             *)

\* The state of the process, of the semaphore and of every tracer is well formed,
\* and the perf events that an object has open are in its uprobes_.
THEOREM TypeOKHolds == Spec => []TypeOK
<1>1. UInv => TypeOK
  <2> SUFFICES ASSUME UInv PROVE TypeOK
    BY Zenon
  <2>1. /\ proc \in Procs \cup {None} /\ past \subseteq Procs /\ proc \notin past
        /\ sem \in Int /\ need_enable \in BOOLEAN /\ ref_ctr \in BOOLEAN
        /\ faults \in 0..MaxFaults /\ DOMAIN tr = Tracers
    BY Zenon DEF UInv, World, SemOK, AllOK
  <2>2. hist \in [orphans : Nat, lost : BOOLEAN, strayed : BOOLEAN]
    <3>1. PICK a, b, c : a = hist.orphans /\ b = hist.lost /\ c = hist.strayed
      BY Zenon
    <3>2. a \in Nat /\ b \in BOOLEAN /\ c \in BOOLEAN
          /\ hist = [orphans |-> a, lost |-> b, strayed |-> c]
      BY <3>1, Zenon DEF UInv, SemOK
    <3> QED BY <3>2, Zenon
  <2>3. ASSUME NEW t \in Tracers
        PROVE  /\ tr[t].attached_to \in BOOLEAN /\ tr[t].resolved \in Procs \cup {None}
               /\ tr[t].uprobes \subseteq Locs /\ tr[t].added \in {0, 1}
               /\ {e[1] : e \in tr[t].events} \subseteq tr[t].uprobes
    <3>1. Typed(tr[t])
      BY Zenon DEF UInv, AllOK, TracerOK
    <3>2. Known \subseteq Procs \cup {None}
      BY <2>1, Zenon DEF Known
    <3> QED BY <3>1, <3>2 DEF Typed
  <2> QED BY <2>1, <2>2, <2>3, Zenon DEF TypeOK
<1> QED BY <1>1, UInvHolds, PTL

\* add_to_semaphore, the kernel's reference counters and the death of tracers:
\* unless an update was lost or strayed, the semaphore of the process that has
\* the pid is the number of increments that are still to be taken back.
THEOREM SemaphoreCountsHolds == Spec => []SemaphoreCounts
<1>1. UInv => SemaphoreCounts
  BY Zenon DEF UInv, Debts
<1> QED BY <1>1, UInvHolds, PTL

\* attach_usdt, its clean-up and detach_usdt: between the calls an object has all
\* locations of the probe or none, as long as no detach_uprobe failed.
THEOREM AllLocationsOrNoneHolds == Spec => []AllLocationsOrNone
<1>1. UInv => AllLocationsOrNone
  BY Zenon DEF UInv, AllOK, TracerOK, Progress, AllLocationsOrNone, In, Tracers
<1> QED BY <1>1, UInvHolds, PTL

\* get_checked and ~Context: a context writes into another program of another
\* mount namespace only if it came after the check or is_stale had answered before.
THEOREM ForeignWriteOnlyUnseenHolds == Spec => ForeignWriteOnlyUnseen
<1> DEFINE Unseen(t) == WriteSem(t) /\ tr[t].resolved # proc =>
                          \/ tr[t].seen # proc \/ tr[t].asked > 1
                          \/ proc.exe = First.exe \/ proc.ns = First.ns
<1>1. ASSUME UInv, NEW t \in Contexts PROVE Unseen(t)
  <2> SUFFICES ASSUME WriteSem(t), tr[t].seen = proc
               PROVE  tr[t].asked > 1 \/ proc.exe = First.exe \/ proc.ns = First.ns
    BY Zenon
  <2>1. TracerOK(t, tr[t]) /\ tr[t].at = "write" /\ proc = tr[t].mem
    BY <1>1, Zenon DEF UInv, AllOK, Tracers, WriteSem, At
  <2>2. proc # None
    BY <2>1, Zenon DEF TracerOK, AtSem
  <2> QED BY <1>1, <2>1, <2>2, Zenon DEF TracerOK, Checked
<1>2. UInv => [\A t \in Contexts : Unseen(t)]_vars
  BY <1>1, Zenon
<1> QED BY <1>2, UInvHolds, PTL DEF ForeignWriteOnlyUnseen
=============================================================================
