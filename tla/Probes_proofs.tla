---------------------------- MODULE Probes_proofs ---------------------------
(***************************************************************************)
(* The probe maps of the C++ API agree with the descriptor table, for      *)
(* every set of functions and events, any number of CPUs, descriptors and  *)
(* files of the rest of the process, and any faults.                       *)
(***************************************************************************)
EXTENDS Probes, WellFoundedInduction, TLAPS

Opening == call.op = "attach" /\ call.at \in {"open", "set_bpf", "failed"}
Library_Objects == {"prog", "perf"}

\* Which calls there are, where each may be, and what its fields then hold.
CallFields ==
  /\ call = [op |-> call.op, at |-> call.at, event |-> call.event, func |-> call.func,
             prog |-> call.prog, pfd |-> call.pfd, got |-> call.got,
             left |-> call.left, failed |-> call.failed]
  /\ call.got \in Seq(Fds) /\ call.left \subseteq Events

Active == call.op \in {"detach", "destroy"} /\ call.at # "next"

CallControl ==
  /\ call.op \in {"none", "load", "unload", "attach", "detach", "destroy"}
  /\ call.op = "none" => call.at = "idle"
  /\ call.op = "load" => call.at = "load" /\ call.event \in Events
  /\ call.op = "unload" => call.at = "unload"
  /\ call.op \in {"load", "unload", "attach"} => call.func \in Funcs
  /\ call.op = "attach" =>
       /\ call.at \in {"load", "open", "set_bpf", "failed", "unload"}
       /\ call.event \in Events /\ probes[call.event] = NoProbe
       /\ call.at \in {"load", "open", "set_bpf"} => Len(call.got) < Width(call.event)
       /\ call.at = "load" => call.got = <<>>
       /\ call.at = "set_bpf" => call.pfd \in Fds
  /\ call.op \in {"detach", "destroy"} =>
       call.at \in {"close", "unload", "tracefs", "erase", "crashed", "next"}
  /\ call.op = "detach" => call.at # "next"
  /\ Active => /\ call.event \in Events /\ call.func \in Funcs
               /\ probes[call.event] # NoProbe /\ call.event \notin call.left
               /\ call.at = "tracefs" => call.event \in Probed
  /\ call.op = "destroy" => \A e \in call.left : probes[e] # NoProbe

CallShape == CallFields /\ CallControl

ProbeShape(e) ==
  \/ probes[e] = NoProbe
  \/ /\ probes[e] = [func |-> probes[e].func, fds |-> probes[e].fds,
                     freed |-> probes[e].freed]
     /\ probes[e].func \in Funcs /\ probes[e].freed \in BOOLEAN
     /\ probes[e].fds \in Seq(Fds) /\ Len(probes[e].fds) = Width(e)

TableShape ==
  /\ fd = [n \in Fds |-> fd[n]]
  /\ \A n \in Fds : fd[n].what \in {"closed", "file", "prog", "perf"}
  /\ funcs_ \in [Funcs -> 0..NFds]
  /\ tracefs \subseteq Probed /\ foreign \subseteq Probed

Shape ==
  /\ CallShape /\ TableShape
  /\ probes = [e \in Events |-> probes[e]] /\ \A e \in Events : ProbeShape(e)

\* A program or perf event is named by a map entry that is not past its close,
\* or by an attach that has not failed yet.
Live(e) == ~probes[e].freed /\ ~Closing(e)
Held(n) ==
  \/ \E f \in Funcs : funcs_[f] = n
  \/ \E e \in Events : n \in Numbers(probes[e].fds) /\ Live(e)
  \/ call.op = "attach" /\ call.at = "set_bpf" /\ n = call.pfd
  \/ Opening /\ n \in Numbers(call.got)
Leakless == \A n \in Fds : fd[n].what \in Library_Objects => Held(n)

\* What an attach in progress holds is its own.
HoldsItsOwn ==
  /\ call.op = "attach" /\ call.at \in {"open", "set_bpf"} =>
       funcs_[call.func] # 0 /\ call.prog = funcs_[call.func]
  /\ call.op = "attach" /\ call.at = "set_bpf" =>
       /\ fd[call.pfd].what = "perf" /\ fd[call.pfd].of = call.event
       /\ call.pfd \notin Numbers(call.got)
  /\ Opening => \A n \in Numbers(call.got) : fd[n] = Perf(call.event, call.func)

\* Only an entry past its close is freed.
FreedIsClosing == \A e \in Events : probes[e].freed => Closing(e)

FuncsTrue == \A f \in Funcs : funcs_[f] # 0 =>
               fd[funcs_[f]].what = "prog" /\ fd[funcs_[f]].of = f
ProbesTrue == \A e \in Events : probes[e] # NoProbe /\ ~Closing(e) =>
                \A n \in Numbers(probes[e].fds) : fd[n] = Perf(e, probes[e].func)

\* What holds until a detach fails.
Truth == FuncsTrue /\ ProbesTrue /\ HoldsItsOwn /\ FreedIsClosing

\* An event in tracefs has an entry, an attach under way or an error; and a
\* call past bpf_detach_probe has removed its event or failed.
Traced ==
  /\ \A e \in tracefs :
       \/ probes[e] # NoProbe \/ e \in errors
       \/ Opening /\ call.event = e
       \/ destroyed /\ DetachFailed
  /\ call.op = "detach" /\ call.at = "erase" => call.event \notin tracefs
  /\ call.op = "destroy" =>
       \A e \in tracefs \ call.left :
         \/ call.event = e /\ call.at \in {"close", "unload", "tracefs", "crashed"}
         \/ e \in errors \/ DetachFailed

-----------------------------------------------------------------------------
(* Lemmas about the operators.                                              *)

\* A non-empty set of naturals has a least element.
LEMMA Least ==
  ASSUME NEW T, T \subseteq Nat, T # {}
  PROVE  \E x \in T : \A y \in T : x <= y
<1> DEFINE R == OpToRel(<, Nat)
<1>1. IsWellFoundedOn(R, Nat)
  BY NatLessThanWellFounded, Zenon
<1> HIDE DEF R
<1>2. PICK x \in T : \A y \in T : ~ (<<y, x>> \in R)
  BY <1>1, WFMin, Zenon
<1>3. ASSUME NEW y \in T PROVE x <= y
  <2>1. ~ (<<y, x>> \in R)
    BY <1>2, Zenon
  <2>2. ~ (y < x)
    BY <2>1, Zenon DEF R, OpToRel
  <2> QED BY <2>2
<1> QED BY <1>3, Zenon

\* The lowest free number is a free number.
LEMMA LowestIsFree ==
  ASSUME HasFree
  PROVE  Lowest \in Fds /\ fd[Lowest] = Closed
<1> DEFINE T == {n \in Fds : fd[n] = Closed}
<1>1. T \subseteq Nat /\ T # {}
  BY ProbesAssumption DEF HasFree, Fds
<1>2. PICK x \in T : \A y \in T : x <= y
  BY <1>1, Least, Zenon
<1>3. \A m \in 1..(x - 1) : fd[m] # Closed
  BY <1>2, ProbesAssumption DEF Fds
<1>4. \E n \in Fds : fd[n] = Closed /\ \A m \in 1..(n - 1) : fd[m] # Closed
  BY <1>2, <1>3, Zenon
<1> QED BY <1>4, Zenon DEF Lowest

\* The numbers of a sequence of descriptors.
LEMMA NumbersFacts ==
  /\ Numbers(<<>>) = {} /\ \A n : Numbers(<<n>>) = {n}
  /\ \A s \in Seq(Fds) : Numbers(s) \subseteq Fds
  /\ \A s \in Seq(Fds), n \in Fds : Numbers(Append(s, n)) = Numbers(s) \cup {n}
<1>1. Numbers(<<>>) = {} /\ \A n : Numbers(<<n>>) = {n}
  BY DEF Numbers
<1>2. \A s \in Seq(Fds) : Numbers(s) \subseteq Fds
  BY DEF Numbers
<1>3. ASSUME NEW s \in Seq(Fds), NEW n \in Fds
      PROVE  Numbers(Append(s, n)) = Numbers(s) \cup {n}
  <2> DEFINE t == Append(s, n)
  <2>1. Len(t) = Len(s) + 1 /\ Len(s) \in Nat
        /\ t[Len(s) + 1] = n /\ \A i \in 1..Len(s) : t[i] = s[i]
    OBVIOUS
  <2> HIDE DEF t
  <2>2. Numbers(t) = {t[i] : i \in 1..(Len(s) + 1)}
    BY <2>1, Zenon DEF Numbers
  <2>3. 1..(Len(s) + 1) = (1..Len(s)) \cup {Len(s) + 1}
    BY <2>1
  <2>4. {t[i] : i \in 1..(Len(s) + 1)} = {t[i] : i \in 1..Len(s)} \cup {n}
    BY <2>1, <2>3, Zenon
  <2>5. {t[i] : i \in 1..Len(s)} = {s[i] : i \in 1..Len(s)}
    BY <2>1, Zenon
  <2> QED BY <2>2, <2>4, <2>5, Zenon DEF t, Numbers
<1> QED BY <1>1, <1>2, <1>3, Zenon

\* Every event has at least one descriptor.
LEMMA WidthPositive == \A e : Width(e) \in Nat \ {0}
BY ProbesAssumption DEF Width

\* What Step and the start of a call leave in call.
LEMMA StepFields ==
  ASSUME CallFields, NEW l, Step(l)
  PROVE  /\ CallFields' /\ call'.at = l
         /\ call'.op = call.op /\ call'.event = call.event /\ call'.func = call.func
         /\ call'.prog = call.prog /\ call'.pfd = call.pfd /\ call'.got = call.got
         /\ call'.left = call.left /\ call'.failed = call.failed
BY Zenon DEF CallFields, Step

\* The fields of a call that begins.
LEMMA NewCallFields ==
  ASSUME NEW op, NEW at, NEW e, NEW f, NEW left \in SUBSET Events,
         call' = [op |-> op, at |-> at, event |-> e, func |-> f, prog |-> 0,
                  pfd |-> 0, got |-> <<>>, left |-> left, failed |-> FALSE]
  PROVE  /\ CallFields' /\ call'.op = op /\ call'.at = at /\ call'.event = e
         /\ call'.func = f /\ call'.left = left /\ call'.got = <<>>
BY DEF CallFields

\* The same, for the calls of the user.
LEMMA CallIsNew ==
  ASSUME NEW op, NEW at, NEW e, NEW f, call' = Call(op, at, e, f)
  PROVE  /\ CallFields' /\ call'.op = op /\ call'.at = at /\ call'.event = e
         /\ call'.func = f /\ call'.left = {} /\ call'.got = <<>>
BY NewCallFields DEF Call

\* The fields of a call that has returned.
LEMMA ReturnFields ==
  ASSUME Return
  PROVE  /\ CallShape' /\ call'.op = "none" /\ call'.at = "idle" /\ call'.got = <<>>
         /\ call'.left = {}
<1>1. CallFields' /\ call'.op = "none" /\ call'.at = "idle" /\ call'.got = <<>>
      /\ call'.left = {}
  BY CallIsNew, Zenon DEF Return, Idle
<1> QED BY <1>1, Zenon DEF CallShape, CallControl, Active

\* What opening and closing do to the descriptor table.
LEMMA OpenEffect ==
  ASSUME TableShape, HasFree, NEW o, Open(o)
  PROVE  /\ fd' = [n \in Fds |-> fd'[n]]
         /\ fd'[Lowest] = o /\ \A n \in Fds \ {Lowest} : fd'[n] = fd[n]
<1>1. Lowest \in Fds
  BY LowestIsFree, Zenon
<1> QED BY <1>1, Zenon DEF TableShape, Open

\* Closing descriptors closes those and no other.
LEMMA CloseEffect ==
  ASSUME NEW ns, CloseAll(ns)
  PROVE  /\ fd' = [n \in Fds |-> fd'[n]]
         /\ \A n \in Fds : fd'[n] = IF n \in ns THEN Closed ELSE fd[n]
BY Zenon DEF CloseAll

\* The kinds of descriptor are told apart by what they are.
LEMMA Kinds ==
  /\ Closed.what = "closed" /\ File.what = "file"
  /\ \A f, t : Prog(f, t).what = "prog" /\ Prog(f, t).of = f
  /\ \A e, f : Perf(e, f).what = "perf" /\ Perf(e, f).of = e
BY Zenon DEF Closed, File, Prog, Perf, Object

-----------------------------------------------------------------------------
(* The state stays well formed.                                             *)

\* The first state is well formed.
LEMMA ShapeInit == Init => Shape
<1> SUFFICES ASSUME Init PROVE Shape
  BY Zenon
<1>1. CallFields /\ call.op = "none" /\ call.at = "idle"
  BY DEF Init, Idle, Call, CallFields
<1>2. CallControl
  BY <1>1, Zenon DEF CallControl, Active
<1>3. TableShape
  BY ProbesAssumption DEF Init, TableShape, Closed, Object
<1>4. probes = [e \in Events |-> probes[e]] /\ \A e \in Events : ProbeShape(e)
  BY Zenon DEF Init, ProbeShape
<1> QED BY <1>1, <1>2, <1>3, <1>4, Zenon DEF Shape, CallShape

\* A new call.
Begin ==
  \/ \E e \in Events, f \in Funcs : attach(e, f) \/ UserLoad(e, f)
  \/ \E f \in Funcs : UserUnload(f)
  \/ \E e \in Events : detach(e) \/ DestroyNext(e)
  \/ Destroy

\* A call begins.
LEMMA ShapeBegin ==
  ASSUME Shape, Begin
  PROVE  Shape'
<1>1. UNCHANGED <<fd, funcs_, probes, tracefs, foreign>>
  BY Zenon DEF Begin, attach, UserLoad, UserUnload, detach, Destroy, DestroyNext
<1>2. TableShape' /\ (probes = [d \in Events |-> probes[d]])'
      /\ (\A d \in Events : ProbeShape(d))'
  BY <1>1, Zenon DEF Shape, TableShape, ProbeShape
<1> SUFFICES CallShape'
  BY <1>2, Zenon DEF Shape
<1>3. ASSUME NEW e \in Events, NEW f \in Funcs, attach(e, f) PROVE CallShape'
  <2>1. call' = Call("attach", "load", e, f) /\ probes[e] = NoProbe
    BY <1>3, Zenon DEF attach
  <2>2. Len(<<>>) < Width(e)
    BY WidthPositive
  <2> QED BY <1>1, <2>1, <2>2, CallIsNew DEF CallShape, CallControl, Active
<1>4. ASSUME NEW e \in Events, NEW f \in Funcs, UserLoad(e, f) PROVE CallShape'
  BY <1>4, CallIsNew DEF UserLoad, CallShape, CallControl, Active
<1>8. ASSUME NEW f \in Funcs, UserUnload(f) PROVE CallShape'
  BY <1>8, CallIsNew DEF UserUnload, CallShape, CallControl, Active
<1>5. ASSUME NEW e \in Events, detach(e) PROVE CallShape'
  <2>1. call' = Call("detach", "close", e, probes[e].func) /\ probes[e] # NoProbe
    BY <1>5, Zenon DEF detach
  <2>2. probes[e].func \in Funcs
    BY <2>1, Zenon DEF Shape, ProbeShape
  <2> QED BY <1>1, <2>1, <2>2, CallIsNew DEF CallShape, CallControl, Active
<1>6. CASE Destroy
  <2> DEFINE left == {d \in Events : probes[d] # NoProbe}
  <2>1. call' = [op |-> "destroy", at |-> "next", event |-> "none", func |-> "none",
                 prog |-> 0, pfd |-> 0, got |-> <<>>, left |-> left, failed |-> FALSE]
    BY <1>6, Zenon DEF Destroy, Call
  <2>2. left \in SUBSET Events /\ \A d \in left : probes[d] # NoProbe
    BY Zenon
  <2> HIDE DEF left
  <2> QED BY <1>1, <2>1, <2>2, NewCallFields, Zenon DEF CallShape, CallControl, Active
<1>7. ASSUME NEW e \in Events, DestroyNext(e) PROVE CallShape'
  <2>1. call.op = "destroy" /\ call.left \subseteq Events /\ e \in call.left
        /\ \A d \in call.left : probes[d] # NoProbe
    BY <1>7, Zenon DEF Shape, CallShape, CallControl, CallFields, DestroyNext, At
  <2>2. probes[e].func \in Funcs
    BY <2>1, Zenon DEF Shape, ProbeShape
  <2>3. call' = [op |-> "destroy", at |-> "close", event |-> e, func |-> probes[e].func,
                 prog |-> 0, pfd |-> 0, got |-> <<>>, left |-> call.left \ {e},
                 failed |-> FALSE]
    BY <1>7, Zenon DEF DestroyNext, Call
  <2> QED BY <1>1, <2>1, <2>2, <2>3, NewCallFields DEF CallShape, CallControl, Active
<1> QED BY <1>3, <1>4, <1>5, <1>6, <1>7, <1>8, Zenon DEF Begin

\* load_func.
LEMMA ShapeLoad == ASSUME Shape, load_func PROVE Shape'
<1>1. call.op \in {"load", "attach"} /\ At("load") /\ call.func \in Funcs
  BY Zenon DEF Shape, CallShape, CallControl, load_func, At
<1>2. UNCHANGED <<probes, tracefs, foreign>>
  BY Zenon DEF load_func
<1>3. (probes = [d \in Events |-> probes[d]])' /\ (\A d \in Events : ProbeShape(d))'
  BY <1>2, Zenon DEF Shape, ProbeShape
<1>4. ASSUME NEW n, Loaded(n) PROVE CallShape'
  <2>1. CASE call.op = "load"
    BY <1>4, <2>1, ReturnFields, Zenon DEF Loaded, Return
  <2>2. CASE call.op = "attach"
    <3>1. call' = [call EXCEPT !.prog = n, !.at = "open"]
      BY <1>4, <2>2, Zenon DEF Loaded
    <3>2. /\ CallFields' /\ call'.op = "attach" /\ call'.at = "open"
          /\ call'.event = call.event /\ call'.func = call.func /\ call'.got = call.got
      BY <2>2, <3>1, Zenon DEF Shape, CallShape, CallFields
    <3> QED BY <1>1, <1>2, <2>2, <3>2, Zenon DEF Shape, CallShape, CallControl, Active, At
  <2> QED BY <1>1, <2>1, <2>2, Zenon
<1>5. CASE funcs_[call.func] # 0 /\ Loaded(funcs_[call.func]) /\ UNCHANGED <<fd, funcs_>>
  BY <1>2, <1>3, <1>4, <1>5, Zenon DEF Shape, TableShape
<1>6. CASE /\ HasFree /\ Open(Prog(call.func, ProgType(call.event)))
           /\ funcs_' = [funcs_ EXCEPT ![call.func] = Lowest] /\ Loaded(Lowest)
  <2>1. Lowest \in 0..NFds /\ Lowest \in Fds
    BY <1>6, LowestIsFree, ProbesAssumption DEF Fds
  <2>2. funcs_' \in [Funcs -> 0..NFds]
    BY <1>1, <1>6, <2>1, Zenon DEF Shape, TableShape
  <2>3. TableShape'
    BY <1>2, <1>6, <2>2, OpenEffect, Kinds DEF Shape, TableShape
  <2> QED BY <1>3, <1>4, <1>6, <2>3, Zenon DEF Shape
<1>7. CASE Return /\ UNCHANGED <<fd, funcs_>>
  BY <1>2, <1>3, <1>7, ReturnFields, Zenon DEF Shape, TableShape
<1> QED BY <1>5, <1>6, <1>7, Zenon DEF load_func

\* The attach calls of libbpf.c.
ProbesShape == probes = [e \in Events |-> probes[e]] /\ \A e \in Events : ProbeShape(e)

\* The records of the probes stay well formed when they do not change.
LEMMA ProbesUnchanged == ASSUME Shape, UNCHANGED probes PROVE ProbesShape'
BY Zenon DEF Shape, ProbesShape, ProbeShape

\* A descriptor was opened, or could not be.
LEMMA ShapeOpened ==
  ASSUME Shape, At("open"), Opened \/ NotOpened,
         UNCHANGED <<funcs_, probes, foreign>>, tracefs' \subseteq Probed
  PROVE  Shape'
<1>1. call.op = "attach"
  BY Zenon DEF Shape, CallShape, CallControl, At
<1>2. CASE Opened
  <2>1. call' = [call EXCEPT !.pfd = Lowest, !.at = "set_bpf"] /\ Lowest \in Fds
    BY <1>2, LowestIsFree, Zenon DEF Opened
  <2>2. /\ CallFields' /\ call'.op = "attach" /\ call'.at = "set_bpf"
        /\ call'.event = call.event /\ call'.func = call.func /\ call'.got = call.got
        /\ call'.pfd \in Fds
    BY <1>1, <2>1, Zenon DEF Shape, CallShape, CallFields
  <2>3. CallShape'
    BY <1>1, <2>2, Zenon DEF Shape, CallShape, CallControl, Active, At
  <2>4. TableShape'
    BY <1>2, OpenEffect, Kinds DEF Shape, TableShape, Opened
  <2> QED BY <2>3, <2>4, ProbesUnchanged, Zenon DEF Shape, ProbesShape
<1>3. CASE NotOpened
  <2>1. /\ CallFields' /\ call'.op = "attach" /\ call'.at = "failed"
        /\ call'.event = call.event /\ call'.func = call.func
    BY <1>1, <1>3, StepFields, Zenon DEF Shape, CallShape, NotOpened
  <2>2. CallShape'
    BY <1>1, <2>1, Zenon DEF Shape, CallShape, CallControl, Active, At
  <2>3. TableShape'
    BY <1>3, Zenon DEF Shape, TableShape, NotOpened
  <2> QED BY <2>2, <2>3, ProbesUnchanged, Zenon DEF Shape, ProbesShape
<1> QED BY <1>2, <1>3, Zenon

\* A probe is recorded with its descriptors.
LEMMA ShapeRecord ==
  ASSUME Shape, call.op = "attach", call.at \in {"open", "set_bpf"},
         NEW fds \in Seq(Fds), Len(fds) = Len(call.got) + 1, RecordProbe(fds)
  PROVE  CallShape' /\ ProbesShape'
<1>1. /\ call.event \in Events /\ call.func \in Funcs /\ probes[call.event] = NoProbe
      /\ Len(call.got) < Width(call.event) /\ Len(call.got) \in Nat
  BY DEF Shape, CallShape, CallControl, CallFields
<1>2. CASE Len(fds) < Width(call.event)
  <2>1. call' = [call EXCEPT !.got = fds, !.at = "open"] /\ UNCHANGED probes
    BY <1>2, Zenon DEF RecordProbe
  <2>2. /\ CallFields' /\ call'.op = "attach" /\ call'.at = "open"
        /\ call'.event = call.event /\ call'.func = call.func /\ call'.got = fds
    BY <2>1, Zenon DEF Shape, CallShape, CallFields
  <2> QED BY <1>1, <1>2, <2>1, <2>2, ProbesUnchanged, Zenon DEF CallShape, CallControl, Active
<1>3. CASE ~(Len(fds) < Width(call.event))
  <2>1. /\ probes' = [probes EXCEPT ![call.event] =
                        [func |-> call.func, fds |-> fds, freed |-> FALSE]]
        /\ Return
    BY <1>3, Zenon DEF RecordProbe
  <2>2. Len(fds) = Width(call.event)
    BY <1>1, <1>3, WidthPositive
  <2>3. probes'[call.event] = [func |-> call.func, fds |-> fds, freed |-> FALSE]
        /\ \A e \in Events \ {call.event} : probes'[e] = probes[e]
    BY <1>1, <2>1, Zenon DEF Shape
  <2>4. probes' = [e \in Events |-> probes'[e]]
    BY <1>1, <2>1, Zenon DEF Shape
  <2>5. ASSUME NEW e \in Events PROVE ProbeShape(e)'
    <3>1. CASE e = call.event
      <4>1. /\ probes'[e] = [func |-> call.func, fds |-> fds, freed |-> FALSE]
            /\ Len(fds) = Width(e) /\ call.func \in Funcs
        BY <1>1, <2>2, <2>3, <3>1, Zenon
      <4>2. /\ probes'[e].func = call.func /\ probes'[e].fds = fds
            /\ probes'[e].freed = FALSE
        BY <4>1
      <4> QED BY <4>1, <4>2, Zenon DEF ProbeShape
    <3>2. CASE e # call.event
      BY <2>3, <3>2, Zenon DEF Shape, ProbeShape
    <3> QED BY <3>1, <3>2, Zenon
  <2> QED BY <2>1, <2>4, <2>5, ReturnFields, Zenon DEF ProbesShape
<1> QED BY <1>2, <1>3, Zenon

\* Opening the event of an attach.
LEMMA ShapeOpen ==
  ASSUME Shape, OpenProbe \/ OpenEvent \/ OpenRaw
  PROVE  Shape'
<1>1. CASE OpenProbe
  <2>1. tracefs' \subseteq Probed
    BY <1>1, Zenon DEF Shape, TableShape, OpenProbe
  <2> QED BY <1>1, <2>1, ShapeOpened, Zenon DEF OpenProbe
<1>2. CASE OpenEvent
  <2>1. tracefs' \subseteq Probed
    BY <1>2, Zenon DEF Shape, TableShape, OpenEvent
  <2> QED BY <1>2, <2>1, ShapeOpened, Zenon DEF OpenEvent
<1>3. CASE OpenRaw
  <2>1. UNCHANGED <<funcs_, tracefs, foreign>> /\ At("open") /\ call.event \in RawTracepoints
    BY <1>3, Zenon DEF OpenRaw
  <2>2. CASE HasFree /\ Open(Perf(call.event, fd[call.prog].of)) /\ RecordProbe(<<Lowest>>)
    <3>1. TableShape'
      BY <2>1, <2>2, OpenEffect, Kinds DEF Shape, TableShape
    <3>2. call.op = "attach" /\ Len(call.got) < Width(call.event) /\ call.got \in Seq(Fds)
      BY <2>1, Zenon DEF Shape, CallShape, CallFields, CallControl, At
    <3>3. Width(call.event) = 1
      BY <2>1, ProbesAssumption, Zenon DEF Width
    <3>4. Len(call.got) = 0
      BY <3>2, <3>3
    <3>5. <<Lowest>> \in Seq(Fds) /\ Len(<<Lowest>>) = Len(call.got) + 1
      BY <2>2, <3>4, LowestIsFree
    <3> QED BY <2>1, <2>2, <3>1, <3>2, <3>5, ShapeRecord, Zenon DEF Shape, ProbesShape, At
  <2>3. CASE NotOpened /\ UNCHANGED probes
    <3>1. tracefs' \subseteq Probed
      BY <2>1, Zenon DEF Shape, TableShape
    <3> QED BY <2>1, <2>3, <3>1, ShapeOpened, Zenon
  <2> QED BY <1>3, <2>2, <2>3, Zenon DEF OpenRaw
<1> QED BY <1>1, <1>2, <1>3, Zenon

\* Setting the program of an event, or failing to.
LEMMA ShapeSet ==
  ASSUME Shape, SetBpf \/ AttachFailed
  PROVE  Shape'
<1>1. call.op = "attach"
  BY Zenon DEF Shape, CallShape, CallControl, At, SetBpf, AttachFailed
<1>2. UNCHANGED <<funcs_, tracefs, foreign>>
  BY Zenon DEF SetBpf, AttachFailed
<1>3. CASE /\ fd' = [fd EXCEPT ![call.pfd] = Perf(call.event, fd[call.prog].of)]
           /\ RecordProbe(Append(call.got, call.pfd)) /\ At("set_bpf")
  <2>1. call.pfd \in Fds /\ call.got \in Seq(Fds)
    BY <1>1, <1>3, Zenon DEF Shape, CallShape, CallFields, CallControl, At
  <2>2. /\ fd' = [n \in Fds |-> fd'[n]] /\ fd'[call.pfd] = Perf(call.event, fd[call.prog].of)
        /\ \A n \in Fds \ {call.pfd} : fd'[n] = fd[n]
    BY <1>3, <2>1, Zenon DEF Shape, TableShape
  <2>3. TableShape'
    BY <1>2, <2>2, Kinds DEF Shape, TableShape
  <2>4. /\ Append(call.got, call.pfd) \in Seq(Fds)
        /\ Len(Append(call.got, call.pfd)) = Len(call.got) + 1
    BY <2>1
  <2> QED BY <1>1, <1>3, <2>3, <2>4, ShapeRecord, Zenon DEF Shape, ProbesShape, At
<1>4. CASE \/ CloseAll({call.pfd}) /\ Step("failed") /\ UNCHANGED probes /\ At("set_bpf")
           \/ CloseAll(Numbers(call.got)) /\ Step("unload") /\ UNCHANGED probes /\ At("failed")
  <2>1. PICK ns : CloseAll(ns)
    BY <1>4, Zenon
  <2>2. TableShape'
    BY <1>2, <2>1, CloseEffect, Kinds, Zenon DEF Shape, TableShape
  <2>3. PICK l \in {"failed", "unload"} : Step(l)
    BY <1>4, Zenon
  <2>4. /\ CallFields' /\ call'.op = "attach" /\ call'.at = l
        /\ call'.event = call.event /\ call'.func = call.func
    BY <1>1, <2>3, StepFields, Zenon DEF Shape, CallShape
  <2>5. CallShape'
    BY <1>1, <1>4, <2>4, Zenon DEF Shape, CallShape, CallControl, Active, At
  <2> QED BY <1>4, <2>2, <2>5, ProbesUnchanged, Zenon DEF Shape, ProbesShape
<1> QED BY <1>3, <1>4, Zenon DEF SetBpf, AttachFailed, AfterSetBpf

\* The detach calls.
LEMMA ShapeError ==
  ASSUME Shape, Error,
         \A e \in call.left : probes[e] # NoProbe => probes'[e] # NoProbe,
         call.op \in {"detach", "destroy"} => call.at \in {"close", "unload", "tracefs"}
  PROVE  CallShape'
<1>1. CASE Return
  BY <1>1, ReturnFields, Zenon
<1>2. CASE call.op = "destroy" /\ Step("next")
  <2>1. /\ CallFields' /\ call'.op = "destroy" /\ call'.at = "next" /\ call'.left = call.left
    BY <1>2, StepFields, Zenon DEF Shape, CallShape
  <2> QED BY <1>2, <2>1, Zenon DEF Shape, CallShape, CallControl, Active
<1> QED BY <1>1, <1>2, Zenon DEF Error

\* A step of a detach, from one place to the next.
LEMMA ShapeStep ==
  ASSUME Shape, Active, NEW l \in {"unload", "tracefs", "erase", "crashed"},
         /\ CallFields' /\ call'.op = call.op /\ call'.at = l
         /\ call'.event = call.event /\ call'.func = call.func /\ call'.left = call.left,
         probes'[call.event] # NoProbe, l = "tracefs" => call.event \in Probed,
         \A e \in call.left : probes[e] # NoProbe => probes'[e] # NoProbe
  PROVE  CallShape'
BY Zenon DEF Shape, CallShape, CallControl, Active

\* Closing the descriptors of a probe.
LEMMA ShapeClose == ASSUME Shape, CloseProbe \/ CloseFreed PROVE Shape'
<1>1. /\ call.op \in {"detach", "destroy"} /\ Active /\ call.at = "close"
      /\ call.event \in Events /\ probes[call.event] # NoProbe
      /\ call.op = "destroy" => \A e \in call.left : probes[e] # NoProbe
      /\ call.left \subseteq Events
  BY Zenon DEF Shape, CallShape, CallFields, CallControl, Active, At, CloseProbe, CloseFreed
<1>2. PICK ns : CloseAll(ns)
  BY Zenon DEF CloseProbe, CloseFreed
<1>3. TableShape'
  BY <1>2, CloseEffect, Kinds, Zenon DEF Shape, TableShape, CloseProbe, CloseFreed
<1>4. CASE CloseFreed
  <2>1. Step("crashed") /\ UNCHANGED probes
    BY <1>4, Zenon DEF CloseFreed
  <2>2. CallShape'
    BY <1>1, <2>1, StepFields, ShapeStep, Zenon DEF Shape, CallShape
  <2> QED BY <1>3, <2>1, <2>2, ProbesUnchanged, Zenon DEF Shape, ProbesShape
<1>5. CASE CloseProbe
  <2> DEFINE p == probes[call.event]
  <2>1. probes' = [probes EXCEPT ![call.event].freed = call.event \in PerfEvents]
    BY <1>5, Zenon DEF CloseProbe
  <2>2. /\ p = [func |-> p.func, fds |-> p.fds, freed |-> p.freed]
        /\ p.func \in Funcs /\ p.fds \in Seq(Fds) /\ Len(p.fds) = Width(call.event)
    BY <1>1, Zenon DEF Shape, ProbeShape
  <2>3. /\ probes' = [e \in Events |-> probes'[e]]
        /\ probes'[call.event] = [p EXCEPT !.freed = call.event \in PerfEvents]
        /\ \A e \in Events \ {call.event} : probes'[e] = probes[e]
    BY <1>1, <2>1, Zenon DEF Shape
  <2>4. probes'[call.event] = [func |-> p.func, fds |-> p.fds,
                               freed |-> call.event \in PerfEvents]
    BY <2>2, <2>3, Zenon
  <2>5. p.fds # <<>>
    BY <2>2, WidthPositive, Zenon
  <2>6. probes'[call.event] # NoProbe
    BY <2>4, <2>5 DEF NoProbe
  <2>7. ASSUME NEW e \in Events PROVE ProbeShape(e)'
    <3>1. CASE e = call.event
      <4>1. /\ probes'[e].func = p.func /\ probes'[e].fds = p.fds
            /\ probes'[e].freed = (e \in PerfEvents)
            /\ probes'[e] = [func |-> p.func, fds |-> p.fds, freed |-> e \in PerfEvents]
        BY <2>4, <3>1
      <4>2. Len(p.fds) = Width(e) /\ (e \in PerfEvents) \in BOOLEAN
        BY <2>2, <3>1
      <4> HIDE DEF p
      <4> QED BY <2>2, <4>1, <4>2, Zenon DEF ProbeShape
    <3>2. CASE e # call.event
      BY <2>3, <3>2, Zenon DEF Shape, ProbeShape
    <3> QED BY <3>1, <3>2, Zenon
  <2>8. \A e \in call.left : probes[e] # NoProbe => probes'[e] # NoProbe
    BY <1>1, <2>3, <2>6, Zenon
  <2>9. CallShape'
    <3>1. CASE Error
      BY <1>1, <2>8, <3>1, ShapeError, Zenon
    <3>2. CASE \E bad : call' = [call EXCEPT !.at = "unload", !.failed = bad]
      <4>1. /\ CallFields' /\ call'.op = call.op /\ call'.at = "unload"
            /\ call'.event = call.event /\ call'.func = call.func /\ call'.left = call.left
        BY <3>2, Zenon DEF Shape, CallShape, CallFields
      <4> QED BY <1>1, <2>6, <2>8, <4>1, ShapeStep, Zenon
    <3> QED BY <1>5, <3>1, <3>2, Zenon DEF CloseProbe
  <2> QED BY <1>3, <2>3, <2>7, <2>9, Zenon DEF Shape
<1> QED BY <1>4, <1>5, Zenon

\* Closing a program.
LEMMA ShapeUnload == ASSUME Shape, unload_func PROVE Shape'
<1>1. /\ call.at = "unload" /\ call.op \in {"unload", "attach", "detach", "destroy"}
      /\ call.func \in Funcs
  BY Zenon DEF Shape, CallShape, CallControl, Active, At, unload_func
<1>2. UNCHANGED <<probes, tracefs, foreign>>
  BY Zenon DEF unload_func, Unloaded
<1>3. CallShape'
  <2>1. CASE Error
    BY <1>1, <1>2, <2>1, ShapeError, Zenon
  <2>2. CASE Return
    BY <2>2, ReturnFields, Zenon
  <2>3. CASE call.op \in {"detach", "destroy"} /\ call.event \in Probed /\ Step("tracefs")
    <3>1. Active /\ probes[call.event] # NoProbe
      BY <1>1, <2>3, Zenon DEF Shape, CallShape, CallControl, Active
    <3> QED BY <1>2, <2>3, <3>1, StepFields, ShapeStep, Zenon DEF Shape, CallShape
  <2>4. CASE call.op \in {"detach", "destroy"} /\ Step("erase")
    <3>1. Active /\ probes[call.event] # NoProbe
      BY <1>1, <2>4, Zenon DEF Shape, CallShape, CallControl, Active
    <3> QED BY <1>2, <2>4, <3>1, StepFields, ShapeStep, Zenon DEF Shape, CallShape
  <2> QED BY <2>1, <2>2, <2>3, <2>4, Zenon DEF unload_func, Unloaded
<1>4. TableShape'
  <2>1. CASE UNCHANGED <<fd, funcs_>>
    BY <1>2, <2>1, Zenon DEF Shape, TableShape
  <2>2. CASE CloseAll({funcs_[call.func]}) /\ EraseFunc
    <3>1. funcs_' \in [Funcs -> 0..NFds]
      BY <1>1, <2>2, ProbesAssumption DEF Shape, TableShape, EraseFunc
    <3> QED BY <1>2, <2>2, <3>1, CloseEffect, Kinds, Zenon DEF Shape, TableShape
  <2> QED BY <2>1, <2>2, Zenon DEF unload_func
<1> QED BY <1>2, <1>3, <1>4, ProbesUnchanged, Zenon DEF Shape, ProbesShape

\* Removing the event from tracefs.
LEMMA ShapeTracefs == ASSUME Shape, bpf_detach_probe PROVE Shape'
<1>1. /\ call.at = "tracefs" /\ Active /\ probes[call.event] # NoProbe
      /\ call.op \in {"detach", "destroy"}
  BY Zenon DEF Shape, CallShape, CallControl, Active, At, bpf_detach_probe
<1>2. UNCHANGED <<fd, funcs_, probes, foreign>> /\ tracefs' \subseteq tracefs
  BY Zenon DEF bpf_detach_probe
<1>3. CallShape'
  <2>1. CASE Error
    BY <1>1, <1>2, <2>1, ShapeError, Zenon
  <2>2. CASE Step("erase")
    BY <1>1, <1>2, <2>2, StepFields, ShapeStep, Zenon DEF Shape, CallShape
  <2> QED BY <2>1, <2>2, Zenon DEF bpf_detach_probe
<1>4. TableShape'
  BY <1>2, Zenon DEF Shape, TableShape
<1> QED BY <1>2, <1>3, <1>4, ProbesUnchanged, Zenon DEF Shape, ProbesShape

\* Forgetting a probe.
LEMMA ShapeErase == ASSUME Shape, Erase PROVE Shape'
<1>1. call.at = "erase" /\ call.op \in {"detach", "destroy"} /\ call.event \in Events
  BY Zenon DEF Shape, CallShape, CallControl, Active, At, Erase
<1>2. TableShape'
  BY Zenon DEF Shape, TableShape, Erase
<1>3. CASE call.op = "destroy" /\ Step("next") /\ UNCHANGED probes
  <2>1. /\ CallFields' /\ call'.op = "destroy" /\ call'.at = "next" /\ call'.left = call.left
    BY <1>3, StepFields, Zenon DEF Shape, CallShape
  <2>2. CallShape'
    BY <1>3, <2>1, Zenon DEF Shape, CallShape, CallControl, Active
  <2> QED BY <1>2, <1>3, <2>2, ProbesUnchanged, Zenon DEF Shape, ProbesShape
<1>4. CASE Return /\ probes' = [probes EXCEPT ![call.event] = NoProbe]
  <2>1. /\ probes' = [e \in Events |-> probes'[e]] /\ probes'[call.event] = NoProbe
        /\ \A e \in Events \ {call.event} : probes'[e] = probes[e]
    BY <1>1, <1>4, Zenon DEF Shape
  <2>2. \A e \in Events : ProbeShape(e)'
    BY <2>1, Zenon DEF Shape, ProbeShape
  <2> QED BY <1>2, <1>4, <2>1, <2>2, ReturnFields, Zenon DEF Shape
<1> QED BY <1>3, <1>4, Zenon DEF Erase

\* The destructor closes what programs are left.
LEMMA ShapeDestroyFuncs == ASSUME Shape, DestroyFuncs PROVE Shape'
<1>1. CallShape'
  BY ReturnFields, Zenon DEF DestroyFuncs
<1>2. probes' = [e \in Events |-> NoProbe] /\ funcs_' = [f \in Funcs |-> 0]
  BY Zenon DEF DestroyFuncs
<1>3. TableShape'
  BY <1>2, CloseEffect, Kinds, ProbesAssumption DEF Shape, TableShape, DestroyFuncs
<1>4. (probes = [e \in Events |-> probes[e]])' /\ \A e \in Events : ProbeShape(e)'
  BY <1>2, Zenon DEF ProbeShape
<1> QED BY <1>1, <1>3, <1>4, Zenon DEF Shape

\* A call stays well formed when it and the probes do not change.
LEMMA CallUnchanged == ASSUME Shape, UNCHANGED <<call, probes>> PROVE CallShape'
BY Zenon DEF Shape, CallShape, CallFields, CallControl, Active

\* The rest of the process and other processes.
LEMMA ShapeEnvironment == ASSUME Shape, Environment PROVE Shape'
<1>1. UNCHANGED <<funcs_, probes, tracefs, call>>
  BY Zenon DEF Environment, OpenFile, CloseFile, OtherProcess
<1>2. CASE OpenFile
  <2>1. TableShape'
    BY <1>1, <1>2, OpenEffect, Kinds DEF Shape, TableShape, OpenFile
  <2> QED BY <1>1, <2>1, CallUnchanged, ProbesUnchanged, Zenon DEF Shape, ProbesShape
<1>3. ASSUME NEW n \in Fds, CloseFile(n) PROVE Shape'
  <2>1. TableShape'
    BY <1>1, <1>3, CloseEffect, Kinds, Zenon DEF Shape, TableShape, CloseFile
  <2> QED BY <1>1, <2>1, CallUnchanged, ProbesUnchanged, Zenon DEF Shape, ProbesShape
<1>4. ASSUME NEW e \in Probed, OtherProcess(e) PROVE Shape'
  <2>1. TableShape'
    BY <1>1, <1>4, Zenon DEF Shape, TableShape, OtherProcess
  <2> QED BY <1>1, <2>1, CallUnchanged, ProbesUnchanged, Zenon DEF Shape, ProbesShape
<1> QED BY <1>2, <1>3, <1>4, Zenon DEF Environment

\* Every step keeps the shape.
LEMMA ShapeNext == Shape /\ [Next]_vars => Shape'
<1> SUFFICES ASSUME Shape, [Next]_vars PROVE Shape'
  BY Zenon
<1>1. CASE UNCHANGED vars
  <2>1. UNCHANGED <<fd, funcs_, probes, tracefs, foreign, call>>
    BY <1>1, Zenon DEF vars
  <2>2. TableShape'
    BY <2>1, Zenon DEF Shape, TableShape
  <2> QED BY <2>1, <2>2, CallUnchanged, ProbesUnchanged, Zenon DEF Shape, ProbesShape
<1>2. CASE Environment
  BY <1>2, ShapeEnvironment, Zenon
<1>3. CASE Library
  BY <1>3, ShapeBegin, ShapeLoad, ShapeOpen, ShapeSet, ShapeClose, ShapeUnload,
     ShapeTracefs, ShapeErase, ShapeDestroyFuncs, Zenon DEF Library, Begin
<1> QED BY <1>1, <1>2, <1>3, Zenon DEF Next

-----------------------------------------------------------------------------
(* Nothing is leaked.                                                       *)

USE DEF Library_Objects

\* No probe has no descriptors.
LEMMA NoProbeFacts == NoProbe.fds = <<>> /\ NoProbe.freed = FALSE
BY Zenon DEF NoProbe

\* A call that begins opens nothing.
LEMMA LeaklessBegin == ASSUME Shape, Leakless, Begin PROVE Leakless'
<1>1. UNCHANGED <<fd, funcs_, probes>>
  BY Zenon DEF Begin, attach, UserLoad, UserUnload, detach, Destroy, DestroyNext
<1> SUFFICES ASSUME NEW n \in Fds, Held(n) PROVE Held(n)'
  BY <1>1, Zenon DEF Leakless
<1>2. CASE ~Destroy /\ ~\E e \in Events : DestroyNext(e)
  <2>1. call.op = "none"
    BY <1>2, Zenon DEF Shape, CallShape, CallControl, Begin, attach, UserLoad, UserUnload, detach, At
  <2>2. call'.op \in {"attach", "load", "unload"} \/ (call'.op = "detach" /\ call'.at = "close")
    BY <1>2, CallIsNew DEF Begin, attach, UserLoad, UserUnload, detach
  <2> QED BY <1>1, <2>1, <2>2, Zenon DEF Held, Live, Closing, Opening
<1>3. CASE Destroy
  <2> DEFINE left == {d \in Events : probes[d] # NoProbe}
  <2>1. call' = [op |-> "destroy", at |-> "next", event |-> "none", func |-> "none",
                 prog |-> 0, pfd |-> 0, got |-> <<>>, left |-> left, failed |-> FALSE]
    BY <1>3, Zenon DEF Destroy, Call
  <2>2. call'.op = "destroy" /\ call'.at = "next" /\ call'.left = left
    BY <2>1, Zenon
  <2>3. call.op = "none"
    BY <1>3, Zenon DEF Shape, CallShape, CallControl, Destroy, At
  <2>4. \A e \in Events : Numbers(probes[e].fds) # {} => e \in left
    BY NoProbeFacts, NumbersFacts, Zenon
  <2> HIDE DEF left
  <2> QED BY <1>1, <2>2, <2>3, <2>4, Zenon DEF Held, Live, Closing, Opening
<1>4. ASSUME NEW e \in Events, DestroyNext(e) PROVE Held(n)'
  <2>1. call.op = "destroy" /\ call.at = "next" /\ e \in call.left
    BY <1>4, Zenon DEF Shape, CallShape, CallControl, DestroyNext, At
  <2>2. call' = [op |-> "destroy", at |-> "close", event |-> e, func |-> probes[e].func,
                 prog |-> 0, pfd |-> 0, got |-> <<>>, left |-> call.left \ {e},
                 failed |-> FALSE]
    BY <1>4, Zenon DEF DestroyNext, Call
  <2>3. /\ call'.op = "destroy" /\ call'.at = "close" /\ call'.event = e
        /\ call'.left = call.left \ {e}
    BY <2>2, Zenon
  <2> QED BY <1>1, <2>1, <2>3, Zenon DEF Held, Live, Closing, Opening
<1> QED BY <1>2, <1>3, <1>4, Zenon

\* load_func names the program it opens in funcs_.
LEMMA LeaklessLoad == ASSUME Shape, Leakless, load_func PROVE Leakless'
<1>1. call.op \in {"load", "attach"} /\ call.at = "load" /\ call.func \in Funcs
  BY Zenon DEF Shape, CallShape, CallControl, load_func, At
<1>2. UNCHANGED probes
  BY Zenon DEF load_func
<1>3. call'.op \in {"none", "attach"}
  <2>1. CASE Return
    BY <2>1, ReturnFields, Zenon
  <2>2. CASE \E n : call' = [call EXCEPT !.prog = n, !.at = "open"] /\ call.op # "load"
    BY <1>1, <2>2, Zenon DEF Shape, CallShape, CallFields
  <2> QED BY <2>1, <2>2, Zenon DEF load_func, Loaded, Return
<1>4. ASSUME NEW n \in Fds, Held(n), \A f \in Funcs : funcs_[f] = n => funcs_'[f] = n
      PROVE  Held(n)'
  BY <1>1, <1>2, <1>3, <1>4, Zenon DEF Held, Live, Closing, Opening
<1>5. CASE UNCHANGED <<fd, funcs_>>
  BY <1>4, <1>5, Zenon DEF Leakless
<1>6. CASE /\ funcs_[call.func] = 0 /\ HasFree
           /\ Open(Prog(call.func, ProgType(call.event)))
           /\ funcs_' = [funcs_ EXCEPT ![call.func] = Lowest]
  <2>1. funcs_'[call.func] = Lowest /\ \A f \in Funcs \ {call.func} : funcs_'[f] = funcs_[f]
    BY <1>1, <1>6, Zenon DEF Shape, TableShape
  <2> SUFFICES ASSUME NEW n \in Fds \ {Lowest}, fd'[n].what \in Library_Objects PROVE Held(n)'
    BY <2>1, <1>1, Zenon DEF Leakless, Held
  <2>3. Held(n)
    BY <1>6, OpenEffect, Zenon DEF Shape, Leakless
  <2>4. n # 0
    BY DEF Fds
  <2> QED BY <1>4, <1>6, <2>1, <2>3, <2>4, Zenon
<1> QED BY <1>5, <1>6, Zenon DEF load_func

\* perf_event_open and bpf_raw_tracepoint_open: the call or the map names it.
LEMMA LeaklessOpened ==
  ASSUME Shape, Leakless, At("open"), Opened \/ NotOpened, UNCHANGED <<funcs_, probes>>
  PROVE  Leakless'
<1>1. call.op = "attach" /\ call.at = "open"
  BY Zenon DEF Shape, CallShape, CallControl, At
<1>2. CASE Opened
  <2>1. call' = [call EXCEPT !.pfd = Lowest, !.at = "set_bpf"] /\ HasFree
    BY <1>2, Zenon DEF Opened
  <2>2. /\ call'.op = "attach" /\ call'.at = "set_bpf" /\ call'.pfd = Lowest
        /\ call'.got = call.got
    BY <1>1, <2>1, Zenon DEF Shape, CallShape, CallFields
  <2> SUFFICES ASSUME NEW n \in Fds, fd'[n].what \in Library_Objects PROVE Held(n)'
    BY Zenon DEF Leakless
  <2>3. CASE n = Lowest
    BY <2>2, <2>3, Zenon DEF Held
  <2>4. CASE n # Lowest
    <3>1. Held(n)
      BY <1>2, <2>4, OpenEffect, Zenon DEF Shape, Leakless, Opened
    <3> QED BY <1>1, <2>2, <3>1, Zenon DEF Held, Live, Closing, Opening
  <2> QED BY <2>3, <2>4, Zenon
<1>3. CASE NotOpened
  <2>1. call'.op = "attach" /\ call'.at = "failed" /\ call'.got = call.got
    BY <1>1, <1>3, StepFields, Zenon DEF Shape, CallShape, NotOpened
  <2> QED BY <1>1, <1>3, <2>1, Zenon DEF NotOpened, Leakless, Held, Live, Closing, Opening
<1> QED BY <1>2, <1>3, Zenon

\* Recording descriptors keeps every one of them named.
LEMMA LeaklessRecord ==
  ASSUME Shape, call.op = "attach", call.at \in {"open", "set_bpf"},
         NEW fds \in Seq(Fds), RecordProbe(fds), UNCHANGED funcs_,
         NEW n \in Fds, (Held(n) /\ (call.at = "set_bpf" => n # call.pfd)) \/ n \in Numbers(fds),
         Numbers(call.got) \subseteq Numbers(fds)
  PROVE  Held(n)'
<1>1. /\ call.event \in Events /\ probes[call.event] = NoProbe
  BY Zenon DEF Shape, CallShape, CallControl
<1>2. CASE Len(fds) < Width(call.event)
  <2>1. call' = [call EXCEPT !.got = fds, !.at = "open"] /\ UNCHANGED probes
    BY <1>2, Zenon DEF RecordProbe
  <2>2. call'.op = "attach" /\ call'.at = "open" /\ call'.got = fds
    BY <2>1, Zenon DEF Shape, CallShape, CallFields
  <2> QED BY <2>1, <2>2, Zenon DEF Held, Live, Closing, Opening
<1>3. CASE ~(Len(fds) < Width(call.event))
  <2>1. /\ probes' = [probes EXCEPT ![call.event] =
                        [func |-> call.func, fds |-> fds, freed |-> FALSE]]
        /\ Return
    BY <1>3, Zenon DEF RecordProbe
  <2>2. probes'[call.event] = [func |-> call.func, fds |-> fds, freed |-> FALSE]
        /\ \A e \in Events \ {call.event} : probes'[e] = probes[e]
    BY <1>1, <2>1, Zenon DEF Shape
  <2>3. probes'[call.event].fds = fds /\ probes'[call.event].freed = FALSE
    BY <2>2
  <2>4. call'.op = "none"
    BY <2>1, ReturnFields, Zenon
  <2>5. \A e \in Events : Live(e)' <=> ~probes'[e].freed
    BY <2>4, Zenon DEF Live, Closing
  <2>6. CASE n \in Numbers(fds)
    BY <1>1, <2>3, <2>5, <2>6, Zenon DEF Held
  <2>7. CASE Held(n) /\ n \notin Numbers(fds)
    <3>1. CASE \E f \in Funcs : funcs_[f] = n
      BY <3>1, Zenon DEF Held
    <3>2. ASSUME NEW e \in Events, n \in Numbers(probes[e].fds), Live(e) PROVE Held(n)'
      <4>1. e # call.event
        BY <1>1, <3>2, NoProbeFacts, NumbersFacts, Zenon
      <4>2. probes'[e] = probes[e]
        BY <2>2, <4>1, Zenon
      <4> QED BY <2>5, <3>2, <4>2, Zenon DEF Held, Live
    <3> QED BY <2>7, <3>1, <3>2, Zenon DEF Held
  <2> QED BY <2>6, <2>7, Zenon
<1> QED BY <1>2, <1>3, Zenon

\* What an attach opens it holds or records.
LEMMA LeaklessOpen ==
  ASSUME Shape, Leakless, OpenProbe \/ OpenEvent \/ OpenRaw
  PROVE  Leakless'
<1>1. CASE OpenProbe \/ OpenEvent
  BY <1>1, LeaklessOpened, Zenon DEF OpenProbe, OpenEvent
<1>2. CASE OpenRaw
  <2>1. At("open") /\ UNCHANGED funcs_ /\ call.event \in RawTracepoints
    BY <1>2, Zenon DEF OpenRaw
  <2>2. CASE HasFree /\ Open(Perf(call.event, fd[call.prog].of)) /\ RecordProbe(<<Lowest>>)
    <3>1. /\ call.op = "attach" /\ call.at = "open" /\ call.got \in Seq(Fds)
          /\ Len(call.got) < Width(call.event)
      BY <2>1, Zenon DEF Shape, CallShape, CallFields, CallControl, At
    <3>2. Width(call.event) = 1
      BY <2>1, ProbesAssumption, Zenon DEF Width
    <3>3. Numbers(call.got) = {}
      BY <3>1, <3>2 DEF Numbers
    <3>4. <<Lowest>> \in Seq(Fds) /\ Numbers(<<Lowest>>) = {Lowest}
      BY <2>2, LowestIsFree, NumbersFacts
    <3> SUFFICES ASSUME NEW n \in Fds, fd'[n].what \in Library_Objects PROVE Held(n)'
      BY Zenon DEF Leakless
    <3>5. Held(n) \/ n = Lowest
      BY <2>2, OpenEffect, Zenon DEF Shape, Leakless
    <3> QED BY <2>1, <2>2, <3>1, <3>3, <3>4, <3>5, LeaklessRecord, Zenon
  <2>3. CASE NotOpened /\ UNCHANGED probes
    BY <2>1, <2>3, LeaklessOpened, Zenon
  <2> QED BY <1>2, <2>2, <2>3, Zenon DEF OpenRaw
<1> QED BY <1>1, <1>2, Zenon

\* A failed attach closes what it held before it stops naming it.
LEMMA LeaklessSet == ASSUME Shape, Leakless, SetBpf \/ AttachFailed PROVE Leakless'
<1>1. call.op = "attach" /\ call.got \in Seq(Fds) /\ UNCHANGED funcs_
  BY Zenon DEF Shape, CallShape, CallFields, CallControl, At, SetBpf, AttachFailed
<1> SUFFICES ASSUME NEW n \in Fds, fd'[n].what \in Library_Objects PROVE Held(n)'
  BY Zenon DEF Leakless
<1>2. CASE /\ fd' = [fd EXCEPT ![call.pfd] = Perf(call.event, fd[call.prog].of)]
           /\ RecordProbe(Append(call.got, call.pfd)) /\ At("set_bpf")
  <2>1. call.pfd \in Fds /\ call.at = "set_bpf"
    BY <1>1, <1>2, Zenon DEF Shape, CallShape, CallControl, At
  <2>2. n # call.pfd => fd'[n] = fd[n]
    BY <1>2, <2>1, Zenon DEF Shape, TableShape
  <2>3. /\ Append(call.got, call.pfd) \in Seq(Fds)
        /\ Numbers(Append(call.got, call.pfd)) = Numbers(call.got) \cup {call.pfd}
    BY <1>1, <2>1, NumbersFacts
  <2>4. Held(n) \/ n = call.pfd
    BY <2>2, Zenon DEF Leakless
  <2> QED BY <1>1, <1>2, <2>1, <2>3, <2>4, LeaklessRecord, Zenon
<1>3. CASE CloseAll({call.pfd}) /\ Step("failed") /\ UNCHANGED probes /\ At("set_bpf")
  <2>1. n # call.pfd /\ Held(n)
    BY <1>3, CloseEffect, Kinds, Zenon DEF Leakless
  <2>2. call'.op = "attach" /\ call'.at = "failed" /\ call'.got = call.got
    BY <1>1, <1>3, StepFields, Zenon DEF Shape, CallShape
  <2> QED BY <1>1, <1>3, <2>1, <2>2, Zenon DEF Held, Live, Closing, Opening, At
<1>4. CASE CloseAll(Numbers(call.got)) /\ Step("unload") /\ UNCHANGED probes /\ At("failed")
  <2>1. n \notin Numbers(call.got) /\ Held(n)
    BY <1>4, CloseEffect, Kinds, Zenon DEF Leakless
  <2>2. call'.op = "attach" /\ call'.at = "unload" /\ call'.got = call.got
    BY <1>1, <1>4, StepFields, Zenon DEF Shape, CallShape
  <2> QED BY <1>1, <1>4, <2>1, <2>2, Zenon DEF Held, Live, Closing, Opening, At
<1> QED BY <1>2, <1>3, <1>4, Zenon DEF SetBpf, AttachFailed, AfterSetBpf

\* A detach stops naming the descriptors it has closed, and no others: what
\* is live and not the call's event stays live.
LEMMA StaysLive ==
  ASSUME Shape, call.op \in {"detach", "destroy"}, call.at # "next",
         \/ Return /\ call.op = "detach"
         \/ call.op = "destroy" /\ Step("next")
         \/ /\ call'.op = call.op /\ call'.event = call.event /\ call'.left = call.left
            /\ call'.at # "close",
         NEW e \in Events, e # call.event \/ call.at # "close", Live(e),
         probes'[e].freed = probes[e].freed
  PROVE  Live(e)'
<1>1. CASE Return
  BY <1>1, ReturnFields, Zenon DEF Live, Closing
<1>2. CASE call.op = "destroy" /\ Step("next")
  <2>1. /\ call'.op = "destroy" /\ call'.at = "next" /\ call'.left = call.left
        /\ call'.event = call.event
    BY <1>2, StepFields, Zenon DEF Shape, CallShape
  <2> QED BY <1>2, <2>1, Zenon DEF Live, Closing
<1>3. CASE /\ call'.op = call.op /\ call'.event = call.event /\ call'.left = call.left
           /\ call'.at # "close"
  BY <1>3, Zenon DEF Live, Closing
<1> QED BY <1>1, <1>2, <1>3, Zenon

\* What is closed is no longer open, so nobody need hold it.
LEMMA LeaklessClose == ASSUME Shape, Leakless, CloseProbe \/ CloseFreed PROVE Leakless'
<1>1. /\ call.op \in {"detach", "destroy"} /\ call.at = "close"
      /\ call.event \in Events /\ probes[call.event] # NoProbe
  BY Zenon DEF Shape, CallShape, CallControl, Active, At, CloseProbe, CloseFreed
<1>2. UNCHANGED funcs_
  BY Zenon DEF CloseProbe, CloseFreed
<1>3. \/ Return /\ call.op = "detach"
      \/ call.op = "destroy" /\ Step("next")
      \/ /\ call'.op = call.op /\ call'.event = call.event /\ call'.left = call.left
         /\ call'.at # "close"
  <2>1. CASE Error
    BY <1>1, <2>1, Zenon DEF Error
  <2>2. CASE Step("crashed")
    BY <2>2, StepFields DEF Shape, CallShape
  <2>3. CASE \E bad : call' = [call EXCEPT !.at = "unload", !.failed = bad]
    BY <2>3, Zenon DEF Shape, CallShape, CallFields
  <2> QED BY <2>1, <2>2, <2>3, Zenon DEF CloseProbe, CloseFreed
<1> SUFFICES ASSUME NEW n \in Fds, fd'[n].what \in Library_Objects PROVE Held(n)'
  BY Zenon DEF Leakless
<1>4. Held(n)
  BY CloseEffect, Kinds, Zenon DEF Leakless, CloseProbe, CloseFreed
<1>5. ASSUME NEW e \in Events, n \in Numbers(probes[e].fds), Live(e) PROVE Held(n)'
  <2>1. e # call.event
    <3>1. CASE CloseProbe
      BY <1>5, <3>1, CloseEffect, Kinds, Zenon DEF CloseProbe
    <3>2. CASE CloseFreed
      BY <1>5, <3>2, Zenon DEF CloseFreed, Live
    <3> QED BY <3>1, <3>2, Zenon
  <2>2. probes'[e] = probes[e]
    BY <1>1, <2>1, Zenon DEF Shape, CloseProbe, CloseFreed
  <2>3. Live(e)'
    BY <1>1, <1>3, <1>5, <2>1, <2>2, StaysLive, Zenon
  <2> QED BY <1>5, <2>2, <2>3, Zenon DEF Held
<1> QED BY <1>1, <1>2, <1>4, <1>5, Zenon DEF Held, Opening

\* A program that is forgotten has been closed.
LEMMA LeaklessUnload == ASSUME Shape, Leakless, unload_func PROVE Leakless'
<1>1. /\ call.at = "unload" /\ call.op \in {"unload", "attach", "detach", "destroy"}
      /\ call.func \in Funcs
  BY Zenon DEF Shape, CallShape, CallControl, Active, At, unload_func
<1>2. UNCHANGED probes
  BY Zenon DEF unload_func, Unloaded
<1> SUFFICES ASSUME NEW n \in Fds, fd'[n].what \in Library_Objects PROVE Held(n)'
  BY Zenon DEF Leakless
<1>3. Held(n) /\ \A f \in Funcs : funcs_[f] = n => funcs_'[f] = n
  <2>1. CASE UNCHANGED <<fd, funcs_>>
    BY <2>1, Zenon DEF Leakless
  <2>2. CASE CloseAll({funcs_[call.func]}) /\ EraseFunc
    <3>1. n # funcs_[call.func] /\ fd'[n] = fd[n]
      BY <2>2, CloseEffect, Kinds, Zenon
    <3>2. \A f \in Funcs \ {call.func} : funcs_'[f] = funcs_[f]
      BY <1>1, <2>2, Zenon DEF Shape, TableShape, EraseFunc
    <3> QED BY <3>1, <3>2, Zenon DEF Leakless
  <2> QED BY <2>1, <2>2, Zenon DEF unload_func
<1>4. ASSUME NEW e \in Events, n \in Numbers(probes[e].fds), Live(e) PROVE Held(n)'
  <2>1. Live(e)'
    <3>1. CASE call.op \in {"unload", "attach"}
      <4>1. Return
        BY <3>1, Zenon DEF unload_func, Unloaded, Error
      <4> QED BY <1>2, <1>4, <4>1, ReturnFields, Zenon DEF Live, Closing
    <3>2. CASE call.op \in {"detach", "destroy"}
      <4>1. Error \/ Step("tracefs") \/ Step("erase")
        BY <3>2, Zenon DEF unload_func, Unloaded
      <4>2. \/ Return /\ call.op = "detach"
            \/ call.op = "destroy" /\ Step("next")
            \/ /\ call'.op = call.op /\ call'.event = call.event /\ call'.left = call.left
               /\ call'.at # "close"
        <5>1. CASE Error
          BY <3>2, <5>1, Zenon DEF Error
        <5>2. CASE Step("tracefs") \/ Step("erase")
          BY <5>2, StepFields DEF Shape, CallShape
        <5> QED BY <4>1, <5>1, <5>2, Zenon
      <4> QED BY <1>1, <1>2, <1>4, <3>2, <4>2, StaysLive, Zenon
    <3> QED BY <1>1, <3>1, <3>2, Zenon
  <2> QED BY <1>2, <1>4, <2>1, Zenon DEF Held
<1> QED BY <1>1, <1>3, <1>4, Zenon DEF Held, Opening

\* A probe is forgotten after its descriptors are closed.
LEMMA LeaklessErase == ASSUME Shape, Leakless, bpf_detach_probe \/ Erase PROVE Leakless'
<1>1. /\ call.op \in {"detach", "destroy"} /\ call.at \in {"tracefs", "erase"}
      /\ call.event \in Events
  BY Zenon DEF Shape, CallShape, CallControl, Active, At, bpf_detach_probe, Erase
<1>2. UNCHANGED <<fd, funcs_>>
  BY Zenon DEF bpf_detach_probe, Erase
<1>3. \/ Return /\ call.op = "detach"
      \/ call.op = "destroy" /\ Step("next")
      \/ /\ call'.op = call.op /\ call'.event = call.event /\ call'.left = call.left
         /\ call'.at # "close"
  <2>1. CASE Error \/ Erase
    BY <1>1, <2>1, Zenon DEF Error, Erase
  <2>2. CASE Step("erase")
    BY <2>2, StepFields DEF Shape, CallShape
  <2> QED BY <2>1, <2>2, Zenon DEF bpf_detach_probe
<1> SUFFICES ASSUME NEW n \in Fds, Held(n) PROVE Held(n)'
  BY <1>2, Zenon DEF Leakless
<1>4. ASSUME NEW e \in Events, n \in Numbers(probes[e].fds), Live(e) PROVE Held(n)'
  <2>1. probes'[e] = probes[e]
    <3>1. CASE UNCHANGED probes
      BY <3>1, Zenon
    <3>2. CASE call.op = "detach" /\ probes' = [probes EXCEPT ![call.event] = NoProbe]
      <4>1. e # call.event
        BY <1>1, <1>4, <3>2, Zenon DEF Live, Closing
      <4> QED BY <1>1, <3>2, <4>1, Zenon DEF Shape
    <3> QED BY <1>1, <3>1, <3>2, Zenon DEF bpf_detach_probe, Erase
  <2>2. Live(e)'
    BY <1>1, <1>3, <1>4, <2>1, StaysLive, Zenon
  <2> QED BY <1>4, <2>1, <2>2, Zenon DEF Held
<1> QED BY <1>1, <1>2, <1>4, Zenon DEF Held, Opening

\* ~BPF has closed every entry's descriptors when it comes to funcs_.
LEMMA LeaklessDestroyFuncs == ASSUME Shape, Leakless, DestroyFuncs PROVE Leakless'
<1>1. call.op = "destroy" /\ call.at = "next" /\ call.left = {}
  BY Zenon DEF Shape, CallShape, CallControl, DestroyFuncs, At
<1>2. \A e \in Events : ~Live(e)
  BY <1>1, Zenon DEF Live, Closing
<1>3. \A n \in Fds : fd[n].what \in Library_Objects => n \in {funcs_[f] : f \in Funcs}
  BY <1>1, <1>2, Zenon DEF Leakless, Held, Opening
<1> QED BY <1>3, CloseEffect, Kinds, Zenon DEF DestroyFuncs, Leakless

\* Files of the rest of the process are nobody's to hold.
LEMMA LeaklessEnvironment == ASSUME Shape, Leakless, Environment PROVE Leakless'
<1>1. UNCHANGED <<funcs_, probes, call>>
  BY Zenon DEF Environment, OpenFile, CloseFile, OtherProcess
<1>2. \A n \in Fds : Held(n) => Held(n)'
  BY <1>1, Zenon DEF Held, Live, Closing, Opening
<1>3. ASSUME NEW n \in Fds, fd'[n].what \in Library_Objects PROVE fd[n].what \in Library_Objects
  <2>1. CASE OpenFile
    BY <1>3, <2>1, OpenEffect, Kinds DEF Shape, OpenFile
  <2>2. ASSUME NEW m \in Fds, CloseFile(m) PROVE fd[n].what \in Library_Objects
    BY <1>3, <2>2, CloseEffect, Kinds, Zenon DEF CloseFile
  <2>3. ASSUME NEW e, OtherProcess(e) PROVE fd[n].what \in Library_Objects
    BY <1>3, <2>3, Zenon DEF OtherProcess
  <2> QED BY <2>1, <2>2, <2>3, Zenon DEF Environment
<1> QED BY <1>2, <1>3, Zenon DEF Leakless

\* Every step keeps track of what is open.
LEMMA LeaklessNext == Shape /\ Leakless /\ [Next]_vars => Leakless'
<1> SUFFICES ASSUME Shape, Leakless, [Next]_vars PROVE Leakless'
  BY Zenon
<1>1. CASE UNCHANGED vars
  BY <1>1, Zenon DEF vars, Leakless, Held, Live, Closing, Opening
<1>2. CASE Environment
  BY <1>2, LeaklessEnvironment, Zenon
<1>3. CASE Library
  BY <1>3, LeaklessBegin, LeaklessLoad, LeaklessOpen, LeaklessSet, LeaklessClose,
     LeaklessUnload, LeaklessErase, LeaklessDestroyFuncs, Zenon DEF Library, Begin
<1> QED BY <1>1, <1>2, <1>3, Zenon DEF Next

\* No descriptor the library opened is ever leaked: on every path, error paths
\* included, each program and perf event is named by a map or by the call in
\* progress, and after ~BPF none is open.
THEOREM NothingLeaksHolds == Spec => []NothingLeaks
<1>1. Init => Shape /\ Leakless
  BY ShapeInit, Kinds, Zenon DEF Init, Leakless
<1>2. Shape /\ Leakless /\ [Next]_vars => (Shape /\ Leakless)'
  BY ShapeNext, LeaklessNext, Zenon
<1>3. Leakless => NothingLeaks
  <2>1. ASSUME NEW n \in Fds, Held(n) PROVE n \in Named
    <3>1. ASSUME NEW f \in Funcs, funcs_[f] = n PROVE n \in Named
      BY <3>1, Zenon DEF Named
    <3>2. ASSUME NEW e \in Events, n \in Numbers(probes[e].fds) PROVE n \in Named
      <4>1. n \in UNION {Numbers(probes[d].fds) : d \in Events}
        BY <3>2, Zenon
      <4> QED BY <4>1, Zenon DEF Named
    <3>3. n = call.pfd \/ n \in Numbers(call.got) => n \in Named
      BY Zenon DEF Named
    <3> QED BY <2>1, <3>1, <3>2, <3>3, Zenon DEF Held
  <2> QED BY <2>1, Zenon DEF Leakless, NothingLeaks
<1> QED BY <1>1, <1>2, <1>3, PTL DEF Spec

\* The state is well formed: a map entry has as many descriptors as its event
\* needs, one or one for each CPU.
THEOREM TypeOKHolds == Spec => []TypeOK
<1>1. Shape => TypeOK
  <2> SUFFICES ASSUME Shape PROVE TypeOK
    BY Zenon
  <2>1. /\ DOMAIN fd = Fds /\ DOMAIN probes = Events
        /\ \A n \in Fds : fd[n].what \in {"closed", "file", "prog", "perf"}
        /\ funcs_ \in [Funcs -> 0..NFds] /\ tracefs \subseteq Probed /\ foreign \subseteq Probed
    BY Zenon DEF Shape, TableShape
  <2>2. call.left \subseteq Events /\ Numbers(call.got) \subseteq Fds
    BY NumbersFacts, Zenon DEF Shape, CallShape, CallFields
  <2>3. \A e \in Events : probes[e] # NoProbe =>
          /\ probes[e].func \in Funcs /\ Numbers(probes[e].fds) \subseteq Fds
          /\ Len(probes[e].fds) = Width(e)
    BY NumbersFacts, Zenon DEF Shape, ProbeShape
  <2> QED BY <2>1, <2>2, <2>3, Zenon DEF TypeOK
<1> QED BY <1>1, ShapeInit, ShapeNext, PTL DEF Spec

-----------------------------------------------------------------------------
(* What is left in [ku]probe_events is accounted for.                       *)

\* A call that fails is remembered as failed.
LEMMA FailFacts ==
  ASSUME Fail
  PROVE  /\ errors \subseteq errors'
         /\ call.op \in {"detach", "destroy"} => "detach" \in errors'
         /\ call.op = "attach" /\ call.event \in Probed => call.event \in errors'
BY Zenon DEF Fail

\* So is a call of detach or of the destructor that goes on after an error.
LEMMA ErrorFacts ==
  ASSUME Shape, Error
  PROVE  /\ errors \subseteq errors'
         /\ call.op \in {"detach", "destroy"} => "detach" \in errors'
         /\ call'.op = "none" \/ (call'.op = "destroy" /\ call.op = "destroy")
<1>1. Fail /\ (Return \/ (call.op = "destroy" /\ Step("next")))
  BY Zenon DEF Error
<1>2. CASE Return
  <2>1. call'.op = "none"
    BY <1>2, ReturnFields, Zenon
  <2> QED BY <1>1, <2>1, FailFacts, Zenon
<1>3. CASE call.op = "destroy" /\ Step("next")
  <2>1. call'.op = "destroy"
    BY <1>3, StepFields, Zenon DEF Shape, CallShape
  <2> QED BY <1>1, <1>3, <2>1, FailFacts, Zenon
<1> QED BY <1>1, <1>2, <1>3, Zenon

\* A call that begins leaves tracefs alone.
LEMMA TracedBegin == ASSUME Shape, Traced, Begin PROVE Traced'
<1>1. UNCHANGED <<probes, tracefs, errors, destroyed>>
  BY Zenon DEF Begin, attach, UserLoad, UserUnload, detach, Destroy, DestroyNext
<1>2. ~Opening
  <2>1. call.at \in {"idle", "next"}
    BY Zenon DEF Begin, attach, UserLoad, UserUnload, detach, Destroy, DestroyNext, At
  <2> QED BY <2>1, Zenon DEF Opening
<1>3. CASE ~Destroy /\ ~\E e \in Events : DestroyNext(e)
  <2>1. call'.op \in {"attach", "load", "unload"} \/ (call'.op = "detach" /\ call'.at = "close")
    BY <1>3, CallIsNew DEF Begin, attach, UserLoad, UserUnload, detach
  <2> QED BY <1>1, <1>2, <2>1, Zenon DEF Traced, DetachFailed
<1>4. CASE Destroy
  <2> DEFINE left == {d \in Events : probes[d] # NoProbe}
  <2>1. call' = [op |-> "destroy", at |-> "next", event |-> "none", func |-> "none",
                 prog |-> 0, pfd |-> 0, got |-> <<>>, left |-> left, failed |-> FALSE]
    BY <1>4, Zenon DEF Destroy, Call
  <2>2. call'.op = "destroy" /\ call'.left = left
    BY <2>1, Zenon
  <2>3. \A e \in tracefs \ left : e \in errors
    BY <1>2, <1>4, Zenon DEF Shape, TableShape, Traced, Destroy, Events
  <2> HIDE DEF left
  <2> QED BY <1>1, <1>2, <2>2, <2>3, Zenon DEF Traced, DetachFailed
<1>5. ASSUME NEW e \in Events, DestroyNext(e) PROVE Traced'
  <2>1. call.op = "destroy" /\ call.at = "next"
    BY <1>5, Zenon DEF Shape, CallShape, CallControl, DestroyNext, At
  <2>2. call' = [op |-> "destroy", at |-> "close", event |-> e, func |-> probes[e].func,
                 prog |-> 0, pfd |-> 0, got |-> <<>>, left |-> call.left \ {e},
                 failed |-> FALSE]
    BY <1>5, Zenon DEF DestroyNext, Call
  <2>3. /\ call'.op = "destroy" /\ call'.at = "close" /\ call'.event = e
        /\ call'.left = call.left \ {e}
    BY <2>2, Zenon
  <2> QED BY <1>1, <1>2, <2>1, <2>3, Zenon DEF Traced, DetachFailed
<1> QED BY <1>3, <1>4, <1>5, Zenon

\* The steps of an attach: an event appears in tracefs before it is recorded.
LEMMA TracedAttach ==
  ASSUME Shape, Traced,
         load_func \/ OpenProbe \/ OpenEvent \/ OpenRaw \/ SetBpf \/ AttachFailed
  PROVE  Traced'
<1>1. call.op \in {"load", "attach"} /\ (call.op = "attach" => call.event \in Events)
  BY Zenon DEF Shape, CallShape, CallControl, Active, At, load_func, OpenProbe, OpenEvent,
         OpenRaw, SetBpf, AttachFailed
<1>2. CASE load_func
  <2>1. /\ errors \subseteq errors' /\ UNCHANGED <<tracefs, probes, destroyed>> /\ ~Opening
    BY <1>2, FailFacts, Zenon DEF load_func, Opening, At
  <2>2. call'.op \in {"none", "attach"}
    <3>1. CASE Return
      BY <3>1, ReturnFields, Zenon
    <3>2. CASE \E n : call' = [call EXCEPT !.prog = n, !.at = "open"] /\ call.op # "load"
      BY <1>1, <3>2, Zenon DEF Shape, CallShape, CallFields
    <3> QED BY <1>2, <3>1, <3>2, Zenon DEF load_func, Loaded, Return
  <2> QED BY <2>1, <2>2, Zenon DEF Traced, DetachFailed
<1>3. ASSUME /\ tracefs' \subseteq tracefs \cup {call.event}
             /\ UNCHANGED <<probes, errors, destroyed>>
             /\ call.op = "attach" /\ call'.op = "attach" /\ call'.event = call.event
             /\ call'.at \in {"open", "set_bpf", "failed"}
      PROVE  Traced'
  BY <1>3, Zenon DEF Traced, DetachFailed, Opening
<1>4. ASSUME call.op = "attach", NEW l \in {"failed", "unload"}, Step(l)
      PROVE  call'.op = "attach" /\ call'.event = call.event /\ call'.at = l
  BY <1>4, StepFields, Zenon DEF Shape, CallShape
<1>5. ASSUME call.op = "attach", NEW fds, Len(fds) > 0, RecordProbe(fds),
             UNCHANGED <<tracefs, errors, destroyed>>
      PROVE  Traced'
  <2>1. CASE Len(fds) < Width(call.event)
    <3>1. call' = [call EXCEPT !.got = fds, !.at = "open"] /\ UNCHANGED probes
      BY <1>5, <2>1, Zenon DEF RecordProbe
    <3>2. call'.op = "attach" /\ call'.event = call.event /\ call'.at = "open"
      BY <1>5, <3>1, Zenon DEF Shape, CallShape, CallFields
    <3> QED BY <1>3, <1>5, <3>1, <3>2, Zenon
  <2>2. CASE ~(Len(fds) < Width(call.event))
    <3>1. /\ probes' = [probes EXCEPT ![call.event] =
                          [func |-> call.func, fds |-> fds, freed |-> FALSE]]
          /\ Return
      BY <1>5, <2>2, Zenon DEF RecordProbe
    <3>2. probes'[call.event] = [func |-> call.func, fds |-> fds, freed |-> FALSE]
          /\ \A e \in Events \ {call.event} : probes'[e] = probes[e]
      BY <1>1, <1>5, <3>1, Zenon DEF Shape
    <3>3. probes'[call.event].fds = fds /\ Len(<<>>) = 0
      BY <3>2
    <3>4. probes'[call.event] # NoProbe
      BY <1>5, <3>3, NoProbeFacts
    <3>5. call'.op = "none"
      BY <3>1, ReturnFields, Zenon
    <3>6. tracefs \subseteq Events
      BY Zenon DEF Shape, TableShape, Events
    <3> QED BY <1>1, <1>5, <3>2, <3>4, <3>5, <3>6, Zenon DEF Traced, DetachFailed, Opening
  <2> QED BY <2>1, <2>2, Zenon
<1>6. ASSUME call.op = "attach", At("open"), Opened \/ NotOpened
      PROVE  /\ call'.op = "attach" /\ call'.event = call.event
             /\ call'.at \in {"set_bpf", "failed"}
  <2>1. CASE Opened
    BY <1>6, <2>1, Zenon DEF Shape, CallShape, CallFields, Opened
  <2>2. CASE NotOpened
    BY <1>4, <1>6, <2>2, Zenon DEF NotOpened
  <2> QED BY <1>6, <2>1, <2>2, Zenon
<1>7. CASE OpenProbe \/ OpenEvent \/ OpenRaw \/ SetBpf
  <2>1. call.op = "attach" /\ call.got \in Seq(Fds)
    BY <1>7, Zenon DEF Shape, CallShape, CallFields, CallControl, At, OpenProbe, OpenEvent, OpenRaw, SetBpf
  <2>2. CASE OpenProbe \/ OpenEvent
    BY <1>3, <1>6, <2>1, <2>2, Zenon DEF OpenProbe, OpenEvent
  <2>3. CASE OpenRaw
    <3>1. Len(<<Lowest>>) > 0
      OBVIOUS
    <3> QED BY <1>3, <1>5, <1>6, <2>1, <2>3, <3>1, Zenon DEF OpenRaw
  <2>4. CASE SetBpf
    <3>1. call.pfd \in Fds
      BY <2>1, <2>4, Zenon DEF Shape, CallShape, CallControl, SetBpf, At
    <3>2. Len(Append(call.got, call.pfd)) > 0
      BY <2>1, <3>1
    <3> QED BY <1>3, <1>4, <1>5, <2>1, <2>4, <3>2, Zenon DEF SetBpf
  <2> QED BY <1>7, <2>2, <2>3, <2>4, Zenon
<1>8. CASE AttachFailed
  <2>1. call.op = "attach" /\ UNCHANGED <<tracefs, probes, destroyed>> /\ Fail
    BY <1>8, Zenon DEF Shape, CallShape, CallControl, At, AttachFailed
  <2>2. /\ errors \subseteq errors' /\ call'.op = "attach"
        /\ \A e \in tracefs : e = call.event => e \in errors'
    BY <1>4, <1>8, <2>1, FailFacts, Zenon DEF AttachFailed, Shape, TableShape
  <2> QED BY <2>1, <2>2, Zenon DEF Traced, DetachFailed
<1> QED BY <1>2, <1>7, <1>8, Zenon

\* The steps of a detach: the record goes after the event in tracefs has.
LEMMA TracedDetach ==
  ASSUME Shape, Traced,
         CloseProbe \/ CloseFreed \/ unload_func \/ bpf_detach_probe \/ Erase \/ DestroyFuncs
  PROVE  Traced'
<1>1. call.at \in {"close", "unload", "tracefs", "erase", "next"} /\ ~Opening
  BY Zenon DEF CloseProbe, CloseFreed, unload_func, bpf_detach_probe, Erase, DestroyFuncs, At, Opening
<1>2. tracefs \subseteq Events
  BY Zenon DEF Shape, TableShape, Events
<1>3. ASSUME Error, tracefs' \subseteq tracefs, UNCHANGED destroyed,
             \A e \in Events : probes[e] # NoProbe => probes'[e] # NoProbe
      PROVE  Traced'
  BY <1>1, <1>2, <1>3, ErrorFacts, Zenon DEF Traced, DetachFailed
<1>4. ASSUME call'.op = call.op, call'.event = call.event, call'.left = call.left,
             call'.at \in {"unload", "tracefs", "crashed"}, call.at \in {"close", "unload"},
             UNCHANGED <<tracefs, errors, destroyed>>,
             \A e \in Events : probes[e] # NoProbe => probes'[e] # NoProbe
      PROVE  Traced'
  BY <1>1, <1>2, <1>4, Zenon DEF Traced, DetachFailed
<1>5. ASSUME Step("erase"), tracefs' \subseteq tracefs, call.event \notin tracefs',
             UNCHANGED <<errors, destroyed, probes>>
      PROVE  Traced'
  <2>1. /\ call'.op = call.op /\ call'.event = call.event /\ call'.left = call.left
        /\ call'.at = "erase"
    BY <1>5, StepFields, Zenon DEF Shape, CallShape
  <2> QED BY <1>1, <1>5, <2>1, Zenon DEF Traced, DetachFailed
<1>6. ASSUME NEW l, Step(l)
      PROVE  /\ call'.op = call.op /\ call'.event = call.event /\ call'.left = call.left
             /\ call'.at = l
  BY <1>6, StepFields, Zenon DEF Shape, CallShape
<1>7. CASE CloseProbe
  <2>1. \A e \in Events : probes[e] # NoProbe => probes'[e] # NoProbe
    <3>1. call.event \in Events /\ probes[call.event] # NoProbe
      BY <1>7, Zenon DEF Shape, CallShape, CallControl, Active, At, CloseProbe
    <3> DEFINE p == probes[call.event]
    <3>2. p = [func |-> p.func, fds |-> p.fds, freed |-> p.freed] /\ p.func \in Funcs
          /\ p.fds \in Seq(Fds) /\ Len(p.fds) = Width(call.event)
      BY <3>1, Zenon DEF Shape, ProbeShape
    <3>3. p.fds # <<>>
      BY <3>2, WidthPositive, Zenon
    <3>4. /\ probes'[call.event] = [p EXCEPT !.freed = call.event \in PerfEvents]
          /\ \A e \in Events \ {call.event} : probes'[e] = probes[e]
      BY <1>7, <3>1, Zenon DEF Shape, CloseProbe
    <3>5. probes'[call.event].fds = p.fds
      BY <3>2, <3>4, Zenon
    <3>6. probes'[call.event] # NoProbe
      BY <3>3, <3>5, NoProbeFacts, Zenon
    <3> QED BY <3>4, <3>6, Zenon
  <2>2. CASE Error
    BY <1>3, <1>7, <2>1, <2>2, Zenon DEF CloseProbe
  <2>3. CASE (\E bad : call' = [call EXCEPT !.at = "unload", !.failed = bad]) /\ UNCHANGED errors
    <3>1. /\ call'.op = call.op /\ call'.event = call.event /\ call'.left = call.left
          /\ call'.at = "unload"
      BY <2>3, Zenon DEF Shape, CallShape, CallFields
    <3> QED BY <1>4, <1>7, <2>1, <2>3, <3>1, Zenon DEF CloseProbe, At
  <2> QED BY <1>7, <2>2, <2>3, Zenon DEF CloseProbe
<1>8. CASE CloseFreed
  BY <1>4, <1>6, <1>8, Zenon DEF CloseFreed, At
<1>9. CASE unload_func
  <2>1. UNCHANGED <<tracefs, probes, destroyed>> /\ At("unload")
    BY <1>9, Zenon DEF unload_func, Unloaded
  <2>2. CASE Error
    BY <1>3, <2>1, <2>2, Zenon
  <2>3. CASE Return /\ UNCHANGED errors
    BY <1>1, <2>1, <2>3, ReturnFields, Zenon DEF Traced, DetachFailed
  <2>4. CASE Step("tracefs") /\ UNCHANGED errors
    BY <1>4, <1>6, <2>1, <2>4, Zenon DEF At
  <2>5. CASE Step("erase") /\ call.event \notin Probed /\ UNCHANGED errors
    BY <1>5, <2>1, <2>5, Zenon DEF Shape, TableShape
  <2> QED BY <1>9, <2>2, <2>3, <2>4, <2>5, Zenon DEF unload_func, Unloaded
<1>10. CASE bpf_detach_probe
  <2>1. CASE Step("erase") /\ UNCHANGED errors /\ tracefs' \subseteq tracefs
             /\ call.event \notin tracefs'
    BY <1>5, <1>10, <2>1, Zenon DEF bpf_detach_probe
  <2>2. CASE Error /\ UNCHANGED tracefs
    BY <1>3, <1>10, <2>2, Zenon DEF bpf_detach_probe
  <2> QED BY <1>10, <2>1, <2>2, Zenon DEF bpf_detach_probe, Found
<1>11. CASE Erase
  <2>1. /\ UNCHANGED <<tracefs, errors, destroyed>> /\ call.at = "erase"
        /\ call.op \in {"detach", "destroy"} /\ call.event \in Events
    BY <1>11, Zenon DEF Shape, CallShape, CallControl, Active, Erase, At
  <2>2. CASE call.op = "destroy" /\ Step("next") /\ UNCHANGED probes
    BY <1>1, <1>6, <2>1, <2>2, Zenon DEF Traced, DetachFailed
  <2>3. CASE call.op = "detach" /\ Return /\ probes' = [probes EXCEPT ![call.event] = NoProbe]
    <3>1. \A e \in Events \ {call.event} : probes'[e] = probes[e]
      BY <2>1, <2>3, Zenon DEF Shape
    <3> QED BY <1>1, <1>2, <2>1, <2>3, <3>1, ReturnFields, Zenon DEF Traced, DetachFailed
  <2> QED BY <1>11, <2>1, <2>2, <2>3, Zenon DEF Erase
<1>12. CASE DestroyFuncs
  <2>1. call.op = "destroy" /\ call.at = "next" /\ call.left = {}
    BY <1>12, Zenon DEF Shape, CallShape, CallControl, DestroyFuncs, At
  <2>2. \A e \in tracefs : e \in errors \/ DetachFailed
    BY <2>1, Zenon DEF Traced
  <2>3. UNCHANGED <<tracefs, errors>> /\ destroyed' = TRUE /\ call'.op = "none"
    BY <1>12, ReturnFields, Zenon DEF DestroyFuncs
  <2> QED BY <2>2, <2>3, Zenon DEF Traced, DetachFailed
<1> QED BY <1>7, <1>8, <1>9, <1>10, <1>11, <1>12, Zenon

\* Every step keeps tracefs accounted for.
LEMMA TracedNext == Shape /\ Traced /\ [Next]_vars => Traced'
<1> SUFFICES ASSUME Shape, Traced, [Next]_vars PROVE Traced'
  BY Zenon
<1>1. CASE UNCHANGED vars \/ Environment
  <2>1. UNCHANGED <<call, probes, tracefs, errors, destroyed>>
    BY <1>1, Zenon DEF vars, Environment, OpenFile, CloseFile, OtherProcess
  <2> QED BY <2>1, Zenon DEF Traced, DetachFailed, Opening
<1>2. CASE Library
  BY <1>2, TracedBegin, TracedAttach, TracedDetach, Zenon DEF Library, Begin
<1> QED BY <1>1, <1>2, Zenon DEF Next

\* An event this process left in [ku]probe_events belongs to a recorded probe,
\* or to a call that returned an error.
THEOREM TracefsAccountedHolds == Spec => []TracefsAccounted
<1>1. Init => Shape /\ Traced
  <2>1. ASSUME Init PROVE tracefs = {} /\ call.op = "none"
    BY <2>1, Zenon DEF Init, Idle, Call
  <2> QED BY <2>1, ShapeInit, Zenon DEF Traced
<1>2. Shape /\ Traced /\ [Next]_vars => (Shape /\ Traced)'
  BY ShapeNext, TracedNext, Zenon
<1>3. Traced => TracefsAccounted
  BY Zenon DEF Traced, TracefsAccounted, Opening
<1> QED BY <1>1, <1>2, <1>3, PTL DEF Spec

-----------------------------------------------------------------------------
(* Until a detach fails, the maps are true.                                 *)

\* funcs_ stays true while no program is closed or opened.
LEMMA FuncsKept ==
  ASSUME Shape, FuncsTrue, UNCHANGED funcs_,
         \A n \in Fds : fd[n].what = "prog" => fd'[n] = fd[n]
  PROVE  FuncsTrue'
<1>1. \A f \in Funcs : funcs_[f] # 0 => funcs_[f] \in Fds
  BY ProbesAssumption DEF Shape, TableShape, Fds
<1> QED BY <1>1, Zenon DEF FuncsTrue

\* The descriptors of a probe are descriptors.
LEMMA FdsInTable ==
  ASSUME Shape, NEW e \in Events
  PROVE  Numbers(probes[e].fds) \subseteq Fds
<1>1. CASE probes[e] = NoProbe
  BY <1>1, NoProbeFacts, NumbersFacts, Zenon
<1>2. CASE probes[e] # NoProbe
  BY <1>2, NumbersFacts, Zenon DEF Shape, ProbeShape
<1> QED BY <1>1, <1>2, Zenon

\* The records stay true while what they refer to is not touched.
LEMMA ProbesKept ==
  ASSUME Shape, ProbesTrue,
         \A e \in Events : probes'[e] # NoProbe /\ ~Closing(e)' =>
           /\ probes[e] # NoProbe /\ ~Closing(e)
           /\ probes'[e].fds = probes[e].fds /\ probes'[e].func = probes[e].func
           /\ \A n \in Fds : fd[n].what = "perf" /\ fd[n].of = e => fd'[n] = fd[n]
  PROVE  ProbesTrue'
<1> SUFFICES ASSUME NEW e \in Events, (probes[e] # NoProbe /\ ~Closing(e))',
                    NEW n \in Numbers(probes'[e].fds)
             PROVE  fd'[n] = Perf(e, probes'[e].func)
  BY Zenon DEF ProbesTrue
<1>1. /\ n \in Numbers(probes[e].fds) /\ probes'[e].func = probes[e].func
      /\ fd[n] = Perf(e, probes[e].func) /\ n \in Fds
  BY FdsInTable, Zenon DEF ProbesTrue
<1> QED BY <1>1, Kinds

\* A call that begins touches no descriptor.
LEMMA TruthBegin == ASSUME Shape, Truth, Begin PROVE Truth'
<1>1. UNCHANGED <<fd, funcs_, probes>>
  BY Zenon DEF Begin, attach, UserLoad, UserUnload, detach, Destroy, DestroyNext
<1>2. FuncsTrue'
  BY <1>1, FuncsKept, Zenon DEF Truth
<1>3. \A e \in Events : Closing(e) => Closing(e)'
  <2>1. CASE call.at = "idle"
    BY <2>1, Zenon DEF Shape, CallShape, CallControl, Closing
  <2>2. ASSUME NEW e \in Events, DestroyNext(e) PROVE \A d \in Events : Closing(d) => Closing(d)'
    <3>1. call.op = "destroy" /\ call.at = "next" /\ e \in call.left
      BY <2>2, Zenon DEF Shape, CallShape, CallControl, DestroyNext, At
    <3>2. call' = [op |-> "destroy", at |-> "close", event |-> e, func |-> probes[e].func,
                   prog |-> 0, pfd |-> 0, got |-> <<>>, left |-> call.left \ {e},
                   failed |-> FALSE]
      BY <2>2, Zenon DEF DestroyNext, Call
    <3>3. /\ call'.op = "destroy" /\ call'.at = "close" /\ call'.event = e
          /\ call'.left = call.left \ {e}
      BY <3>2, Zenon
    <3> QED BY <3>1, <3>3, Zenon DEF Closing
  <2> QED BY <2>1, <2>2, Zenon DEF Begin, attach, UserLoad, UserUnload, detach, Destroy, At
<1>4. ProbesTrue' /\ FreedIsClosing'
  BY <1>1, <1>3, Zenon DEF Truth, ProbesTrue, FreedIsClosing
<1>5. HoldsItsOwn'
  <2>1. CASE \E e \in Events, f \in Funcs : attach(e, f)
    BY <2>1, CallIsNew DEF attach, HoldsItsOwn, Opening
  <2>2. CASE \/ \E e \in Events, f \in Funcs : UserLoad(e, f)
             \/ \E f \in Funcs : UserUnload(f)
             \/ \E e \in Events : detach(e)
    BY <2>2, CallIsNew DEF UserLoad, UserUnload, detach, HoldsItsOwn, Opening
  <2>3. CASE Destroy \/ \E e \in Events : DestroyNext(e)
    <3>1. call'.op = "destroy"
      BY <2>3, Zenon DEF Destroy, DestroyNext, Call
    <3> QED BY <3>1, Zenon DEF HoldsItsOwn, Opening
  <2> QED BY <2>1, <2>2, <2>3, Zenon DEF Begin
<1> QED BY <1>2, <1>4, <1>5, Zenon DEF Truth

\* A free number is nobody's, so what is opened at it disturbs nothing.
LEMMA OpenDisturbsNothing ==
  ASSUME Shape, HasFree, NEW o, Open(o)
  PROVE  \A n \in Fds : fd[n].what \in {"prog", "perf"} => fd'[n] = fd[n] /\ n # Lowest
BY LowestIsFree, OpenEffect, Kinds, Zenon DEF Shape

\* Outside detach and ~BPF nothing is closing, and nothing is freed.
LEMMA NotClosing ==
  ASSUME FreedIsClosing, UNCHANGED probes,
         call.op \in {"none", "load", "unload", "attach"},
         call'.op \in {"none", "load", "unload", "attach"}
  PROVE  /\ \A e \in Events : ~Closing(e) /\ ~Closing(e)' /\ ~probes[e].freed
         /\ FreedIsClosing'
BY Zenon DEF Closing, FreedIsClosing

\* A program that is loaded takes a free descriptor.
LEMMA TruthLoad == ASSUME Shape, Truth, load_func PROVE Truth'
<1>1. /\ call.op \in {"load", "attach"} /\ call.at = "load" /\ call.func \in Funcs
      /\ UNCHANGED probes
      /\ call.op = "attach" => call.got = <<>>
  BY Zenon DEF Shape, CallShape, CallControl, load_func, At
<1>2. ASSUME NEW n, Loaded(n), n = funcs_'[call.func], n # 0
      PROVE  call'.op \in {"none", "attach"} /\ HoldsItsOwn'
  <2>1. CASE call.op = "load"
    BY <1>2, <2>1, ReturnFields, Zenon DEF Loaded, Return, HoldsItsOwn, Opening
  <2>2. CASE call.op = "attach"
    <3>1. call' = [call EXCEPT !.prog = n, !.at = "open"]
      BY <1>2, <2>2, Zenon DEF Loaded
    <3>2. /\ call'.op = "attach" /\ call'.at = "open" /\ call'.prog = n
          /\ call'.func = call.func /\ call'.got = <<>>
      BY <1>1, <2>2, <3>1, Zenon DEF Shape, CallShape, CallFields
    <3> QED BY <1>2, <3>2, NumbersFacts, Zenon DEF HoldsItsOwn, Opening
  <2> QED BY <1>1, <2>1, <2>2, Zenon
<1>3. ASSUME call'.op \in {"none", "attach"},
             \A n \in Fds : fd[n].what \in {"prog", "perf"} => fd'[n] = fd[n]
      PROVE  ProbesTrue' /\ FreedIsClosing'
  <2>1. (\A e \in Events : ~Closing(e)) /\ FreedIsClosing'
    BY <1>1, <1>3, NotClosing, Zenon DEF Truth
  <2> QED BY <1>1, <1>3, <2>1, ProbesKept, Zenon DEF Truth
<1>4. CASE funcs_[call.func] # 0 /\ Loaded(funcs_[call.func]) /\ UNCHANGED <<fd, funcs_>>
  BY <1>2, <1>3, <1>4, FuncsKept, Zenon DEF Truth
<1>5. CASE /\ funcs_[call.func] = 0 /\ HasFree
           /\ Open(Prog(call.func, ProgType(call.event)))
           /\ funcs_' = [funcs_ EXCEPT ![call.func] = Lowest] /\ Loaded(Lowest)
  <2>1. /\ funcs_'[call.func] = Lowest /\ Lowest # 0 /\ Lowest \in Fds
        /\ \A f \in Funcs \ {call.func} : funcs_'[f] = funcs_[f]
    BY <1>1, <1>5, LowestIsFree DEF Shape, TableShape, Fds
  <2>2. \A n \in Fds : fd[n].what \in {"prog", "perf"} => fd'[n] = fd[n]
    BY <1>5, OpenDisturbsNothing, Zenon
  <2>3. fd'[Lowest].what = "prog" /\ fd'[Lowest].of = call.func
    BY <1>5, OpenEffect, Kinds DEF Shape
  <2>4. \A f \in Funcs : funcs_[f] # 0 => funcs_[f] \in Fds
    BY ProbesAssumption DEF Shape, TableShape, Fds
  <2>5. FuncsTrue'
    BY <1>1, <2>1, <2>2, <2>3, <2>4 DEF Truth, FuncsTrue
  <2> QED BY <1>2, <1>3, <1>5, <2>1, <2>2, <2>5, Zenon DEF Truth
<1>6. CASE Return /\ UNCHANGED <<fd, funcs_>>
  <2>1. call'.op = "none"
    BY <1>6, ReturnFields, Zenon
  <2> QED BY <1>3, <1>6, <2>1, FuncsKept, Zenon DEF Truth, HoldsItsOwn, Opening
<1> QED BY <1>4, <1>5, <1>6, Zenon DEF load_func

\* An event that is opened takes a free descriptor.
LEMMA TruthOpened ==
  ASSUME Shape, Truth, At("open"), Opened \/ NotOpened, UNCHANGED <<funcs_, probes>>
  PROVE  Truth'
<1>1. call.op = "attach" /\ call.at = "open" /\ call.got \in Seq(Fds)
  BY Zenon DEF Shape, CallShape, CallFields, CallControl, At
<1>2. ASSUME call'.op = "attach",
             \A n \in Fds : fd[n].what \in {"prog", "perf"} => fd'[n] = fd[n]
      PROVE  FuncsTrue' /\ ProbesTrue' /\ FreedIsClosing'
  <2>1. (\A e \in Events : ~Closing(e)) /\ FreedIsClosing'
    BY <1>1, <1>2, NotClosing, Zenon DEF Truth
  <2> QED BY <1>2, <2>1, ProbesKept, FuncsKept, Zenon DEF Truth
<1>3. \A n \in Numbers(call.got) : fd[n] = Perf(call.event, call.func) /\ n \in Fds
  BY <1>1, NumbersFacts, Zenon DEF Truth, HoldsItsOwn, Opening
<1>4. CASE Opened
  <2>1. call' = [call EXCEPT !.pfd = Lowest, !.at = "set_bpf"] /\ HasFree
    BY <1>4, Zenon DEF Opened
  <2>2. /\ call'.op = "attach" /\ call'.at = "set_bpf" /\ call'.pfd = Lowest
        /\ call'.got = call.got /\ call'.event = call.event /\ call'.func = call.func
        /\ call'.prog = call.prog
    BY <1>1, <2>1, Zenon DEF Shape, CallShape, CallFields
  <2>3. \A n \in Fds : fd[n].what \in {"prog", "perf"} => fd'[n] = fd[n] /\ n # Lowest
    BY <1>4, OpenDisturbsNothing, Zenon DEF Opened
  <2>4. fd'[Lowest].what = "perf" /\ fd'[Lowest].of = call.event
    BY <1>4, OpenEffect, Kinds DEF Shape, Opened
  <2>5. \A n \in Numbers(call.got) : fd'[n] = Perf(call.event, call.func) /\ n # Lowest
    BY <1>3, <2>3, Kinds
  <2>6. HoldsItsOwn'
    BY <1>1, <2>2, <2>4, <2>5, Zenon DEF Truth, HoldsItsOwn, Opening
  <2> QED BY <1>2, <2>2, <2>3, <2>6, Zenon DEF Truth
<1>5. CASE NotOpened
  <2>1. /\ call'.op = "attach" /\ call'.at = "failed" /\ call'.got = call.got
        /\ call'.event = call.event /\ call'.func = call.func
    BY <1>1, <1>5, StepFields, Zenon DEF Shape, CallShape, NotOpened
  <2>2. HoldsItsOwn'
    BY <1>3, <1>5, <2>1, Zenon DEF NotOpened, HoldsItsOwn, Opening
  <2> QED BY <1>2, <1>5, <2>1, <2>2, Zenon DEF Truth, NotOpened
<1> QED BY <1>4, <1>5, Zenon

\* What is recorded is what was opened.
LEMMA TruthRecord ==
  ASSUME Shape, Truth, call.op = "attach", call.at \in {"open", "set_bpf"},
         NEW fds \in Seq(Fds), RecordProbe(fds), UNCHANGED funcs_, FuncsTrue',
         \A n \in Numbers(fds) : fd'[n] = Perf(call.event, call.func),
         \A n \in Fds : fd[n].what = "perf" /\ fd[n].of # call.event => fd'[n] = fd[n]
  PROVE  Truth'
<1>1. /\ call.event \in Events /\ probes[call.event] = NoProbe
      /\ funcs_[call.func] # 0 /\ call.prog = funcs_[call.func]
  BY Zenon DEF Shape, CallShape, CallControl, Truth, HoldsItsOwn
<1>2. CASE Len(fds) < Width(call.event)
  <2>1. call' = [call EXCEPT !.got = fds, !.at = "open"] /\ UNCHANGED probes
    BY <1>2, Zenon DEF RecordProbe
  <2>2. /\ call'.op = "attach" /\ call'.at = "open" /\ call'.got = fds
        /\ call'.event = call.event /\ call'.func = call.func /\ call'.prog = call.prog
    BY <2>1, Zenon DEF Shape, CallShape, CallFields
  <2>3. (\A e \in Events : ~Closing(e)) /\ FreedIsClosing'
    BY <2>1, <2>2, NotClosing, Zenon DEF Truth
  <2>4. ProbesTrue'
    BY <1>1, <2>1, <2>3, ProbesKept, Zenon DEF Truth
  <2>5. HoldsItsOwn'
    BY <1>1, <2>2, Zenon DEF HoldsItsOwn, Opening
  <2> QED BY <2>3, <2>4, <2>5, Zenon DEF Truth
<1>3. CASE ~(Len(fds) < Width(call.event))
  <2>1. /\ probes' = [probes EXCEPT ![call.event] =
                        [func |-> call.func, fds |-> fds, freed |-> FALSE]]
        /\ Return
    BY <1>3, Zenon DEF RecordProbe
  <2>2. probes'[call.event] = [func |-> call.func, fds |-> fds, freed |-> FALSE]
        /\ \A e \in Events \ {call.event} : probes'[e] = probes[e]
    BY <1>1, <2>1, Zenon DEF Shape
  <2>3. /\ probes'[call.event].fds = fds /\ probes'[call.event].freed = FALSE
        /\ probes'[call.event].func = call.func
    BY <2>2
  <2>4. call'.op = "none" /\ \A e \in Events : ~Closing(e) /\ ~Closing(e)'
    BY <2>1, ReturnFields, Zenon DEF Closing
  <2>5. FreedIsClosing'
    BY <2>2, <2>3, <2>4, Zenon DEF Truth, FreedIsClosing
  <2>6. ASSUME NEW e \in Events, probes'[e] # NoProbe, NEW n \in Numbers(probes'[e].fds)
        PROVE  fd'[n] = Perf(e, probes'[e].func)
    <3>1. CASE e = call.event
      BY <2>3, <2>6, <3>1, Zenon
    <3>2. CASE e # call.event
      <4>1. probes'[e] = probes[e]
        BY <2>2, <3>2, Zenon
      <4>2. fd[n] = Perf(e, probes[e].func) /\ n \in Fds
        BY <2>4, <2>6, <4>1, FdsInTable, Zenon DEF Truth, ProbesTrue
      <4> QED BY <3>2, <4>1, <4>2, Kinds
    <3> QED BY <3>1, <3>2, Zenon
  <2>7. ProbesTrue'
    BY <2>6, Zenon DEF ProbesTrue
  <2> QED BY <2>4, <2>5, <2>7, Zenon DEF Truth, HoldsItsOwn, Opening
<1> QED BY <1>2, <1>3, Zenon

\* Opening the event of an attach.
LEMMA TruthOpen == ASSUME Shape, Truth, OpenProbe \/ OpenEvent \/ OpenRaw PROVE Truth'
<1>1. CASE OpenProbe \/ OpenEvent
  BY <1>1, TruthOpened, Zenon DEF OpenProbe, OpenEvent
<1>2. CASE OpenRaw
  <2>1. At("open") /\ UNCHANGED funcs_
    BY <1>2, Zenon DEF OpenRaw
  <2>2. CASE HasFree /\ Open(Perf(call.event, fd[call.prog].of)) /\ RecordProbe(<<Lowest>>)
    <3>1. call.op = "attach" /\ call.at = "open" /\ call.func \in Funcs
      BY <2>1, Zenon DEF Shape, CallShape, CallControl, At
    <3>2. fd[call.prog].of = call.func
      BY <3>1, Zenon DEF Truth, HoldsItsOwn, FuncsTrue
    <3>3. <<Lowest>> \in Seq(Fds) /\ Numbers(<<Lowest>>) = {Lowest}
      BY <2>2, LowestIsFree, NumbersFacts
    <3>4. \A n \in Numbers(<<Lowest>>) : fd'[n] = Perf(call.event, call.func)
      BY <2>2, <3>2, <3>3, OpenEffect, Zenon DEF Shape
    <3>5. \A n \in Fds : fd[n].what \in {"prog", "perf"} => fd'[n] = fd[n]
      BY <2>2, OpenDisturbsNothing, Zenon
    <3>6. FuncsTrue'
      BY <2>1, <3>5, FuncsKept, Zenon DEF Truth
    <3> QED BY <2>1, <2>2, <3>1, <3>3, <3>4, <3>5, <3>6, TruthRecord, Zenon
  <2>3. CASE NotOpened /\ UNCHANGED probes
    BY <2>1, <2>3, TruthOpened, Zenon
  <2> QED BY <1>2, <2>2, <2>3, Zenon DEF OpenRaw
<1> QED BY <1>1, <1>2, Zenon

\* Setting the program of an event, or failing to.
LEMMA TruthSet == ASSUME Shape, Truth, SetBpf \/ AttachFailed PROVE Truth'
<1>1. /\ call.op = "attach" /\ call.got \in Seq(Fds) /\ call.func \in Funcs
      /\ UNCHANGED funcs_ /\ probes[call.event] = NoProbe
  BY Zenon DEF Shape, CallShape, CallFields, CallControl, At, SetBpf, AttachFailed
<1>2. ASSUME At("set_bpf")
      PROVE  /\ call.pfd \in Fds /\ fd[call.pfd].what = "perf" /\ call.at = "set_bpf"
             /\ fd[call.pfd].of = call.event /\ call.pfd \notin Numbers(call.got)
             /\ fd[call.prog].of = call.func
  BY <1>1, <1>2 DEF Shape, CallShape, CallControl, At, Truth, HoldsItsOwn, FuncsTrue
<1>3. call.at \in {"set_bpf", "failed"} =>
        \A n \in Numbers(call.got) : fd[n] = Perf(call.event, call.func) /\ n \in Fds
  BY <1>1, NumbersFacts, Zenon DEF Truth, HoldsItsOwn, Opening
<1>4. CASE /\ fd' = [fd EXCEPT ![call.pfd] = Perf(call.event, fd[call.prog].of)]
           /\ RecordProbe(Append(call.got, call.pfd)) /\ At("set_bpf")
  <2>1. /\ fd'[call.pfd] = Perf(call.event, call.func)
        /\ \A n \in Fds \ {call.pfd} : fd'[n] = fd[n]
    BY <1>2, <1>4, Zenon DEF Shape, TableShape
  <2>2. /\ Append(call.got, call.pfd) \in Seq(Fds)
        /\ Numbers(Append(call.got, call.pfd)) = Numbers(call.got) \cup {call.pfd}
    BY <1>1, <1>2, <1>4, NumbersFacts
  <2>3. \A n \in Numbers(Append(call.got, call.pfd)) : fd'[n] = Perf(call.event, call.func)
    BY <1>2, <1>3, <1>4, <2>1, <2>2, Zenon
  <2>4. FuncsTrue'
    BY <1>1, <1>2, <1>4, <2>1, FuncsKept, Zenon DEF Truth
  <2>5. \A n \in Fds : fd[n].what = "perf" /\ fd[n].of # call.event => fd'[n] = fd[n]
    BY <1>2, <1>4, <2>1, Zenon
  <2> QED BY <1>1, <1>2, <1>4, <2>2, <2>3, <2>4, <2>5, TruthRecord, Zenon
<1>5. ASSUME NEW ns \in SUBSET Fds, CloseAll(ns), UNCHANGED probes, call'.op = "attach",
             \A n \in ns : fd[n].what = "perf" /\ fd[n].of = call.event
      PROVE  FuncsTrue' /\ ProbesTrue' /\ FreedIsClosing'
  <2>1. \A n \in Fds \ ns : fd'[n] = fd[n]
    BY <1>5, CloseEffect, Zenon
  <2>2. FuncsTrue'
    BY <1>1, <1>5, <2>1, FuncsKept, Zenon DEF Truth
  <2>3. (\A e \in Events : ~Closing(e)) /\ FreedIsClosing'
    BY <1>1, <1>5, NotClosing, Zenon DEF Truth
  <2> QED BY <1>1, <1>5, <2>1, <2>2, <2>3, ProbesKept, Zenon DEF Truth
<1>6. CASE CloseAll({call.pfd}) /\ Step("failed") /\ UNCHANGED probes /\ At("set_bpf")
  <2>1. /\ call'.op = "attach" /\ call'.at = "failed" /\ call'.got = call.got
        /\ call'.event = call.event /\ call'.func = call.func
    BY <1>1, <1>6, StepFields, Zenon DEF Shape, CallShape
  <2>2. \A n \in Numbers(call.got) : fd'[n] = Perf(call.event, call.func)
    BY <1>2, <1>3, <1>6, CloseEffect
  <2>3. HoldsItsOwn'
    BY <2>1, <2>2, Zenon DEF HoldsItsOwn, Opening
  <2>4. {call.pfd} \in SUBSET Fds /\ \A n \in {call.pfd} : fd[n].what = "perf" /\ fd[n].of = call.event
    BY <1>2, <1>6, Zenon
  <2> QED BY <1>5, <1>6, <2>1, <2>3, <2>4, Zenon DEF Truth
<1>7. CASE CloseAll(Numbers(call.got)) /\ Step("unload") /\ UNCHANGED probes /\ At("failed")
  <2>1. call'.op = "attach" /\ call'.at = "unload"
    BY <1>1, <1>7, StepFields, Zenon DEF Shape, CallShape
  <2>2. /\ Numbers(call.got) \in SUBSET Fds
        /\ \A n \in Numbers(call.got) : fd[n].what = "perf" /\ fd[n].of = call.event
    BY <1>1, <1>3, <1>7, Kinds, NumbersFacts DEF At
  <2> QED BY <1>5, <1>7, <2>1, <2>2, Zenon DEF Truth, HoldsItsOwn, Opening
<1> QED BY <1>4, <1>6, <1>7, Zenon DEF SetBpf, AttachFailed, AfterSetBpf

\* The steps of a detach that does not fail: the entry is closing from the
\* close on, and its descriptors are its own until then.
LEMMA OwnDescriptors ==
  ASSUME Shape, Truth, At("close")
  PROVE  /\ ~probes[call.event].freed /\ call.event \in Events
         /\ call.op \in {"detach", "destroy"} /\ probes[call.event] # NoProbe
         /\ \A n \in Numbers(probes[call.event].fds) :
              n \in Fds /\ fd[n].what = "perf" /\ fd[n].of = call.event
<1>1. /\ call.op \in {"detach", "destroy"} /\ call.at = "close"
      /\ call.event \in Events /\ probes[call.event] # NoProbe
  BY Zenon DEF Shape, CallShape, CallControl, Active, At
<1>2. ~Closing(call.event)
  BY <1>1, Zenon DEF Closing
<1>3. ~probes[call.event].freed
  BY <1>1, <1>2, Zenon DEF Truth, FreedIsClosing
<1>4. \A n \in Numbers(probes[call.event].fds) :
        n \in Fds /\ fd[n] = Perf(call.event, probes[call.event].func)
  BY <1>1, <1>2, FdsInTable, Zenon DEF Truth, ProbesTrue
<1> QED BY <1>1, <1>3, <1>4, Kinds

\* Closing the descriptors of a probe that is being detached.
LEMMA TruthClose ==
  ASSUME Shape, Truth, CloseProbe \/ CloseFreed, ~DetachFailed'
  PROVE  Truth'
<1>1. At("close")
  BY Zenon DEF CloseProbe, CloseFreed
<1>2. CloseProbe
  BY <1>1, OwnDescriptors, Zenon DEF CloseFreed
<1> DEFINE ns == Numbers(probes[call.event].fds)
<1>3. /\ CloseAll(ns) /\ UNCHANGED funcs_
      /\ probes' = [probes EXCEPT ![call.event].freed = call.event \in PerfEvents]
  BY <1>2, Zenon DEF CloseProbe
<1>4. ~Error
  BY <1>1, OwnDescriptors, ErrorFacts, Zenon DEF DetachFailed
<1>5. \E bad : call' = [call EXCEPT !.at = "unload", !.failed = bad]
  BY <1>2, <1>4, Zenon DEF CloseProbe
<1>6. /\ call'.op = call.op /\ call'.event = call.event /\ call'.left = call.left
      /\ call'.at = "unload"
  BY <1>5, Zenon DEF Shape, CallShape, CallFields
<1>7. call.event \in Events /\ call.op \in {"detach", "destroy"} /\ call.event \notin call.left
  BY <1>1, Zenon DEF Shape, CallShape, CallControl, Active, At
<1>8. Closing(call.event)' /\ \A e \in Events : Closing(e) => Closing(e)'
  BY <1>1, <1>6, <1>7, Zenon DEF Closing, At
<1>9. \A e \in Events \ {call.event} : probes'[e] = probes[e]
  BY <1>3, <1>7, Zenon DEF Shape
<1>10. \A n \in Fds : n \notin ns => fd'[n] = fd[n]
  BY <1>3, CloseEffect, Zenon
<1>11. FuncsTrue'
  BY <1>1, <1>3, <1>10, OwnDescriptors, FuncsKept, Zenon DEF Truth
<1>12. ASSUME NEW e \in Events, ~Closing(e)' PROVE e # call.event
  BY <1>6, <1>7, <1>12, Zenon DEF Closing
<1>13. ProbesTrue'
  BY <1>1, <1>8, <1>9, <1>10, <1>12, OwnDescriptors, ProbesKept, Zenon DEF Truth
<1>14. FreedIsClosing'
  BY <1>8, <1>9, <1>12, Zenon DEF Truth, FreedIsClosing
<1> QED BY <1>6, <1>7, <1>11, <1>13, <1>14, Zenon DEF Truth, HoldsItsOwn, Opening

\* Closing a program that nothing refers to any more.
LEMMA TruthUnload ==
  ASSUME Shape, Truth, unload_func, ~DetachFailed'
  PROVE  Truth'
<1>1. /\ call.at = "unload" /\ call.op \in {"unload", "attach", "detach", "destroy"}
      /\ call.func \in Funcs /\ UNCHANGED probes
  BY Zenon DEF Shape, CallShape, CallControl, Active, At, unload_func, Unloaded
<1>2. \/ call.op \in {"unload", "attach"} /\ call'.op = "none"
      \/ /\ call.op \in {"detach", "destroy"} /\ call'.op = call.op
         /\ call'.event = call.event /\ call'.left = call.left /\ call'.at # "close"
  <2>1. CASE call.op \in {"unload", "attach"}
    <3>1. Return
      BY <2>1, Zenon DEF unload_func, Unloaded, Error
    <3> QED BY <2>1, <3>1, ReturnFields, Zenon
  <2>2. CASE call.op \in {"detach", "destroy"}
    <3>1. ~Error
      BY <2>2, ErrorFacts, Zenon DEF DetachFailed
    <3>2. Step("tracefs") \/ Step("erase")
      BY <2>2, <3>1, Zenon DEF unload_func, Unloaded
    <3> QED BY <2>2, <3>2, StepFields DEF Shape, CallShape
  <2> QED BY <1>1, <2>1, <2>2, Zenon
<1>3. \A e \in Events : Closing(e) <=> Closing(e)'
  BY <1>1, <1>2, Zenon DEF Closing
<1>4. HoldsItsOwn'
  BY <1>2, Zenon DEF HoldsItsOwn, Opening
<1>5. FreedIsClosing'
  BY <1>1, <1>3, Zenon DEF Truth, FreedIsClosing
<1>6. CASE UNCHANGED <<fd, funcs_>>
  BY <1>1, <1>3, <1>4, <1>5, <1>6, FuncsKept, ProbesKept, Zenon DEF Truth
<1>7. CASE funcs_[call.func] # 0 /\ CloseAll({funcs_[call.func]}) /\ EraseFunc
  <2>1. fd[funcs_[call.func]].what = "prog" /\ fd[funcs_[call.func]].of = call.func
    BY <1>1, <1>7, Zenon DEF Truth, FuncsTrue
  <2>2. \A n \in Fds \ {funcs_[call.func]} : fd'[n] = fd[n]
    BY <1>7, CloseEffect, Zenon
  <2>3. ProbesTrue'
    BY <1>1, <1>3, <2>1, <2>2, ProbesKept, Zenon DEF Truth
  <2>4. /\ funcs_'[call.func] = 0
        /\ \A f \in Funcs \ {call.func} : funcs_'[f] = funcs_[f]
    BY <1>1, <1>7, Zenon DEF Shape, TableShape, EraseFunc
  <2>5. \A f \in Funcs : funcs_[f] # 0 => funcs_[f] \in Fds
    BY ProbesAssumption DEF Shape, TableShape, Fds
  <2>6. FuncsTrue'
    BY <2>1, <2>2, <2>4, <2>5 DEF Truth, FuncsTrue
  <2> QED BY <1>4, <1>5, <2>3, <2>6, Zenon DEF Truth
<1> QED BY <1>6, <1>7, Zenon DEF unload_func

\* Removing a probe from tracefs and from the maps.
LEMMA TruthErase ==
  ASSUME Shape, Truth, bpf_detach_probe \/ Erase \/ DestroyFuncs, ~DetachFailed'
  PROVE  Truth'
<1>1. /\ call.op \in {"detach", "destroy"} /\ call.at \in {"tracefs", "erase", "next"}
      /\ call.at # "next" => call.event \in Events /\ call.event \notin call.left
  BY Zenon DEF Shape, CallShape, CallControl, Active, At, bpf_detach_probe, Erase, DestroyFuncs
<1>2. ASSUME UNCHANGED <<fd, funcs_, probes>>, NEW l \in {"erase", "next"}, Step(l),
             call.at # "next"
      PROVE  Truth'
  <2>1. /\ call'.op = call.op /\ call'.event = call.event /\ call'.left = call.left
        /\ call'.at = l
    BY <1>2, StepFields, Zenon DEF Shape, CallShape
  <2>2. \A e \in Events : Closing(e) <=> Closing(e)'
    BY <1>1, <1>2, <2>1, Zenon DEF Closing
  <2>3. FreedIsClosing' /\ HoldsItsOwn'
    BY <1>1, <1>2, <2>1, <2>2, Zenon DEF Truth, FreedIsClosing, HoldsItsOwn, Opening
  <2> QED BY <1>2, <2>2, <2>3, FuncsKept, ProbesKept, Zenon DEF Truth
<1>3. CASE bpf_detach_probe
  <2>1. ~Error
    BY <1>1, ErrorFacts, Zenon DEF DetachFailed
  <2> QED BY <1>2, <1>3, <2>1, Zenon DEF bpf_detach_probe, At
<1>4. CASE Erase
  <2>1. CASE call.op = "destroy"
    BY <1>2, <1>4, <2>1, Zenon DEF Erase, At
  <2>2. CASE call.op = "detach"
    <3>1. /\ Return /\ probes' = [probes EXCEPT ![call.event] = NoProbe]
          /\ UNCHANGED <<fd, funcs_>> /\ call.at = "erase"
      BY <1>4, <2>2, Zenon DEF Erase, At
    <3>2. /\ probes'[call.event] = NoProbe
          /\ \A e \in Events \ {call.event} : probes'[e] = probes[e]
      BY <1>1, <3>1, Zenon DEF Shape
    <3>3. call'.op = "none" /\ \A e \in Events : Closing(e) => e = call.event
      BY <2>2, <3>1, ReturnFields, Zenon DEF Closing
    <3>4. ProbesTrue'
      BY <3>1, <3>2, <3>3, ProbesKept, Zenon DEF Truth
    <3>5. FreedIsClosing'
      BY <3>2, <3>3, NoProbeFacts, Zenon DEF Truth, FreedIsClosing
    <3> QED BY <3>1, <3>3, <3>4, <3>5, FuncsKept, Zenon DEF Truth, HoldsItsOwn, Opening
  <2> QED BY <1>1, <2>1, <2>2, Zenon
<1>5. CASE DestroyFuncs
  <2>1. /\ funcs_' = [f \in Funcs |-> 0] /\ probes' = [e \in Events |-> NoProbe]
        /\ call'.op = "none"
    BY <1>5, ReturnFields, Zenon DEF DestroyFuncs
  <2> QED BY <2>1, NoProbeFacts, Zenon
          DEF Truth, FuncsTrue, ProbesTrue, FreedIsClosing, HoldsItsOwn, Opening
<1> QED BY <1>3, <1>4, <1>5, Zenon

\* The rest of the process opens and closes its own files only.
LEMMA TruthEnvironment == ASSUME Shape, Truth, Environment PROVE Truth'
<1>1. UNCHANGED <<funcs_, probes, call>>
  BY Zenon DEF Environment, OpenFile, CloseFile, OtherProcess
<1>2. \A n \in Fds : fd[n].what \in {"prog", "perf"} => fd'[n] = fd[n]
  <2>1. CASE OpenFile
    BY <2>1, OpenDisturbsNothing, Zenon DEF OpenFile
  <2>2. ASSUME NEW m \in Fds, CloseFile(m)
        PROVE  \A n \in Fds : fd[n].what \in {"prog", "perf"} => fd'[n] = fd[n]
    BY <2>2, CloseEffect, Kinds DEF CloseFile
  <2>3. CASE UNCHANGED fd
    BY <2>3, Zenon
  <2> QED BY <2>1, <2>2, <2>3, Zenon DEF Environment, OtherProcess
<1>3. FreedIsClosing' /\ \A e \in Events : Closing(e) <=> Closing(e)'
  BY <1>1, Zenon DEF Truth, FreedIsClosing, Closing
<1>4. FuncsTrue' /\ ProbesTrue'
  BY <1>1, <1>2, <1>3, FuncsKept, ProbesKept, Zenon DEF Truth
<1>5. call.got \in Seq(Fds) /\ (call.op = "attach" /\ call.at = "set_bpf" => call.pfd \in Fds)
  BY Zenon DEF Shape, CallShape, CallFields, CallControl
<1>6. HoldsItsOwn'
  <2>1. Opening => \A n \in Numbers(call.got) : fd'[n] = Perf(call.event, call.func)
    BY <1>2, <1>5, NumbersFacts, Kinds DEF Truth, HoldsItsOwn
  <2> QED BY <1>1, <1>2, <1>5, <2>1, Zenon DEF Truth, HoldsItsOwn, Opening
<1> QED BY <1>3, <1>4, <1>6, Zenon DEF Truth

\* Every step keeps the maps true, as long as no detach has failed.
LEMMA TruthNext ==
  Shape /\ (~DetachFailed => Truth) /\ [Next]_vars => (~DetachFailed => Truth)'
<1> SUFFICES ASSUME Shape, ~DetachFailed => Truth, [Next]_vars, ~DetachFailed'
             PROVE  Truth'
  BY Zenon
<1>1. errors \subseteq errors'
  BY FailFacts, Zenon DEF Next, vars, Library, Environment, attach, UserLoad, UserUnload, detach,
     DestroyNext, load_func, OpenProbe, OpenEvent, OpenRaw, SetBpf, AttachFailed, CloseProbe,
     CloseFreed, unload_func, Unloaded, bpf_detach_probe, Erase, Destroy, DestroyFuncs, Error,
     OpenFile, CloseFile, OtherProcess
<1>2. Truth
  BY <1>1, Zenon DEF DetachFailed
<1>3. CASE UNCHANGED vars
  BY <1>2, <1>3, Zenon DEF vars, Truth, FuncsTrue, ProbesTrue, HoldsItsOwn, FreedIsClosing,
     Closing, Opening
<1>4. CASE Environment
  BY <1>2, <1>4, TruthEnvironment, Zenon
<1>5. CASE Library
  BY <1>2, <1>5, TruthBegin, TruthLoad, TruthOpen, TruthSet, TruthClose, TruthUnload,
     TruthErase, Zenon DEF Library, Begin
<1> QED BY <1>3, <1>4, <1>5, Zenon DEF Next

\* The maps are empty at first.
LEMMA TruthInit == Init => Shape /\ (~DetachFailed => Truth)
<1> SUFFICES ASSUME Init PROVE Truth
  BY ShapeInit, Zenon
<1>1. /\ funcs_ = [f \in Funcs |-> 0] /\ probes = [e \in Events |-> NoProbe]
      /\ call.op = "none"
  BY Zenon DEF Init, Idle, Call
<1> QED BY <1>1, NoProbeFacts, Zenon
        DEF Truth, FuncsTrue, ProbesTrue, FreedIsClosing, HoldsItsOwn, Opening

\* Until a detach returns an error, every number in funcs_ is that function's
\* program and every number in an open_probe_t is that event's, running that
\* function, whatever else the process opens and closes meanwhile.
THEOREM MapsAreTrueHolds == Spec => []MapsAreTrue
<1>1. Shape /\ (~DetachFailed => Truth) /\ [Next]_vars => (Shape /\ (~DetachFailed => Truth))'
  BY ShapeNext, TruthNext, Zenon
<1>2. (~DetachFailed => Truth) => MapsAreTrue
  BY Zenon DEF Truth, FuncsTrue, ProbesTrue, MapsAreTrue
<1> QED BY <1>1, <1>2, TruthInit, PTL DEF Spec

\* Until a detach returns an error, a call closes only descriptors of the event
\* and the function it is about: no step of the library closes another's.
THEOREM ClosesOnlyItsOwnHolds == Spec => ClosesOnlyItsOwn
<1> DEFINE Own(n) == \/ fd[n].what = "perf" /\ fd[n].of = call.event
                     \/ fd[n].what = "prog" /\ (fd[n].of = call.func \/ At("next"))
           Step1 == Library /\ ~DetachFailed =>
                      \A n \in Fds : fd[n] # Closed /\ fd'[n] = Closed => Own(n)
<1>1. ASSUME Shape, ~DetachFailed => Truth, [Next]_vars PROVE [Step1]_vars
  <2> SUFFICES ASSUME Library, ~DetachFailed, NEW n \in Fds, fd[n] # Closed, fd'[n] = Closed
               PROVE  Own(n)
    BY Zenon DEF Library, Begin
  <2>1. Truth
    BY <1>1, Zenon
  <2>2. \A o : HasFree /\ Open(o) => fd'[n] = fd[n] \/ n = Lowest
    BY <1>1, OpenEffect, Zenon DEF Shape
  <2>3. \A o : ~(HasFree /\ Open(o))
    BY <2>2, LowestIsFree, Zenon
  <2>4. CASE Begin \/ bpf_detach_probe \/ Erase
    BY <2>4, Zenon DEF Begin, attach, UserLoad, UserUnload, detach, Destroy, DestroyNext,
       bpf_detach_probe, Erase
  <2>5. CASE load_func \/ OpenProbe \/ OpenEvent \/ OpenRaw
    BY <2>3, <2>5, Zenon DEF load_func, OpenProbe, OpenEvent, OpenRaw, Opened, NotOpened
  <2>6. CASE SetBpf
    <3>1. /\ call.op = "attach" /\ call.pfd \in Fds
          /\ fd[call.pfd].what = "perf" /\ fd[call.pfd].of = call.event
      BY <1>1, <2>1, <2>6, Zenon DEF Shape, CallShape, CallControl, SetBpf, At, Truth, HoldsItsOwn
    <3>2. CASE fd' = [fd EXCEPT ![call.pfd] = Perf(call.event, fd[call.prog].of)]
      BY <1>1, <3>1, <3>2, Zenon DEF Shape, TableShape
    <3>3. CASE CloseAll({call.pfd})
      BY <3>1, <3>3, CloseEffect, Zenon
    <3> QED BY <2>6, <3>2, <3>3, Zenon DEF SetBpf, AfterSetBpf
  <2>7. CASE AttachFailed
    <3>1. Opening
      BY <1>1, <2>7, Zenon DEF Shape, CallShape, CallControl, AttachFailed, At, Opening
    <3>2. n \in Numbers(call.got)
      BY <2>7, CloseEffect, Zenon DEF AttachFailed
    <3> QED BY <2>1, <3>1, <3>2, Kinds DEF Truth, HoldsItsOwn
  <2>8. CASE CloseProbe \/ CloseFreed
    <3>1. At("close") /\ CloseProbe
      BY <1>1, <2>1, <2>8, OwnDescriptors, Zenon DEF CloseProbe, CloseFreed
    <3>2. n \in Numbers(probes[call.event].fds)
      BY <3>1, CloseEffect, Zenon DEF CloseProbe
    <3> QED BY <1>1, <2>1, <3>1, <3>2, OwnDescriptors, Zenon
  <2>9. CASE unload_func
    <3>1. call.func \in Funcs /\ funcs_[call.func] # 0 /\ n = funcs_[call.func]
      BY <1>1, <2>9, CloseEffect DEF Shape, CallShape, CallControl, Active, At, unload_func
    <3> QED BY <2>1, <3>1, Zenon DEF Truth, FuncsTrue
  <2>10. CASE DestroyFuncs
    <3>1. At("next") /\ n \in {funcs_[f] : f \in Funcs} /\ n # 0
      BY <2>10, CloseEffect DEF DestroyFuncs, Fds
    <3> QED BY <2>1, <3>1 DEF Truth, FuncsTrue
  <2> QED BY <2>4, <2>5, <2>6, <2>7, <2>8, <2>9, <2>10, Zenon DEF Library, Begin
<1>2. Shape /\ (~DetachFailed => Truth) /\ [Next]_vars => (Shape /\ (~DetachFailed => Truth))'
  BY ShapeNext, TruthNext, Zenon
<1> QED BY <1>1, <1>2, TruthInit, PTL DEF Spec, ClosesOnlyItsOwn
=============================================================================
