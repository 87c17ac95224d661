-------------------------- MODULE PyProbes_proofs ---------------------------
(***************************************************************************)
(* What cleanup of a Python BPF object leaves open and what the quota      *)
(* counts, for every set of objects, events, functions and CPUs, every     *)
(* quota and number of faults.                                             *)
(***************************************************************************)
EXTENDS PyProbes, FiniteSetTheorems, WellFoundedInduction, TLAPS

\* The calls in progress; an attach is never of an object that is cleaned up.
CallShape ==
  /\ call.op \in {"none", "attach", "detach", "cleanup"}
  /\ In("attach") =>
       /\ call = [op |-> "attach", b |-> call.b, fn |-> call.fn, left |-> call.left]
       /\ call.b \in Bs \ closed
  /\ In("detach") => /\ call = [op |-> "detach", b |-> call.b, left |-> call.left]
                     /\ call.b \in Bs
  /\ In("cleanup") => call.b \in Bs

\* The dictionaries of an object that is cleaned up are empty.
FdsShape == /\ fds = [b \in Bs |-> fds[b]]
            /\ \A b \in Bs \cap closed : DOMAIN fds[b] = {}

\* An open event is in a dictionary of its object, or is leaked.
Filed(e) == e[1] \in Bs /\ \E k \in DOMAIN fds[e[1]] : e \in fds[e[1]][k]
AllFiled == \A e \in open \ leaked : Filed(e)

RInv == CallShape /\ FdsShape /\ AllFiled

USE DEF In

\* The first state.
LEMMA RInvInit == Init => RInv
BY DEF Init, RInv, CallShape, FdsShape, AllFiled, Idle

\* A call begins: nothing is opened, closed or recorded.
LEMMA CallBegins ==
  ASSUME RInv, NEW b \in Bs,
         \/ \E evs \in Requests, fn \in Fns : attach(b, evs, fn)
         \/ \E ks : detach(b, ks)
         \/ cleanup(b)
  PROVE  RInv'
<1>1. UNCHANGED <<fds, open, leaked, closed>>
  BY Zenon DEF attach, detach, cleanup
<1>2. FdsShape' /\ AllFiled'
  BY <1>1, Zenon DEF RInv, FdsShape, AllFiled, Filed
<1>3. CASE \E evs \in Requests, fn \in Fns : attach(b, evs, fn)
  BY <1>1, <1>2, <1>3 DEF RInv, CallShape, attach
<1>4. CASE \E ks : detach(b, ks)
  BY <1>1, <1>2, <1>4 DEF RInv, CallShape, detach
<1>5. CASE cleanup(b)
  BY <1>1, <1>2, <1>5, Zenon DEF RInv, CallShape, cleanup
<1> QED BY <1>3, <1>4, <1>5, Zenon

\* The record of a key is made: what it held before is leaked.
LEMMA AttachedFiles ==
  ASSUME RInv, In("attach"), NEW ev \in call.left, Attached(ev)
  PROVE  RInv'
<1> DEFINE b == call.b
           k == Key(ev, call.fn)
           new == NewEvents(b, ev, call.fn, CpusOf(ev))
<1>1. b \in Bs \ closed
  BY Zenon DEF RInv, CallShape
<1>2. /\ open' = open \cup new /\ closed' = closed
      /\ leaked' = leaked \cup (IF k \in DOMAIN fds[b] THEN fds[b][k] ELSE {})
      /\ fds' = [fds EXCEPT ![b] = Put(fds[b], k, new)]
  BY Zenon DEF Attached
<1>3. CallShape'
  <2>1. call' = Idle \/ call' = [call EXCEPT !.left = @ \ {ev}]
    BY Zenon DEF Attached
  <2>2. CASE call' = Idle
    BY <2>2, Zenon DEF CallShape, Idle
  <2>3. CASE call' = [call EXCEPT !.left = @ \ {ev}]
    BY <1>1, <1>2, <2>3, Zenon DEF RInv, CallShape
  <2> QED BY <2>1, <2>2, <2>3, Zenon
<1>4. FdsShape'
  BY <1>1, <1>2, Zenon DEF RInv, FdsShape
<1>5. /\ fds'[b] = Put(fds[b], k, new)
      /\ \A c \in Bs \ {b} : fds'[c] = fds[c]
  BY <1>1, <1>2, Zenon DEF RInv, FdsShape
<1>6. /\ DOMAIN fds'[b] = DOMAIN fds[b] \cup {k} /\ fds'[b][k] = new
      /\ \A x \in DOMAIN fds[b] \ {k} : fds'[b][x] = fds[b][x]
  BY <1>5, Zenon DEF Put
<1>7. AllFiled'
  <2> SUFFICES ASSUME NEW e \in open' \ leaked' PROVE Filed(e)'
    BY Zenon DEF AllFiled
  <2>1. CASE e \in new
    <3>1. e[1] = b
      BY <2>1 DEF NewEvents
    <3> QED BY <1>1, <1>6, <2>1, <3>1 DEF Filed
  <2>2. CASE e \notin new
    <3>1. e \in open \ leaked
      BY <1>2, <2>2, Zenon
    <3>2. PICK x \in DOMAIN fds[e[1]] : e \in fds[e[1]][x]
      BY <3>1, Zenon DEF RInv, AllFiled, Filed
    <3>3. e[1] \in Bs
      BY <3>1, Zenon DEF RInv, AllFiled, Filed
    <3>4. CASE e[1] # b
      BY <1>5, <3>2, <3>3, <3>4, Zenon DEF Filed
    <3>5. CASE e[1] = b
      <4>1. x # k
        BY <1>2, <3>2, <3>5, Zenon
      <4> QED BY <1>6, <3>2, <3>3, <3>5, <4>1, Zenon DEF Filed
    <3> QED BY <3>4, <3>5, Zenon
  <2> QED BY <2>1, <2>2, Zenon
<1> QED BY <1>3, <1>4, <1>7, Zenon DEF RInv

\* A failing attach records nothing; what it opened is leaked.
LEMMA NotAttachedFiles ==
  ASSUME RInv, In("attach"), NEW ev \in call.left, NotAttached(ev)
  PROVE  RInv'
<1>1. UNCHANGED <<fds, closed>>
  BY Zenon DEF NotAttached
<1>2. open' \ leaked' \subseteq open \ leaked
  BY Zenon DEF NotAttached
<1>3. CallShape'
  <2>1. call' = Idle \/ call' = [call EXCEPT !.left = @ \ {ev}]
    BY Zenon DEF NotAttached
  <2>2. CASE call' = Idle
    BY <2>2, Zenon DEF CallShape, Idle
  <2>3. CASE call' = [call EXCEPT !.left = @ \ {ev}]
    BY <1>1, <2>3, Zenon DEF RInv, CallShape
  <2> QED BY <2>1, <2>2, <2>3, Zenon
<1>4. FdsShape' /\ AllFiled'
  BY <1>1, <1>2, Zenon DEF RInv, FdsShape, AllFiled, Filed
<1> QED BY <1>3, <1>4, Zenon DEF RInv

\* Closing the events of a key and, perhaps, forgetting the key.
LEMMA ClosedFiles ==
  ASSUME FdsShape, AllFiled, NEW b \in Bs, NEW k \in DOMAIN fds[b],
         open' = open \ fds[b][k], UNCHANGED <<leaked, closed>>,
         fds' = fds \/ fds' = [fds EXCEPT ![b] = Drop(fds[b], k)]
  PROVE  FdsShape' /\ AllFiled'
<1>1. CASE fds' = fds
  BY <1>1, Zenon DEF FdsShape, AllFiled, Filed
<1>2. CASE fds' = [fds EXCEPT ![b] = Drop(fds[b], k)]
  <2>1. /\ fds'[b] = Drop(fds[b], k)
        /\ \A c \in Bs \ {b} : fds'[c] = fds[c]
    BY <1>2, Zenon DEF FdsShape
  <2>2. /\ DOMAIN fds'[b] = DOMAIN fds[b] \ {k}
        /\ \A x \in DOMAIN fds[b] \ {k} : fds'[b][x] = fds[b][x]
    BY <2>1, Zenon DEF Drop
  <2>3. FdsShape'
    <3>1. fds' = [c \in Bs |-> fds'[c]]
      BY <1>2, Zenon DEF FdsShape
    <3>2. \A c \in Bs \cap closed : DOMAIN fds'[c] = {}
      BY <2>1, <2>2, Zenon DEF FdsShape
    <3> QED BY <3>1, <3>2, Zenon DEF FdsShape
  <2>4. AllFiled'
    <3> SUFFICES ASSUME NEW e \in open' \ leaked' PROVE Filed(e)'
      BY Zenon DEF AllFiled
    <3>1. e \in open \ leaked /\ e \notin fds[b][k]
      BY Zenon
    <3>2. PICK x \in DOMAIN fds[e[1]] : e \in fds[e[1]][x]
      BY <3>1, Zenon DEF AllFiled, Filed
    <3>3. e[1] \in Bs
      BY <3>1, Zenon DEF AllFiled, Filed
    <3>4. CASE e[1] # b
      BY <2>1, <3>2, <3>3, <3>4, Zenon DEF Filed
    <3>5. CASE e[1] = b
      BY <2>2, <3>1, <3>2, <3>3, <3>5, Zenon DEF Filed
    <3> QED BY <3>4, <3>5, Zenon
  <2> QED BY <2>3, <2>4, Zenon
<1> QED BY <1>1, <1>2, Zenon

\* One key of a detach or of cleanup, whether or not it succeeds.
LEMMA DetachFiles ==
  ASSUME RInv, call.op \in {"detach", "cleanup"}, NEW k \in DOMAIN fds[call.b],
         Detached(k) \/ NotDetached(k)
  PROVE  RInv'
<1> DEFINE b == call.b
<1>1. b \in Bs
  BY Zenon DEF RInv, CallShape
<1>2. /\ open' = open \ fds[b][k] /\ UNCHANGED <<leaked, closed>>
      /\ fds' = fds \/ fds' = [fds EXCEPT ![b] = Drop(fds[b], k)]
  BY Zenon DEF Detached, NotDetached, Close, Forget
<1>3. FdsShape' /\ AllFiled'
  BY <1>1, <1>2, ClosedFiles, Zenon DEF RInv
<1>4. CallShape'
  <2>1. \/ call' = Idle \/ call' = call
        \/ In("detach") /\ call' = [call EXCEPT !.left = @ \ {k}]
    BY Zenon DEF Detached, NotDetached, GoOn
  <2>2. CASE call' = Idle
    BY <2>2, Zenon DEF CallShape, Idle
  <2>3. CASE call' = call
    BY <1>2, <2>3, Zenon DEF RInv, CallShape
  <2>4. CASE In("detach") /\ call' = [call EXCEPT !.left = @ \ {k}]
    BY <1>1, <2>4, Zenon DEF RInv, CallShape
  <2> QED BY <2>1, <2>2, <2>3, <2>4, Zenon
<1> QED BY <1>3, <1>4, Zenon DEF RInv

\* The end of cleanup: the dictionaries are empty.
LEMMA CleanupFiles ==
  ASSUME RInv, CleanupDone
  PROVE  RInv'
<1>1. closed' = closed \cup {call.b} /\ UNCHANGED <<fds, open, leaked>> /\ call' = Idle
  BY Zenon DEF CleanupDone
<1>2. FdsShape' /\ AllFiled'
  BY <1>1, Zenon DEF RInv, FdsShape, AllFiled, Filed, CleanupDone
<1>3. CallShape'
  BY <1>1, Zenon DEF CallShape, Idle
<1> QED BY <1>2, <1>3, Zenon DEF RInv

\* A detach in progress asks only for keys it has: a key of the rest of a detach is
\* still there, since the keys of a call are distinct and only their own step drops
\* them.
KeysStay == In("detach") => call.left \subseteq DOMAIN fds[call.b]

\* Every step keeps the keys that a detach still has to visit.
LEMMA KeysStayNext ==
  ASSUME RInv, KeysStay, [Next]_vars
  PROVE  KeysStay'
<1> SUFFICES ASSUME In("detach")' PROVE (call.left \subseteq DOMAIN fds[call.b])'
  BY Zenon DEF KeysStay
<1>1. CASE UNCHANGED vars
  BY <1>1, Zenon DEF KeysStay, vars
<1>2. ASSUME NEW b \in Bs, NEW ks, detach(b, ks), ks \subseteq DOMAIN fds[b]
      PROVE  (call.left \subseteq DOMAIN fds[call.b])'
  BY <1>2, Zenon DEF detach
<1>3. ASSUME In("detach"), NEW k \in call.left, Detached(k)
      PROVE  (call.left \subseteq DOMAIN fds[call.b])'
  <2>1. fds' = [fds EXCEPT ![call.b] = Drop(fds[call.b], k)]
    BY <1>3, Zenon DEF Detached, Forget
  <2>2. call' = [call EXCEPT !.left = @ \ {k}]
    BY <1>3, Zenon DEF Detached, GoOn, Idle
  <2>3. call'.b = call.b /\ call'.left = call.left \ {k}
    BY <1>3, <2>2, Zenon DEF RInv, CallShape
  <2>4. fds'[call.b] = Drop(fds[call.b], k)
    BY <1>3, <2>1, Zenon DEF RInv, CallShape, FdsShape
  <2>5. DOMAIN fds'[call.b] = DOMAIN fds[call.b] \ {k}
    BY <2>4, Zenon DEF Drop
  <2> QED BY <1>3, <2>3, <2>5, Zenon DEF KeysStay
<1>4. ASSUME NEW k, NotDetached(k)
      PROVE  FALSE
  BY <1>4, Zenon DEF NotDetached, Idle
<1>5. ASSUME In("cleanup"), NEW k, Detached(k)
      PROVE  FALSE
  BY <1>5, Zenon DEF Detached, GoOn
<1>6. ASSUME In("attach"), NEW ev, Attached(ev) \/ NotAttached(ev)
      PROVE  FALSE
  <2>1. call' = Idle \/ call' = [call EXCEPT !.left = @ \ {ev}]
    BY <1>6, Zenon DEF Attached, NotAttached
  <2>2. call'.op # "detach"
    BY <1>6, <2>1 DEF RInv, CallShape, Idle
  <2> QED BY <2>2, Zenon
<1>7. CASE CleanupDone
  BY <1>7, Zenon DEF CleanupDone, Idle
<1>8. ASSUME NEW b \in Bs, NEW evs, NEW fn, attach(b, evs, fn) \/ cleanup(b)
      PROVE  FALSE
  BY <1>8 DEF attach, cleanup
<1>9. \A b : \A ev : KeysOf(b, ev) \subseteq DOMAIN fds[b]
  BY Zenon DEF KeysOf
<1> QED BY <1>1, <1>2, <1>3, <1>4, <1>5, <1>6, <1>7, <1>8, <1>9, Zenon DEF Next, Left

\* Every step keeps the invariant of the open descriptors.
LEMMA RInvNext ==
  ASSUME RInv, KeysStay, [Next]_vars
  PROVE  RInv'
<1>1. CASE UNCHANGED vars
  BY <1>1, Zenon DEF RInv, CallShape, FdsShape, AllFiled, Filed, vars
<1>2. CASE \E b \in Bs :
             \/ \E evs \in Requests, fn \in Fns : attach(b, evs, fn)
             \/ \E ks : detach(b, ks)
             \/ cleanup(b)
  BY <1>2, CallBegins, Zenon
<1>3. CASE In("attach") /\ \E ev \in call.left : Attached(ev) \/ NotAttached(ev)
  BY <1>3, AttachedFiles, NotAttachedFiles, Zenon
<1>4. CASE call.op \in {"detach", "cleanup"}
           /\ \E k \in Left : Detached(k) \/ NotDetached(k)
  <2>1. Left \subseteq DOMAIN fds[call.b]
    BY <1>4, Zenon DEF Left, KeysStay
  <2> QED BY <1>4, <2>1, DetachFiles, Zenon
<1>5. CASE CleanupDone
  BY <1>5, CleanupFiles, Zenon
<1> QED BY <1>1, <1>2, <1>3, <1>4, <1>5, Zenon DEF Next

\* After cleanup of a Python BPF object nothing of it is open but events whose record
\* a second attach overwrote or a failed attach_perf_event never made, and before it
\* every other open event is in the dictionaries: for all objects, events,
\* functions and CPUs, and whichever calls fail.
THEOREM CleanupCloses == Spec => []OpenIsRecorded
<1>1. Init => RInv /\ KeysStay
  BY RInvInit DEF Init, KeysStay, Idle
<1>2. RInv /\ KeysStay /\ [Next]_vars => RInv' /\ KeysStay'
  BY RInvNext, KeysStayNext, Zenon
<1>3. RInv => OpenIsRecorded
  <2> SUFFICES ASSUME RInv PROVE OpenIsRecorded
    BY Zenon
  <2>1. \A e \in open \ leaked : e \in Recorded(e[1])
    BY Zenon DEF RInv, AllFiled, Filed, Recorded
  <2>2. \A e \in open : e[1] \in closed => e \in leaked
    BY Zenon DEF RInv, AllFiled, Filed, FdsShape
  <2> QED BY <2>1, <2>2, Zenon DEF OpenIsRecorded
<1> QED BY <1>1, <1>2, <1>3, PTL DEF Spec

-----------------------------------------------------------------------------
(* The quota.                                                               *)

Tuples == Bs \X Events \X Fns \X (Cpus \cup {0}) \X (1..MaxCopies)

\* An attach in progress is for events and a function of the program.
AttachShape == In("attach") => call.fn \in Fns /\ call.left \subseteq Events

\* What is recorded under a key was opened for it, and a kprobe or a uprobe has
\* one perf event.
Single(S) == \E e \in S : S = {e}
Recording(b, k, es) ==
  /\ es \subseteq Tuples
  /\ \A e \in es : e[1] = b /\ e[2] = k[1] /\ Key(e[2], e[3]) = k
  /\ Counted(k[1]) => Single(es)
Records == \A b \in Bs : \A k \in DOMAIN fds[b] : Recording(b, k, fds[b][k])

\* The count, and what it is a count of.
Counts == /\ open \subseteq Tuples /\ leaked \subseteq Tuples
          /\ IsFiniteSet(OpenCounted) /\ num_open \in Nat
          /\ QuotaIsExact

Bounds == faults \in 0..MaxFaults /\ undone \in BOOLEAN /\ closed \subseteq Bs

QInv == RInv /\ KeysStay /\ AttachShape /\ Records /\ Counts /\ Bounds

\* A non-empty set of naturals has a least element.
LEMMA Least ==
  ASSUME NEW T, T \subseteq Nat, T # {}
  PROVE  Min(T) \in T
<1> DEFINE R == OpToRel(<, Nat)
<1>1. IsWellFoundedOn(R, Nat)
  BY NatLessThanWellFounded, Zenon
<1> HIDE DEF R
<1>2. PICK x \in T : \A y \in T : ~ (<<y, x>> \in R)
  BY <1>1, WFMin, Zenon
<1>3. ASSUME NEW y \in T PROVE x <= y
  <2>1. ~ (<<y, x>> \in R)
    BY <1>2, Zenon
  <2>2. ~ (y < x)
    BY <2>1, Zenon DEF R, OpToRel
  <2> QED BY <2>2
<1> QED BY <1>3, Zenon DEF Min

\* The events an attach opens are new ones of its object, event and function; a
\* kprobe or a uprobe gets one.
LEMMA NewEventsAreNew ==
  ASSUME NEW b \in Bs, NEW ev \in Events, NEW fn \in Fns, NEW cpus \in SUBSET CpusOf(ev),
         HasCopy(b, ev, fn)
  PROVE  /\ NewEvents(b, ev, fn, cpus) \subseteq Tuples
         /\ NewEvents(b, ev, fn, cpus) \cap open = {}
         /\ \A e \in NewEvents(b, ev, fn, cpus) : e[1] = b /\ e[2] = ev /\ e[3] = fn
         /\ Counted(ev) /\ cpus = CpusOf(ev) => Single(NewEvents(b, ev, fn, cpus))
         /\ Counted(ev) /\ cpus # CpusOf(ev) => NewEvents(b, ev, fn, cpus) = {}
<1> DEFINE U(cpu) == Unused(b, ev, fn, cpu)
           E(cpu) == <<b, ev, fn, cpu, Min(U(cpu))>>
<1>1. ASSUME NEW cpu \in CpusOf(ev)
      PROVE  Min(U(cpu)) \in 1..MaxCopies /\ E(cpu) \notin open
  <2>1. U(cpu) \subseteq Nat /\ U(cpu) # {}
    BY PyProbesAssumption DEF HasCopy, Unused
  <2>2. Min(U(cpu)) \in U(cpu)
    BY <2>1, Least, Zenon
  <2> QED BY <2>2, Zenon DEF Unused
<1>2. NewEvents(b, ev, fn, cpus) = {E(cpu) : cpu \in cpus}
  BY Zenon DEF NewEvents
<1> HIDE DEF U
<1>3. CpusOf(ev) \subseteq Cpus \cup {0}
  BY Zenon DEF CpusOf
<1>4. Counted(ev) => CpusOf(ev) = {0}
  BY PyProbesAssumption, Zenon DEF CpusOf, Counted
<1>5. {E(cpu) : cpu \in cpus} \subseteq Tuples
  BY <1>1, <1>3 DEF Tuples
<1>6. {E(cpu) : cpu \in cpus} \cap open = {}
  BY <1>1, Zenon
<1>7. Counted(ev) /\ cpus = CpusOf(ev) => Single({E(cpu) : cpu \in cpus})
  <2>1. Counted(ev) /\ cpus = CpusOf(ev) => {E(cpu) : cpu \in cpus} = {E(0)}
    BY <1>4, Zenon
  <2> QED BY <2>1, Zenon DEF Single
<1>8. Counted(ev) /\ cpus # CpusOf(ev) => {E(cpu) : cpu \in cpus} = {}
  BY <1>4, Zenon
<1>9. \A e \in {E(cpu) : cpu \in cpus} : e[1] = b /\ e[2] = ev /\ e[3] = fn
  OBVIOUS
<1> HIDE DEF E
<1> QED BY <1>2, <1>5, <1>6, <1>7, <1>8, <1>9, Zenon

\* Opening events that are not counted, or none, leaves the count exact; opening a
\* counted one is counted; closing is at most an error in the safe direction.
LEMMA OpenSame ==
  ASSUME Counts, OpenCounted' = OpenCounted, UNCHANGED <<num_open, undone>>
  PROVE  IsFiniteSet(OpenCounted)' /\ (num_open \in Nat)' /\ QuotaIsExact'
BY Zenon DEF Counts, QuotaIsExact

\* A descriptor is opened and counted.
LEMMA OpenOne ==
  ASSUME Counts, Quota(1), NEW e, e \notin OpenCounted, OpenCounted' = OpenCounted \cup {e},
         num_open' = num_open + 1, UNCHANGED undone
  PROVE  IsFiniteSet(OpenCounted)' /\ (num_open \in Nat)' /\ QuotaIsExact'
<1>1. IsFiniteSet(OpenCounted)'
      /\ Cardinality(OpenCounted') = Cardinality(OpenCounted) + 1
  BY FS_AddElement, Zenon DEF Counts
<1>2. Cardinality(OpenCounted) \in Nat
  BY FS_CardinalityType, Zenon DEF Counts
<1>3. num_open' <= Limit
  BY Zenon DEF Quota
<1> HIDE DEF OpenCounted
<1> QED BY <1>1, <1>2, <1>3, PyProbesAssumption DEF Counts, QuotaIsExact

\* A descriptor is closed and no longer counted.
LEMMA CloseOne ==
  ASSUME Counts, NEW e \in OpenCounted, OpenCounted' = OpenCounted \ {e},
         num_open' = num_open - 1, UNCHANGED undone
  PROVE  IsFiniteSet(OpenCounted)' /\ (num_open \in Nat)' /\ QuotaIsExact'
<1>1. IsFiniteSet(OpenCounted)'
      /\ Cardinality(OpenCounted') = Cardinality(OpenCounted) - 1
  BY FS_RemoveElement, Zenon DEF Counts
<1>2. Cardinality(OpenCounted) \in Nat /\ Cardinality(OpenCounted') \in Nat
  BY <1>1, FS_CardinalityType, Zenon DEF Counts
<1> HIDE DEF OpenCounted
<1> QED BY <1>1, <1>2, PyProbesAssumption DEF Counts, QuotaIsExact

\* After an interrupted cleanup the count only bounds what is open.
LEMMA CloseSome ==
  ASSUME Counts, OpenCounted' \subseteq OpenCounted, UNCHANGED num_open, undone'
  PROVE  IsFiniteSet(OpenCounted)' /\ (num_open \in Nat)' /\ QuotaIsExact'
<1>1. IsFiniteSet(OpenCounted)' /\ Cardinality(OpenCounted') <= Cardinality(OpenCounted)
  BY FS_Subset, Zenon DEF Counts
<1>2. Cardinality(OpenCounted) \in Nat /\ Cardinality(OpenCounted') \in Nat
  BY <1>1, FS_CardinalityType, Zenon DEF Counts
<1> HIDE DEF OpenCounted
<1> QED BY <1>1, <1>2, PyProbesAssumption DEF Counts, QuotaIsExact

\* The bound on the faults.
LEMMA FaultBound ==
  ASSUME faults \in 0..MaxFaults, UNCHANGED faults \/ Fault
  PROVE  faults' \in 0..MaxFaults
BY PyProbesAssumption DEF Fault

\* The event of a key.
LEMMA KeyFacts == \A ev, fn : Key(ev, fn)[1] = ev
BY Zenon DEF Key

\* A successful attach: the record of the key is of the events it opened.
LEMMA AttachedCounts ==
  ASSUME QInv, In("attach"), NEW ev \in call.left, Attached(ev)
  PROVE  AttachShape' /\ Records' /\ Counts' /\ Bounds'
<1> DEFINE b == call.b
           fn == call.fn
           k == Key(ev, fn)
           new == NewEvents(b, ev, fn, CpusOf(ev))
<1>1. b \in Bs /\ fn \in Fns /\ ev \in Events /\ call.left \subseteq Events
  BY Zenon DEF QInv, RInv, CallShape, AttachShape
<1>2. /\ open' = open \cup new
      /\ leaked' = leaked \cup (IF k \in DOMAIN fds[b] THEN fds[b][k] ELSE {})
      /\ fds' = [fds EXCEPT ![b] = Put(fds[b], k, new)]
      /\ MayAttach(ev) /\ HasCopy(b, ev, fn)
      /\ num_open' = (IF Counted(ev) THEN num_open + 1 ELSE num_open)
      /\ UNCHANGED <<closed, faults, undone>>
  BY Zenon DEF Attached
<1>3. /\ new \subseteq Tuples /\ new \cap open = {}
      /\ \A e \in new : e[1] = b /\ e[2] = ev /\ e[3] = fn
      /\ Counted(ev) => Single(new)
  <2>1. PICK all \in SUBSET CpusOf(ev) : all = CpusOf(ev)
    BY Zenon
  <2>0. HasCopy(b, ev, fn)
    BY <1>2, Zenon
  <2> HIDE DEF b, fn
  <2>2. /\ NewEvents(b, ev, fn, all) \subseteq Tuples
        /\ NewEvents(b, ev, fn, all) \cap open = {}
        /\ \A e \in NewEvents(b, ev, fn, all) : e[1] = b /\ e[2] = ev /\ e[3] = fn
        /\ Counted(ev) /\ all = CpusOf(ev) => Single(NewEvents(b, ev, fn, all))
    BY <1>1, <2>0, NewEventsAreNew, Zenon
  <2> QED BY <2>1, <2>2, Zenon
<1>4. AttachShape'
  <2>1. call' = Idle \/ call' = [call EXCEPT !.left = @ \ {ev}]
    BY Zenon DEF Attached
  <2>2. CASE call' = Idle
    BY <2>2, Zenon DEF AttachShape, Idle
  <2>3. CASE call' = [call EXCEPT !.left = @ \ {ev}]
    BY <1>1, <2>3, Zenon DEF QInv, RInv, CallShape, AttachShape
  <2> QED BY <2>1, <2>2, <2>3, Zenon
<1> HIDE DEF new
<1>5. Records'
  <2>1. /\ fds'[b] = Put(fds[b], k, new)
        /\ \A c \in Bs \ {b} : fds'[c] = fds[c]
    BY <1>1, <1>2, Zenon DEF QInv, RInv, FdsShape
  <2>2. /\ DOMAIN fds'[b] = DOMAIN fds[b] \cup {k} /\ fds'[b][k] = new
        /\ \A x \in DOMAIN fds[b] \ {k} : fds'[b][x] = fds[b][x]
    BY <2>1, Zenon DEF Put
  <2>3. Recording(b, k, new)
    BY <1>3, KeyFacts, Zenon DEF Recording
  <2> SUFFICES ASSUME NEW c \in Bs, NEW x \in DOMAIN fds'[c] PROVE Recording(c, x, fds'[c][x])
    BY Zenon DEF Records, Recording
  <2>4. CASE c = b /\ x = k
    BY <2>2, <2>3, <2>4, Zenon
  <2>5. CASE c # b
    BY <2>1, <2>5, Zenon DEF QInv, Records
  <2>6. CASE c = b /\ x # k
    BY <2>2, <2>6, Zenon DEF QInv, Records
  <2> QED BY <2>4, <2>5, <2>6, Zenon
<1>6. (open \subseteq Tuples)' /\ (leaked \subseteq Tuples)'
  <2>1. k \in DOMAIN fds[b] => fds[b][k] \subseteq Tuples
    BY <1>1 DEF QInv, Records, Recording
  <2> QED BY <1>2, <1>3, <2>1, Zenon DEF QInv, Counts, Tuples
<1>7. CASE Counted(ev)
  <2>1. PICK e : new = {e}
    BY <1>3, <1>7, Zenon DEF Single
  <2>2. e \notin open /\ e[2] = ev
    BY <1>3, <2>1, Zenon
  <2>3. OpenCounted' = OpenCounted \cup {e} /\ e \notin OpenCounted
    BY <1>2, <1>7, <2>1, <2>2, Zenon DEF OpenCounted, Counted
  <2>4. Quota(1)
    BY <1>2, <1>7, Zenon DEF MayAttach
  <2>5. IsFiniteSet(OpenCounted)' /\ (num_open \in Nat)' /\ QuotaIsExact'
    BY <1>2, <1>7, <2>3, <2>4, OpenOne, Zenon DEF QInv
  <2> QED BY <1>2, <1>4, <1>5, <1>6, <2>5, Zenon DEF QInv, Counts, Bounds
<1>8. CASE ~Counted(ev)
  <2>1. OpenCounted' = OpenCounted
    BY <1>2, <1>3, <1>8, Zenon DEF OpenCounted, Counted
  <2>2. IsFiniteSet(OpenCounted)' /\ (num_open \in Nat)' /\ QuotaIsExact'
    BY <1>2, <1>8, <2>1, OpenSame, Zenon DEF QInv
  <2> QED BY <1>2, <1>4, <1>5, <1>6, <2>2, Zenon DEF QInv, Counts, Bounds
<1> QED BY <1>7, <1>8, Zenon

\* A failing attach: a kprobe or a uprobe is not open, a perf event may be on some
\* CPUs and is not counted.
LEMMA NotAttachedCounts ==
  ASSUME QInv, In("attach"), NEW ev \in call.left, NotAttached(ev)
  PROVE  AttachShape' /\ Records' /\ Counts' /\ Bounds'
<1> DEFINE b == call.b
           fn == call.fn
<1>1. b \in Bs /\ fn \in Fns /\ ev \in Events /\ call.left \subseteq Events
  BY Zenon DEF QInv, RInv, CallShape, AttachShape
<1>2. /\ UNCHANGED <<fds, num_open, closed, undone>>
      /\ UNCHANGED faults \/ Fault
  BY Zenon DEF NotAttached
<1>3. PICK new : /\ open' = open \cup new /\ leaked' = leaked \cup new
                 /\ new \subseteq Tuples
                 /\ \A e \in new : e[2] = ev
                 /\ Counted(ev) => new = {}
  <2>1. CASE UNCHANGED <<open, leaked>>
    <3>1. open' = open \cup {} /\ leaked' = leaked \cup {}
      BY <2>1, Zenon
    <3> QED BY <3>1, Zenon
  <2>2. CASE ~UNCHANGED <<open, leaked>>
    <3>1. PICK some \in SUBSET CpusOf(ev) :
            /\ some # CpusOf(ev) /\ HasCopy(b, ev, fn)
            /\ open' = open \cup NewEvents(b, ev, fn, some)
            /\ leaked' = leaked \cup NewEvents(b, ev, fn, some)
      BY <2>2, Zenon DEF NotAttached
    <3> HIDE DEF b, fn
    <3>2. /\ NewEvents(b, ev, fn, some) \subseteq Tuples
          /\ \A e \in NewEvents(b, ev, fn, some) : e[1] = b /\ e[2] = ev /\ e[3] = fn
          /\ Counted(ev) /\ some # CpusOf(ev) => NewEvents(b, ev, fn, some) = {}
      BY <1>1, <3>1, NewEventsAreNew, Zenon
    <3> QED BY <3>1, <3>2, Zenon
  <2> QED BY <2>1, <2>2, Zenon
<1>4. AttachShape'
  <2>1. call' = Idle \/ call' = [call EXCEPT !.left = @ \ {ev}]
    BY Zenon DEF NotAttached
  <2>2. CASE call' = Idle
    BY <2>2, Zenon DEF AttachShape, Idle
  <2>3. CASE call' = [call EXCEPT !.left = @ \ {ev}]
    BY <1>1, <2>3, Zenon DEF QInv, RInv, CallShape, AttachShape
  <2> QED BY <2>1, <2>2, <2>3, Zenon
<1>5. Records'
  BY <1>2, Zenon DEF QInv, Records, Recording, Key, Tuples, Counted
<1>6. OpenCounted' = OpenCounted
  BY <1>3, Zenon DEF OpenCounted, Counted
<1>7. IsFiniteSet(OpenCounted)' /\ (num_open \in Nat)' /\ QuotaIsExact'
  BY <1>2, <1>6, OpenSame, Zenon DEF QInv
<1>8. (open \subseteq Tuples)' /\ (leaked \subseteq Tuples)'
  BY <1>3, Zenon DEF QInv, Counts, Tuples
<1>9. Bounds'
  BY <1>2, FaultBound, Zenon DEF QInv, Bounds
<1> QED BY <1>4, <1>5, <1>7, <1>8, <1>9, Zenon DEF Counts

\* One key of a detach or of cleanup: the count goes down with the record, and a
\* failure that keeps the record keeps the count although the event is closed.
LEMMA DetachCounts ==
  ASSUME QInv, call.op \in {"detach", "cleanup"}, NEW k \in DOMAIN fds[call.b],
         Detached(k) \/ NotDetached(k)
  PROVE  AttachShape' /\ Records' /\ Counts' /\ Bounds'
<1> DEFINE b == call.b
           es == fds[b][k]
<1>1. b \in Bs /\ Recording(b, k, es)
  BY Zenon DEF QInv, RInv, CallShape, Records
<1>2. /\ open' = open \ es /\ UNCHANGED <<leaked, closed>>
      /\ UNCHANGED faults \/ Fault
      /\ \/ es \subseteq open /\ Forget(b, k) /\ UNCHANGED undone
         \/ UNCHANGED <<fds, num_open>> /\ undone' = TRUE
  BY Zenon DEF Detached, NotDetached, Close
<1>3. AttachShape'
  <2>1. \/ call' = Idle \/ call' = call
        \/ In("detach") /\ call' = [call EXCEPT !.left = @ \ {k}]
    BY Zenon DEF Detached, NotDetached, GoOn
  <2>2. call'.op # "attach"
    BY <2>1 DEF QInv, RInv, CallShape, Idle
  <2> QED BY <2>2, Zenon DEF AttachShape
<1>4. Records'
  <2>1. fds' = fds \/ fds' = [fds EXCEPT ![b] = Drop(fds[b], k)]
    BY <1>2, Zenon DEF Forget
  <2>2. \A c \in Bs : \A x \in DOMAIN fds'[c] : x \in DOMAIN fds[c] /\ fds'[c][x] = fds[c][x]
    <3>1. CASE fds' = fds
      BY <3>1, Zenon
    <3>2. CASE fds' = [fds EXCEPT ![b] = Drop(fds[b], k)]
      <4>1. /\ fds'[b] = Drop(fds[b], k)
            /\ \A c \in Bs \ {b} : fds'[c] = fds[c]
        BY <1>1, <3>2, Zenon DEF QInv, RInv, FdsShape
      <4>2. /\ DOMAIN fds'[b] = DOMAIN fds[b] \ {k}
            /\ \A x \in DOMAIN fds[b] \ {k} : fds'[b][x] = fds[b][x]
        BY <4>1, Zenon DEF Drop
      <4> QED BY <4>1, <4>2, Zenon
    <3> QED BY <2>1, <3>1, <3>2, Zenon
  <2>3. \A c \in Bs : \A x \in DOMAIN fds'[c] : Recording(c, x, fds'[c][x])
    BY <2>2, Zenon DEF QInv, Records
  <2> QED BY <2>3, Zenon DEF Records, Recording
<1>5. (open \subseteq Tuples)' /\ (leaked \subseteq Tuples)'
  BY <1>2, Zenon DEF QInv, Counts, Tuples
<1>6. Bounds'
  BY <1>2, FaultBound, Zenon DEF QInv, Bounds
<1>7. IsFiniteSet(OpenCounted)' /\ (num_open \in Nat)' /\ QuotaIsExact'
  <2>1. CASE UNCHANGED <<fds, num_open>> /\ undone' = TRUE
    <3>1. OpenCounted' \subseteq OpenCounted
      BY <1>2, Zenon DEF OpenCounted, Counted
    <3> QED BY <2>1, <3>1, CloseSome, Zenon DEF QInv
  <2>2. CASE es \subseteq open /\ Forget(b, k) /\ UNCHANGED undone /\ Counted(k[1])
    <3>1. PICK e \in es : es = {e} /\ e[2] = k[1]
      BY <1>1, <2>2, Zenon DEF Recording, Single
    <3> HIDE DEF es
    <3>2. e \in OpenCounted /\ OpenCounted' = OpenCounted \ {e}
      BY <1>2, <2>2, <3>1, Zenon DEF OpenCounted, Counted
    <3>3. num_open' = num_open - 1
      BY <2>2, Zenon DEF Forget
    <3> QED BY <2>2, <3>2, <3>3, CloseOne, Zenon DEF QInv
  <2>3. CASE es \subseteq open /\ Forget(b, k) /\ UNCHANGED undone /\ ~Counted(k[1])
    <3>1. \A e \in es : e[2] = k[1]
      BY <1>1, Zenon DEF Recording
    <3> HIDE DEF es
    <3>2. OpenCounted' = OpenCounted
      BY <1>2, <2>3, <3>1, Zenon DEF OpenCounted, Counted
    <3>3. num_open' = num_open
      BY <2>3, Zenon DEF Forget
    <3> QED BY <2>3, <3>2, <3>3, OpenSame, Zenon DEF QInv
  <2> QED BY <1>2, <2>1, <2>2, <2>3, Zenon
<1> QED BY <1>3, <1>4, <1>5, <1>6, <1>7, Zenon DEF Counts

\* The steps that open and close nothing keep the records and the count.
LEMMA CountsUnchanged ==
  ASSUME QInv, UNCHANGED <<fds, open, leaked, num_open, undone>>
  PROVE  Records' /\ Counts'
<1>1. Records'
  BY DEF QInv, Records, Recording, Key, Tuples, Counted, Single
<1>2. OpenCounted' = OpenCounted
  BY Zenon DEF OpenCounted, Counted
<1>3. IsFiniteSet(OpenCounted)' /\ (num_open \in Nat)' /\ QuotaIsExact'
  BY <1>2, OpenSame, Zenon DEF QInv
<1> QED BY <1>1, <1>3, Zenon DEF QInv, Counts, Tuples

\* Every step keeps the count.
LEMMA QInvNext == QInv /\ [Next]_vars => QInv'
<1> SUFFICES ASSUME QInv, [Next]_vars PROVE QInv'
  BY Zenon
<1>1. RInv' /\ KeysStay'
  BY RInvNext, KeysStayNext, Zenon DEF QInv
<1> SUFFICES AttachShape' /\ Records' /\ Counts' /\ Bounds'
  BY <1>1, Zenon DEF QInv
<1>2. CASE UNCHANGED vars
  <2>1. AttachShape' /\ Bounds'
    BY <1>2, Zenon DEF QInv, AttachShape, Bounds, vars
  <2> QED BY <1>2, <2>1, CountsUnchanged, Zenon DEF vars
<1>3. ASSUME NEW b \in Bs, NEW evs \in Requests, NEW fn \in Fns, attach(b, evs, fn)
      PROVE  AttachShape' /\ Records' /\ Counts' /\ Bounds'
  <2>1. evs \subseteq Events
    BY Zenon DEF Requests, Kinds, Events, KEvents, UEvents
  <2>2. AttachShape' /\ Bounds'
    BY <1>3, <2>1, Zenon DEF QInv, AttachShape, Bounds, attach
  <2> QED BY <1>3, <2>2, CountsUnchanged, Zenon DEF attach
<1>4. ASSUME NEW b \in Bs, NEW ks, detach(b, ks) \/ cleanup(b)
      PROVE  AttachShape' /\ Records' /\ Counts' /\ Bounds'
  <2>1. AttachShape' /\ Bounds'
    BY <1>4 DEF QInv, AttachShape, Bounds, detach, cleanup
  <2> QED BY <1>4, <2>1, CountsUnchanged, Zenon DEF detach, cleanup
<1>5. CASE In("attach") /\ \E ev \in call.left : Attached(ev) \/ NotAttached(ev)
  BY <1>5, AttachedCounts, NotAttachedCounts, Zenon
<1>6. CASE call.op \in {"detach", "cleanup"}
           /\ \E k \in Left : Detached(k) \/ NotDetached(k)
  <2>1. Left \subseteq DOMAIN fds[call.b]
    BY <1>6, Zenon DEF Left, QInv, KeysStay
  <2> QED BY <1>6, <2>1, DetachCounts, Zenon
<1>7. CASE CleanupDone
  <2>1. AttachShape' /\ Bounds'
    BY <1>7, Zenon DEF QInv, RInv, CallShape, AttachShape, Bounds, CleanupDone, Idle
  <2> QED BY <1>7, <2>1, CountsUnchanged, Zenon DEF CleanupDone
<1> QED BY <1>2, <1>3, <1>4, <1>5, <1>6, <1>7, Zenon DEF Next

\* Nothing is open at first.
LEMMA QInvInit == Init => QInv
<1> SUFFICES ASSUME Init PROVE QInv
  BY Zenon
<1>1. RInv /\ KeysStay /\ AttachShape
  BY RInvInit, Zenon DEF Init, KeysStay, AttachShape, Idle
<1>0. Bounds
  <2>1. faults \in 0..MaxFaults
    BY PyProbesAssumption DEF Init
  <2>2. undone \in BOOLEAN /\ closed \subseteq Bs
    BY Zenon DEF Init
  <2> QED BY <2>1, <2>2, Zenon DEF Bounds
<1>2. Records
  BY Zenon DEF Init, Records, Empty
<1>3. OpenCounted = {}
  BY Zenon DEF Init, OpenCounted
<1>4. IsFiniteSet(OpenCounted) /\ Cardinality(OpenCounted) = 0
  BY <1>3, FS_EmptySet, Zenon
<1>5. Counts
  BY <1>4, PyProbesAssumption DEF Init, Counts, QuotaIsExact
<1> QED BY <1>0, <1>1, <1>2, <1>5, Zenon DEF QInv

\* The state stays well formed, and what is recorded under a key was opened for it.
THEOREM TypeOKHolds == Spec => []TypeOK
<1>1. QInv => TypeOK
  <2> SUFFICES ASSUME QInv PROVE TypeOK
    BY Zenon
  <2>1. leaked \cup open \subseteq Bs \X Events \X Fns \X (Cpus \cup {0}) \X (1..MaxCopies)
    BY Zenon DEF QInv, Counts, Tuples
  <2>2. \A b \in Bs : \A k \in DOMAIN fds[b] :
          \A e \in fds[b][k] : e[1] = b /\ Key(e[2], e[3]) = k
    BY DEF QInv, Records, Recording
  <2> QED BY <2>1, <2>2, Zenon DEF QInv, Counts, Bounds, TypeOK
<1> QED BY <1>1, QInvInit, QInvNext, PTL DEF Spec

\* _check_probe_quota: for every limit, every set of objects, events, functions and
\* CPUs and every failure, no more kprobes and uprobes are open than _num_open_probes
\* says and it never exceeds the limit; it is exact until a detach fails after
\* closing its event.
THEOREM QuotaHolds == Spec => []QuotaIsExact
<1>1. QInv => QuotaIsExact
  BY Zenon DEF QInv, Counts
<1> QED BY <1>1, QInvInit, QInvNext, PTL DEF Spec
=============================================================================
