-------------------------- MODULE PerfBuffer_proofs -------------------------
(***************************************************************************)
(* For every number of CPUs and every set of failing calls: a perf buffer  *)
(* is open on all CPUs or on none, no reader is leaked, and none is freed  *)
(* or read after it was freed unless a map entry could not be removed.     *)
(***************************************************************************)
EXTENDS PerfBuffer, FiniteSetTheorems, TLAPS

Closings == {"close", "destroy", "delete"}
Recorded(S) == {cpu_readers_[c] : c \in S}

\* The shape of the state; readers are numbered by their making.
Shape ==
  /\ cpu_readers_ \in [Cpus -> Nat] /\ map \in [Cpus -> Nat]
  /\ made \in Nat /\ live \subseteq 1..made /\ ready \subseteq live
  /\ \A c \in Cpus : cpu_readers_[c] <= made
  /\ epfd_ \in BOOLEAN /\ closeFailed \in BOOLEAN /\ damage \in BOOLEAN
  /\ call = [op |-> call.op, left |-> call.left]
  /\ call.op \in Closings \cup {"none", "open", "read", "crashed", "gone"}
  /\ call.op \in Closings \cup {"open"} => call.left \subseteq Cpus

\* A live reader is recorded; while closing, on a CPU still to be closed.
Leakless ==
  /\ live \subseteq Recorded(Cpus)
  /\ call.op \in Closings => live \subseteq Recorded(call.left)

\* CPU c is open: map, record and epoll set agree on a live reader.
OpenOn(c) == map[c] = cpu_readers_[c] /\ cpu_readers_[c] \in live \cap epset

\* The CPUs done are open and the others are not; open or closed is everywhere.
Opening ==
  /\ ~epfd_ => epset = {}
  /\ call.op = "open" => /\ \A c \in call.left : cpu_readers_[c] = None
                         /\ \A c \in Cpus \ call.left : OpenOn(c)
                         /\ epset = Recorded(Cpus \ call.left)
  /\ call.op \in {"none", "read"} /\ epfd_ => /\ \A c \in Cpus : OpenOn(c)
                                              /\ epset = Recorded(Cpus)
  /\ call.op \in Closings => ~epfd_

\* Before a removal fails, a record is of a live reader of that CPU alone.
Sound ==
  ~closeFailed =>
    /\ \A c \in Cpus : cpu_readers_[c] # None => cpu_readers_[c] \in live
    /\ \A c, d \in Cpus : cpu_readers_[c] # None /\ cpu_readers_[c] = cpu_readers_[d] => c = d
    /\ call.op \in Closings => \A c \in call.left : cpu_readers_[c] # None
\* What is being read is live.
ReadsLive == call.op = "read" => call.left \subseteq live

PInv == Shape /\ Leakless /\ Opening /\ Sound /\ ReadsLive

USE DEF None, In, InSome, Call

\* The first state.
LEMMA PInvInit == Init => PInv
<1> SUFFICES ASSUME Init PROVE PInv
  BY Zenon
<1>1. call.op = "none" /\ call = [op |-> call.op, left |-> call.left]
  BY Zenon DEF Init, Idle
<1>2. Shape
  <2>1. cpu_readers_ \in [Cpus -> Nat] /\ map \in [Cpus -> Nat]
    BY Zenon DEF Init
  <2>2. \A c \in Cpus : cpu_readers_[c] <= made
    BY DEF Init
  <2> QED BY <1>1, <2>1, <2>2, Zenon DEF Init, Shape, Closings
<1>3. Leakless /\ Opening
  BY <1>1, Zenon DEF Init, Leakless, Opening, Closings
<1>4. Sound /\ ReadsLive
  BY <1>1, Zenon DEF Init, Sound, ReadsLive, Closings
<1> QED BY <1>2, <1>3, <1>4, Zenon DEF PInv

\* A live reader is on a CPU that counts as open.
LEMMA LiveIsOpen == ASSUME PInv PROVE live \subseteq Recorded(OpenCpus)
<1> SUFFICES ASSUME NEW id \in live PROVE id \in Recorded(OpenCpus)
  BY Zenon
<1>1. PICK c \in Cpus : id = cpu_readers_[c]
  BY Zenon DEF PInv, Leakless, Recorded
<1>2. id # None
  BY DEF PInv, Shape
<1> QED BY <1>1, <1>2, Zenon DEF OpenCpus, Recorded

\* open_perf_buffer begins only where nothing is open.
LEMMA OpenBegins == ASSUME PInv, open_perf_buffer PROVE PInv'
<1>1. call.op = "none" /\ UNCHANGED <<epset, cpu_readers_, map, live, made, ready, damage, closeFailed>>
  BY Zenon DEF open_perf_buffer
<1>2. CASE UNCHANGED <<epfd_, call>>
  BY <1>1, <1>2 DEF PInv, Shape, Leakless, Opening, OpenOn, Sound, ReadsLive, Recorded
<1>3. CASE ~NotCleaned /\ epfd_' \in BOOLEAN /\ call' = Call("open", Cpus)
  <2>1. (\A c \in Cpus : cpu_readers_[c] = None) /\ ~epfd_
    BY <1>3, Zenon DEF NotCleaned, OpenCpus
  <2>2. epset = {}
    BY <2>1, Zenon DEF PInv, Opening
  <2>3. call'.op = "open" /\ call'.left = Cpus /\ call' = [op |-> call'.op, left |-> call'.left]
    BY <1>3, Zenon
  <2>4. Shape'
    BY <1>1, <1>3, <2>3, Zenon DEF PInv, Shape, Closings
  <2>5. Leakless'
    BY <1>1, <2>3, Zenon DEF PInv, Leakless, Closings, Recorded
  <2>6. Opening'
    BY <1>1, <2>1, <2>2, <2>3, Zenon DEF Opening, Closings, Recorded
  <2>7. Sound' /\ ReadsLive'
    BY <1>1, <2>3, Zenon DEF PInv, Sound, ReadsLive, Closings
  <2> QED BY <2>4, <2>5, <2>6, <2>7, Zenon DEF PInv
<1> QED BY <1>2, <1>3, Zenon DEF open_perf_buffer

\* open_on_cpu makes one more CPU agree.
LEMMA OpenGoesOn == ASSUME PInv, NEW c \in Cpus, open_on_cpu(c) PROVE PInv'
<1> DEFINE id == made + 1
<1>1. /\ call.op = "open" /\ c \in call.left /\ epfd_ /\ epfd_'
      /\ made' = id /\ live' = live \cup {id} /\ epset' = epset \cup {id}
      /\ map' = [map EXCEPT ![c] = id] /\ cpu_readers_' = [cpu_readers_ EXCEPT ![c] = id]
      /\ call' = OrIdle("open", call.left \ {c})
      /\ UNCHANGED <<epfd_, ready, damage, closeFailed>>
  BY Zenon DEF open_on_cpu, IsNext, Register, Watch, Rest
<1>2. /\ call' = [op |-> call'.op, left |-> call'.left]
      /\ \/ call'.op = "none" /\ call.left \ {c} = {}
         \/ call'.op = "open" /\ call'.left = call.left \ {c}
  BY <1>1, Zenon DEF OrIdle, Idle
<1>3. Shape
  BY Zenon DEF PInv
<1>4. id \in Nat /\ id \notin live /\ \A d \in Cpus : cpu_readers_[d] # id
  BY <1>3 DEF Shape
<1>5. /\ cpu_readers_'[c] = id /\ map'[c] = id
      /\ \A d \in Cpus \ {c} : cpu_readers_'[d] = cpu_readers_[d] /\ map'[d] = map[d]
  BY <1>1, <1>3, Zenon DEF Shape
<1>6. cpu_readers_[c] = None
  BY <1>1, Zenon DEF PInv, Opening
<1>7. Shape'
  <2>1. cpu_readers_' \in [Cpus -> Nat] /\ map' \in [Cpus -> Nat] /\ made' \in Nat
    BY <1>1, <1>3, <1>4, Zenon DEF Shape
  <2>2. live' \subseteq 1..made' /\ ready' \subseteq live'
    BY <1>1, <1>3 DEF Shape
  <2>3. \A d \in Cpus : cpu_readers_'[d] <= made'
    BY <1>1, <1>3, <1>5 DEF Shape
  <2>4. call'.op \in Closings \cup {"open"} => call'.left \subseteq Cpus
    BY <1>1, <1>2, <1>3, Zenon DEF Shape, Closings
  <2> QED BY <1>1, <1>2, <1>3, <2>1, <2>2, <2>3, <2>4, Zenon DEF Shape
<1>8. Leakless'
  <2>1. ASSUME NEW x \in live PROVE \E d \in Cpus : x = cpu_readers_'[d]
    <3>1. PICK d \in Cpus : x = cpu_readers_[d]
      BY <2>1, Zenon DEF PInv, Leakless, Recorded
    <3>2. d # c
      BY <1>3, <1>6, <2>1, <3>1 DEF Shape
    <3> QED BY <1>5, <3>1, <3>2, Zenon
  <2> QED BY <1>1, <1>2, <1>5, <2>1, Zenon DEF Leakless, Recorded, Closings
<1>9. Opening'
  <2>1. \A d \in Cpus \ (call.left \ {c}) : OpenOn(d)'
    <3>1. ASSUME NEW d \in Cpus, d = c \/ d \notin call.left
          PROVE  map'[d] = cpu_readers_'[d] /\ cpu_readers_'[d] \in live' \cap epset'
      <4>1. CASE d = c
        BY <1>1, <1>5, <4>1
      <4>2. CASE d # c
        <5>1. map[d] = cpu_readers_[d] /\ cpu_readers_[d] \in live \cap epset
          BY <1>1, <3>1, <4>2, Zenon DEF PInv, Opening, OpenOn
        <5> QED BY <1>1, <1>5, <4>2, <5>1
      <4> QED BY <4>1, <4>2, Zenon
    <3> QED BY <3>1, Zenon DEF OpenOn
  <2>2. \A d \in call.left \ {c} : cpu_readers_'[d] = None
    BY <1>1, <1>3, <1>5, Zenon DEF PInv, Opening, Shape
  <2>3. epset' = {cpu_readers_'[d] : d \in Cpus \ (call.left \ {c})}
    <3>1. epset = {cpu_readers_[d] : d \in Cpus \ call.left}
      BY <1>1, Zenon DEF PInv, Opening, Recorded
    <3> QED BY <1>1, <1>5, <3>1
  <2> QED BY <1>1, <1>2, <2>1, <2>2, <2>3, Zenon DEF Opening, Recorded, Closings
<1>10. Sound' /\ ReadsLive'
  <2>1. ASSUME ~closeFailed, NEW d \in Cpus, NEW e \in Cpus, cpu_readers_'[d] # None
        PROVE  cpu_readers_'[d] \in live' /\ (cpu_readers_'[d] = cpu_readers_'[e] => d = e)
    BY <1>1, <1>4, <1>5, <2>1 DEF PInv, Sound
  <2> QED BY <1>1, <1>2, <2>1, Zenon DEF Sound, ReadsLive, Closings
<1> QED BY <1>7, <1>8, <1>9, <1>10, Zenon DEF PInv

\* Closing begins: whatever is live is on a CPU that will be closed.
LEMMA ClosingBegins ==
  ASSUME PInv, NEW op \in Closings, Closing(op), made' \in Nat, made <= made',
         map' \in [Cpus -> Nat], UNCHANGED <<cpu_readers_, live, ready, damage, closeFailed>>
  PROVE  PInv'
<1>1. /\ epfd_' = FALSE /\ epset' = {} /\ call'.op = op /\ call'.left = OpenCpus
      /\ call' = [op |-> call'.op, left |-> call'.left]
  BY Zenon DEF Closing
<1>2. Shape'
  <2>1. Shape /\ OpenCpus \subseteq Cpus
    BY Zenon DEF PInv, OpenCpus
  <2>2. live' \subseteq 1..made' /\ ready' \subseteq live' /\ \A c \in Cpus : cpu_readers_'[c] <= made'
    BY <2>1 DEF Shape
  <2> QED BY <1>1, <2>1, <2>2, Zenon DEF Shape, Closings
<1>3. Leakless'
  BY <1>1, LiveIsOpen, Zenon DEF PInv, Leakless, Recorded
<1>4. Opening'
  BY <1>1, Zenon DEF Opening, Closings
<1>5. Sound' /\ ReadsLive'
  BY <1>1, Zenon DEF PInv, Sound, ReadsLive, Closings, OpenCpus
<1> QED BY <1>2, <1>3, <1>4, <1>5, Zenon DEF PInv

\* A failure while opening closes what is open.
LEMMA OpenFailing == ASSUME PInv, NEW c \in Cpus, OpenFails(c) PROVE PInv'
<1>1. /\ Closing("close") /\ UNCHANGED <<cpu_readers_, live, ready, damage, closeFailed>>
      /\ (made' = made \/ made' = made + 1) /\ (map' = map \/ map' = [map EXCEPT ![c] = made + 1])
  BY Zenon DEF OpenFails, FreeUnrecorded
<1>2. made' \in Nat /\ made <= made' /\ map' \in [Cpus -> Nat]
  BY <1>1 DEF PInv, Shape
<1> QED BY <1>1, <1>2, ClosingBegins, Zenon DEF Closings

\* close_on_cpu: the reader freed is the one of the CPU left out from now on.
LEMMA CloseGoesOn == ASSUME PInv, NEW c \in Cpus, close_on_cpu(c) PROVE PInv'
<1> DEFINE id == cpu_readers_[c]
<1>1. /\ call.op \in Closings /\ c \in call.left /\ ~epfd_
      /\ live' = live \ {id} /\ ready' = ready \ {id} /\ damage' = (id \notin live)
      /\ UNCHANGED <<epfd_, epset, made>>
  BY Zenon DEF close_on_cpu, Closings, IsNext, Free, Then, PInv, Opening
<1>2. \/ /\ map' = [map EXCEPT ![c] = None] /\ cpu_readers_' = [cpu_readers_ EXCEPT ![c] = None]
         /\ closeFailed' = closeFailed
      \/ closeFailed' = TRUE /\ UNCHANGED <<map, cpu_readers_>>
  BY Zenon DEF close_on_cpu, Forget
<1>3. /\ call' = [op |-> call'.op, left |-> call'.left]
      /\ \/ call'.op = call.op /\ call'.left = call.left \ {c}
         \/ call'.op = "crashed"
  BY Zenon DEF close_on_cpu, Then, Rest
<1>4. Shape
  BY Zenon DEF PInv
<1>5. \A d \in Cpus \ {c} : cpu_readers_'[d] = cpu_readers_[d]
  BY <1>2, <1>4, Zenon DEF Shape
<1>6. Shape'
  <2>1. /\ cpu_readers_' \in [Cpus -> Nat] /\ map' \in [Cpus -> Nat]
        /\ \A d \in Cpus : cpu_readers_'[d] <= made
    BY <1>2, <1>4 DEF Shape
  <2>2. live' \subseteq 1..made' /\ ready' \subseteq live'
    BY <1>1, <1>4, Zenon DEF Shape
  <2>3. epfd_' \in BOOLEAN /\ closeFailed' \in BOOLEAN /\ damage' \in BOOLEAN
    BY <1>1, <1>2, <1>4, Zenon DEF Shape
  <2> QED BY <1>1, <1>3, <1>4, <2>1, <2>2, <2>3, Zenon DEF Shape, Closings
<1>7. Leakless'
  <2>1. ASSUME NEW x \in live' PROVE \E d \in call.left \ {c} : x = cpu_readers_'[d]
    <3>1. PICK d \in call.left : x = cpu_readers_[d]
      BY <1>1, <2>1, Zenon DEF PInv, Leakless, Recorded
    <3>2. d # c /\ d \in Cpus
      BY <1>1, <1>4, <2>1, <3>1, Zenon DEF Shape
    <3> QED BY <1>5, <3>1, <3>2, Zenon
  <2>2. call.left \subseteq Cpus
    BY <1>1, <1>4, Zenon DEF Shape
  <2> QED BY <1>3, <2>1, <2>2, Zenon DEF Leakless, Recorded, Closings
<1>8. Opening'
  BY <1>1, <1>3, Zenon DEF PInv, Opening, Closings
<1>9. Sound' /\ ReadsLive'
  <2>1. ReadsLive'
    BY <1>1, <1>3, Zenon DEF ReadsLive, Closings
  <2>2. ASSUME ~closeFailed' PROVE Sound'
    <3>1. ~closeFailed /\ cpu_readers_' = [cpu_readers_ EXCEPT ![c] = None]
      BY <1>2, <2>2
    <3>2. /\ \A d \in Cpus : cpu_readers_[d] # None => cpu_readers_[d] \in live
          /\ \A d, e \in Cpus : cpu_readers_[d] # None /\ cpu_readers_[d] = cpu_readers_[e] => d = e
          /\ \A d \in call.left : cpu_readers_[d] # None
      BY <1>1, <3>1, Zenon DEF PInv, Sound
    <3>3. cpu_readers_'[c] = None
      BY <1>4, <3>1, Zenon DEF Shape
    <3>4. call.left \subseteq Cpus
      BY <1>1, <1>4, Zenon DEF Shape
    <3>5. \A d \in Cpus : cpu_readers_'[d] # None => cpu_readers_'[d] \in live'
      BY <1>1, <1>5, <3>2, <3>3, Zenon
    <3>6. \A d, e \in Cpus : cpu_readers_'[d] # None /\ cpu_readers_'[d] = cpu_readers_'[e] => d = e
      BY <1>5, <3>2, <3>3, Zenon
    <3>7. \A d \in call.left \ {c} : cpu_readers_'[d] # None
      BY <1>5, <3>2, <3>4, Zenon
    <3> QED BY <1>3, <3>5, <3>6, <3>7, Zenon DEF Sound, Closings
  <2> QED BY <2>1, <2>2, Zenon DEF Sound
<1> QED BY <1>6, <1>7, <1>8, <1>9, Zenon DEF PInv

\* close_all_cpu ends with no live reader.
LEMMA CloseEnds == ASSUME PInv, CloseDone PROVE PInv'
<1>1. /\ call.op \in Closings /\ call.left = {} /\ ~epfd_
      /\ UNCHANGED <<epfd_, epset, map, live, made, ready, damage, closeFailed>>
  BY Zenon DEF CloseDone, Closings, PInv, Opening
<1>2. live = {}
  BY <1>1, Zenon DEF PInv, Leakless, Recorded
<1>3. /\ call' = [op |-> call'.op, left |-> call'.left]
      /\ \/ call'.op \in {"none", "gone"}
         \/ call'.op = "delete" /\ call'.left = OpenCpus /\ cpu_readers_' = cpu_readers_
  BY <1>1, Zenon DEF CloseDone, Closings, Idle
<1>4. cpu_readers_' = cpu_readers_ \/ cpu_readers_' = [c \in Cpus |-> None]
  BY Zenon DEF CloseDone
<1>5. Shape'
  <2>1. cpu_readers_' \in [Cpus -> Nat] /\ \A c \in Cpus : cpu_readers_'[c] <= made
    BY <1>4 DEF PInv, Shape
  <2>2. OpenCpus \subseteq Cpus
    BY Zenon DEF OpenCpus
  <2> QED BY <1>1, <1>3, <2>1, <2>2, Zenon DEF PInv, Shape, Closings
<1>6. Leakless' /\ Opening' /\ ReadsLive'
  BY <1>1, <1>2, <1>3, Zenon DEF PInv, Leakless, Opening, ReadsLive, Closings
<1>7. Sound'
  <2>1. CASE cpu_readers_' = cpu_readers_
    BY <1>1, <1>3, <2>1, Zenon DEF PInv, Sound, OpenCpus, Closings
  <2>2. CASE cpu_readers_' = [c \in Cpus |-> None]
    <3>1. \A c \in Cpus : cpu_readers_'[c] = None
      BY <2>2, Zenon
    <3>2. call'.op = "delete" => call'.left = {}
      BY <1>3, <3>1, Zenon DEF OpenCpus
    <3> QED BY <1>3, <3>1, <3>2, Zenon DEF Sound, Closings
  <2> QED BY <1>4, <2>1, <2>2, Zenon
<1> QED BY <1>5, <1>6, <1>7, Zenon DEF PInv

\* poll and consume read readers that are live.
LEMMA ReadBegins == ASSUME PInv, poll \/ consume PROVE PInv'
<1>1. /\ call.op = "none" /\ epfd_
      /\ UNCHANGED <<epfd_, epset, cpu_readers_, map, live, made, ready, damage, closeFailed>>
      /\ call'.op = "read" /\ call' = [op |-> call'.op, left |-> call'.left]
  BY DEF poll, consume
<1>2. call'.left \subseteq live
  BY <1>1 DEF poll, consume, PInv, Shape, Opening, OpenOn, OpenCpus
<1>3. Shape'
  BY <1>1, Zenon DEF PInv, Shape, Closings
<1>4. Leakless' /\ Sound' /\ ReadsLive'
  BY <1>1, <1>2, Zenon DEF PInv, Leakless, Sound, ReadsLive, Closings, Recorded
<1>5. Opening'
  BY <1>1, Zenon DEF PInv, Opening, OpenOn, Closings, Recorded
<1> QED BY <1>3, <1>4, <1>5, Zenon DEF PInv

\* perf_reader_event_read leaves the readers alone.
LEMMA ReadGoesOn == ASSUME PInv, NEW id \in call.left, event_read(id) PROVE PInv'
<1>1. /\ call.op = "read" /\ id \in live /\ ready' = ready \ {id} /\ damage' = FALSE
      /\ UNCHANGED <<epfd_, epset, cpu_readers_, map, live, made, closeFailed>>
  BY Zenon DEF event_read, Then, PInv, ReadsLive
<1>2. /\ call' = [op |-> call'.op, left |-> call'.left]
      /\ \/ call'.op = "none"
         \/ call'.op = "read" /\ call'.left = call.left \ {id}
  BY <1>1, Zenon DEF event_read, Then, OrIdle, Rest, Idle
<1>3. Shape'
  BY <1>1, <1>2, Zenon DEF PInv, Shape, Closings
<1>4. Leakless' /\ Sound' /\ ReadsLive'
  BY <1>1, <1>2 DEF PInv, Leakless, Sound, ReadsLive, Closings, Recorded
<1>5. Opening'
  BY <1>1, <1>2 DEF PInv, Opening, OpenOn, Closings, Recorded
<1> QED BY <1>3, <1>4, <1>5, Zenon DEF PInv

\* Every step keeps the invariant.
LEMMA PInvNext == ASSUME PInv, [Next]_vars PROVE PInv'
<1>1. CASE UNCHANGED vars
  BY <1>1 DEF vars, PInv, Shape, Leakless, Opening, OpenOn, Sound, ReadsLive, Recorded
<1>2. CASE close_perf_buffer \/ detach_all
  <2>1. PICK op \in Closings : Closing(op)
    BY <1>2, Zenon DEF close_perf_buffer, detach_all, Closings
  <2>2. UNCHANGED <<cpu_readers_, map, live, made, ready, damage, closeFailed>>
    BY <1>2, Zenon DEF close_perf_buffer, detach_all
  <2>3. made' \in Nat /\ made <= made' /\ map' \in [Cpus -> Nat]
    BY <2>2 DEF PInv, Shape
  <2> QED BY <2>1, <2>2, <2>3, ClosingBegins, Zenon
<1>3. CASE \E c \in Cpus : Output(c)
  <2>1. /\ ready' \subseteq live
        /\ UNCHANGED <<epfd_, epset, cpu_readers_, map, live, made, call, damage, closeFailed>>
    BY <1>3, Zenon DEF Output, PInv, Shape
  <2> QED BY <2>1 DEF PInv, Shape, Leakless, Opening, OpenOn, Sound, ReadsLive, Recorded
<1>4. CASE Steps
  BY <1>4, OpenGoesOn, OpenFailing, CloseGoesOn, ReadGoesOn, CloseEnds, Zenon DEF Steps
<1> QED BY <1>1, <1>2, <1>3, <1>4, OpenBegins, ReadBegins, Zenon DEF Next

\* For every number of CPUs and whichever calls fail, a reader that is allocated
\* is in cpu_readers_: open_on_cpu's error paths and close_all_cpu leak none.
THEOREM NoLeak == Spec => []NoReaderLeak
<1>1. PInv => NoReaderLeak
  BY Zenon DEF PInv, Leakless, Recorded, NoReaderLeak
<1> QED BY PInvInit, PInvNext, <1>1, PTL DEF Spec

\* For every number of CPUs and whichever calls fail, between calls the buffer is
\* open on every CPU or its epoll descriptor is closed.
THEOREM OpenEverywhere == Spec => []OpenIsComplete
<1>1. PInv => OpenIsComplete
  <2> SUFFICES ASSUME PInv, call.op = "none", epfd_
               PROVE  /\ \A c \in Cpus : map[c] = cpu_readers_[c] /\ cpu_readers_[c] \in live \cap epset
                      /\ epset = {cpu_readers_[c] : c \in OpenCpus}
    BY Zenon DEF OpenIsComplete
  <2>1. (\A c \in Cpus : OpenOn(c)) /\ epset = Recorded(Cpus)
    BY Zenon DEF PInv, Opening
  <2>2. \A c \in Cpus : cpu_readers_[c] # None
    BY <2>1 DEF PInv, Shape, OpenOn
  <2>3. OpenCpus = Cpus
    BY <2>2, Zenon DEF OpenCpus
  <2> QED BY <2>1, <2>3, Zenon DEF OpenOn, Recorded
<1> QED BY PInvInit, PInvNext, <1>1, PTL DEF Spec

\* A freed reader is used again only after close_on_cpu failed to remove an entry
\* from the map and kept its pointer.
THEOREM NeverFreedTwice == Spec => FreedOnce
<1>1. ASSUME PInv, [Next]_vars PROVE [damage' => damage \/ closeFailed]_vars
  <2> SUFFICES ASSUME Next, damage', ~closeFailed PROVE damage
    BY <1>1, Zenon
  <2>1. CASE \E c \in Cpus : close_on_cpu(c)
    <3>1. PICK c \in Cpus : close_on_cpu(c)
      BY <2>1, Zenon
    <3>2. cpu_readers_[c] \in live
      BY <1>1, <3>1, Zenon DEF close_on_cpu, IsNext, PInv, Sound, Closings
    <3> QED BY <3>1, <3>2, Zenon DEF close_on_cpu, Then
  <2>2. CASE \E id \in call.left : event_read(id)
    BY <1>1, <2>2, Zenon DEF event_read, Then, PInv, ReadsLive
  <2> QED BY <2>1, <2>2, Zenon DEF Next, Steps, open_perf_buffer, close_perf_buffer, detach_all,
          poll, consume, open_on_cpu, OpenFails, CloseDone, Output
<1> QED BY PInvInit, PInvNext, <1>1, PTL DEF Spec, FreedOnce

-----------------------------------------------------------------------------
(* The bounds on readers and on what epoll waits for.                       *)

\* The readers still to be made fit, and epoll waits for recorded readers only.
Bounded ==
  /\ registered \in BOOLEAN /\ made <= MaxReaders
  /\ \A c \in Cpus : map[c] <= made
  /\ epset \subseteq 1..made /\ epset \subseteq Recorded(Cpus)
  /\ call.op = "open" => made + Cardinality(call.left) <= MaxReaders

\* The CPUs of a loop are finitely many.
LEMMA LoopIsFinite ==
  /\ IsFiniteSet(Cpus) /\ Cardinality(Cpus) = NCpus
  /\ \A S \in SUBSET Cpus : IsFiniteSet(S) /\ Cardinality(S) \in Nat
  /\ \A S \in SUBSET Cpus : \A c \in S : Cardinality(S \ {c}) = Cardinality(S) - 1
                                         /\ Cardinality(S) >= 1
<1>1. IsFiniteSet(Cpus) /\ Cardinality(Cpus) = NCpus
  BY PerfBufferAssumption, FS_Interval DEF Cpus
<1>2. ASSUME NEW S \in SUBSET Cpus PROVE IsFiniteSet(S) /\ Cardinality(S) \in Nat
  BY <1>1, FS_Subset, FS_CardinalityType, Zenon
<1>3. ASSUME NEW S \in SUBSET Cpus, NEW c \in S
      PROVE  Cardinality(S \ {c}) = Cardinality(S) - 1 /\ Cardinality(S) >= 1
  <2>1. Cardinality(S \ {c}) = Cardinality(S) - 1
    BY <1>2, FS_RemoveElement, Zenon
  <2>2. Cardinality(S \ {c}) \in Nat /\ Cardinality(S) \in Nat
    BY <1>2, Zenon
  <2> QED BY <2>1, <2>2
<1> QED BY <1>1, <1>2, <1>3, Zenon

\* No reader is made yet.
LEMMA BoundedInit == Init => Bounded
<1> SUFFICES ASSUME Init PROVE Bounded
  BY Zenon
<1>1. registered \in BOOLEAN
  BY Zenon DEF Init
<1>2. made = 0 /\ epset = {} /\ call.op = "none" /\ \A c \in Cpus : map[c] = 0
  BY Zenon DEF Init, Idle
<1> QED BY <1>1, <1>2, PerfBufferAssumption DEF Bounded

\* Opening makes a reader for each CPU that is left.
LEMMA BoundedOpening ==
  ASSUME PInv, Bounded, NEW c \in Cpus, open_on_cpu(c) \/ OpenFails(c)
  PROVE  Bounded'
<1>1. /\ call.op = "open" /\ c \in call.left /\ call.left \subseteq Cpus
      /\ registered' = registered /\ made \in Nat /\ MaxReaders \in Nat
      /\ cpu_readers_ \in [Cpus -> Nat] /\ map \in [Cpus -> Nat]
  BY PerfBufferAssumption, Zenon DEF open_on_cpu, OpenFails, IsNext, PInv, Shape
<1>2. /\ Cardinality(call.left) \in Nat /\ Cardinality(call.left) >= 1
      /\ Cardinality(call.left \ {c}) = Cardinality(call.left) - 1
  BY <1>1, LoopIsFinite, Zenon
<1>3. made + Cardinality(call.left) <= MaxReaders
  BY <1>1, Zenon DEF Bounded
<1>4. CASE OpenFails(c)
  <2>1. /\ made' \in {made, made + 1} /\ call'.op = "close" /\ epset' = {}
        /\ map' = map \/ (made' = made + 1 /\ map' = [map EXCEPT ![c] = made + 1])
    BY <1>4, Zenon DEF OpenFails, Closing
  <2>2. made' \in Nat /\ made <= made' /\ made' <= MaxReaders
    BY <1>1, <1>2, <1>3, <2>1
  <2>3. \A d \in Cpus : map'[d] <= made'
    <3>1. \A d \in Cpus : map[d] \in Nat /\ map[d] <= made
      BY <1>1, Zenon DEF Bounded
    <3> QED BY <1>1, <2>1, <2>2, <3>1
  <2> QED BY <1>1, <2>1, <2>2, <2>3, Zenon DEF Bounded
<1>5. CASE open_on_cpu(c)
  <2>1. /\ made' = made + 1 /\ map' = [map EXCEPT ![c] = made + 1]
        /\ epset' = epset \cup {made + 1}
        /\ cpu_readers_' = [cpu_readers_ EXCEPT ![c] = made + 1]
        /\ call' = OrIdle("open", call.left \ {c})
    BY <1>5, Zenon DEF open_on_cpu, Register, Watch, Rest
  <2>2. cpu_readers_[c] = None
    BY <1>1, Zenon DEF PInv, Opening
  <2>3. made' <= MaxReaders /\ \A d \in Cpus : map'[d] <= made'
    <3>1. \A d \in Cpus : map[d] \in Nat /\ map[d] <= made
      BY <1>1, Zenon DEF Bounded
    <3> QED BY <1>1, <1>2, <1>3, <2>1, <3>1
  <2>4. epset' \subseteq 1..made'
    BY <1>1, <2>1 DEF Bounded
  <2>5. epset' \subseteq {cpu_readers_'[d] : d \in Cpus}
    <3>1. cpu_readers_'[c] = made + 1
      BY <1>1, <2>1, Zenon
    <3>2. ASSUME NEW id \in epset PROVE \E d \in Cpus : id = cpu_readers_'[d]
      <4>1. PICK d \in Cpus : id = cpu_readers_[d]
        BY Zenon DEF Bounded, Recorded
      <4>2. id # 0
        BY <1>1 DEF Bounded
      <4> QED BY <1>1, <2>1, <2>2, <4>1, <4>2, Zenon
    <3> QED BY <2>1, <3>1, <3>2, Zenon
  <2>6. call'.op = "open" => made' + Cardinality(call'.left) <= MaxReaders
    <3>1. call'.op = "open" => call'.left = call.left \ {c}
      BY <2>1, Zenon DEF OrIdle, Idle
    <3>2. (made + 1) + (Cardinality(call.left) - 1) <= MaxReaders
      BY <1>1, <1>2, <1>3
    <3>3. made' + Cardinality(call.left \ {c}) <= MaxReaders
      BY <1>2, <2>1, <3>2, Zenon
    <3> QED BY <3>1, <3>3, Zenon
  <2> QED BY <1>1, <2>3, <2>4, <2>5, <2>6, Zenon DEF Bounded, Recorded
<1> QED BY <1>4, <1>5, Zenon

\* No other step makes a reader.
LEMMA BoundedNext == ASSUME PInv, Bounded, [Next]_vars PROVE Bounded'
<1>1. CASE UNCHANGED vars
  BY <1>1, Zenon DEF vars, Bounded, Recorded
<1>2. CASE open_perf_buffer
  <2>1. /\ registered' = TRUE /\ made + NCpus <= MaxReaders
        /\ UNCHANGED call \/ call' = Call("open", Cpus)
        /\ UNCHANGED <<epset, cpu_readers_, map, made>>
    BY <1>2, Zenon DEF open_perf_buffer
  <2>2. registered' \in BOOLEAN
    BY <2>1, Zenon
  <2>3. call'.op = "open" => made' + Cardinality(call'.left) <= MaxReaders
    BY <2>1, LoopIsFinite DEF Bounded
  <2> QED BY <2>1, <2>2, <2>3, Zenon DEF Bounded, Recorded
<1>3. CASE close_perf_buffer \/ detach_all
  BY <1>3 DEF close_perf_buffer, detach_all, Closing, Bounded, Recorded
<1>4. CASE poll \/ consume \/ (\E c \in Cpus : Output(c))
  <2>1. /\ UNCHANGED <<registered, epset, cpu_readers_, map, made>>
        /\ UNCHANGED call \/ call'.op = "read"
    BY <1>4 DEF poll, consume, Output
  <2> QED BY <2>1, Zenon DEF Bounded, Recorded
<1>5. ASSUME NEW id \in call.left, event_read(id) PROVE Bounded'
  BY <1>5, Zenon DEF event_read, Then, OrIdle, Idle, Bounded, Recorded
<1>6. ASSUME NEW c \in Cpus, close_on_cpu(c) PROVE Bounded'
  <2>1. /\ call.op \in Closings /\ epset = {} /\ UNCHANGED <<registered, epset, made>>
        /\ map' = map \/ map' = [map EXCEPT ![c] = None]
    BY <1>6, Zenon DEF close_on_cpu, Closings, Then, PInv, Opening
  <2>2. \A d \in Cpus : map'[d] <= made'
    <3>1. map \in [Cpus -> Nat] /\ made \in Nat /\ \A d \in Cpus : map[d] <= made
      BY Zenon DEF PInv, Shape, Bounded
    <3> QED BY <2>1, <3>1
  <2>3. call'.op # "open"
    BY <1>6, Zenon DEF close_on_cpu, Then
  <2> QED BY <2>1, <2>2, <2>3, Zenon DEF Bounded
<1>7. CASE CloseDone
  <2>1. /\ call.op \in Closings /\ epset = {} /\ UNCHANGED <<epset, map, made>>
        /\ registered' \in {registered, FALSE}
    BY <1>7, Zenon DEF CloseDone, Closings, PInv, Opening
  <2>2. call'.op # "open"
    BY <1>7, Zenon DEF CloseDone, Idle
  <2>3. registered' \in BOOLEAN
    <3>1. registered' = registered \/ registered' = FALSE
      BY <2>1, Zenon
    <3> QED BY <3>1, Zenon DEF Bounded
  <2> QED BY <2>1, <2>2, <2>3, Zenon DEF Bounded
<1> QED BY <1>1, <1>2, <1>3, <1>4, <1>5, <1>6, <1>7, BoundedOpening, Zenon DEF Next, Steps

\* For every number of CPUs the state is well formed and epoll waits on no more
\* readers than there are CPUs, so that the array of cpu_readers_.size() events
\* holds all that are ready.
THEOREM TypeOKHolds == Spec => []TypeOK
<1>1. PInv /\ Bounded => TypeOK
  <2> SUFFICES ASSUME PInv, Bounded PROVE TypeOK
    BY Zenon
  <2>1. made \in 0..MaxReaders /\ 1..made \subseteq Ids
    BY PerfBufferAssumption DEF PInv, Shape, Bounded, Ids
  <2>2. cpu_readers_ \in [Cpus -> Ids \cup {None}] /\ map \in [Cpus -> Ids \cup {None}]
    BY <2>1 DEF PInv, Shape, Bounded, Ids
  <2>3. Cardinality(epset) <= NCpus
    <3> DEFINE R == Recorded(Cpus)
               f == [c \in Cpus |-> cpu_readers_[c]]
    <3>1. f \in Surjection(Cpus, R)
      BY Zenon DEF Surjection, Recorded
    <3> HIDE DEF f, R
    <3>2. IsFiniteSet(R) /\ Cardinality(R) <= NCpus
      BY <3>1, LoopIsFinite, FS_Surjection, Zenon
    <3>3. epset \in SUBSET R
      BY Zenon DEF Bounded, R
    <3>4. Cardinality(epset) <= Cardinality(R) /\ Cardinality(epset) \in Nat
          /\ Cardinality(R) \in Nat
      BY <3>2, <3>3, FS_Subset, FS_CardinalityType, Zenon
    <3> QED BY <3>2, <3>4, PerfBufferAssumption
  <2> QED BY <2>1, <2>2, <2>3, Zenon DEF PInv, Shape, Bounded, TypeOK, Closings
<1>2. PInv /\ Bounded /\ [Next]_vars => PInv' /\ Bounded'
  BY PInvNext, BoundedNext, Zenon
<1> QED BY PInvInit, BoundedInit, <1>1, <1>2, PTL DEF Spec
=============================================================================
