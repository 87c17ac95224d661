----------------------------- MODULE PerfBuffer -----------------------------
(***************************************************************************)
(* A perf buffer of the C++ API: one entry of BPF::perf_buffers_           *)
(* (src/cc/api/BPF.cc) and its BPFPerfBuffer (src/cc/api/BPFTable.cc), the *)
(* perf readers it makes for the CPUs, the BPF map that names their        *)
(* descriptors and the epoll set that waits for them.                      *)
(***************************************************************************)
EXTENDS Integers, FiniteSets

CONSTANTS
  NCpus,           \* online CPUs 1..NCpus, opened and closed in this order
  MaxReaders,      \* perf readers made in a behaviour
  Faults           \* calls that may fail

ASSUME PerfBufferAssumption ==
  /\ NCpus \in Nat \ {0} /\ MaxReaders \in Nat
  /\ Faults \subseteq {"page_cnt", "epoll_create", "open", "update", "epoll_ctl",
                       "remove"}

Cpus == 1..NCpus
Ids == 1..MaxReaders
None == 0

VARIABLES
  registered,   \* perf_buffers_ has the entry
  epfd_,        \* the epoll descriptor is open
  epset,        \* readers registered with it
  cpu_readers_, \* [Cpus -> reader or None]
  map,          \* the BPF map: [Cpus -> reader whose event it holds, or None]
  live,         \* readers allocated and mapped
  made,         \* readers made so far; the last one is the newest
  ready,        \* readers with unread records
  call,         \* the API call in progress
  damage,       \* history: a freed reader was freed again, or read
  closeFailed   \* history: close_on_cpu returned an error

vars == <<registered, epfd_, epset, cpu_readers_, map, live, made, ready, call,
          damage, closeFailed>>

May(fault) == fault \in Faults
Idle == [op |-> "none", left |-> {}]
Call(op, left) == [op |-> op, left |-> left]
In(op) == call.op = op
InSome(ops) == call.op \in ops
OpenCpus == {c \in Cpus : cpu_readers_[c] # None}

\* The next CPU of a loop, and the call after it; the last one ends the call.
IsNext(c) == c \in call.left /\ \A d \in call.left : c <= d
Rest(x) == call.left \ {x}
OrIdle(op, left) == IF left = {} THEN Idle ELSE Call(op, left)

Init ==
  /\ registered = FALSE /\ epfd_ = FALSE /\ epset = {}
  /\ cpu_readers_ = [c \in Cpus |-> None]
  /\ map = [c \in Cpus |-> None]
  /\ live = {} /\ made = 0 /\ ready = {}
  /\ call = Idle /\ damage = FALSE /\ closeFailed = FALSE

\* perf_reader_free: the ring is unmapped and the descriptor closed.
Free(id) == /\ live' = live \ {id}
            /\ ready' = ready \ {id}

\* What follows the use of a reader; a freed one ends what can be said.
Then(id, next) == /\ damage' = (id \notin live)
                  /\ call' = IF id \in live THEN next ELSE Call("crashed", {})

-----------------------------------------------------------------------------
(* open_perf_buffer, open_all_cpu, open_on_cpu, bpf_open_perf_buffer_opts.  *)

NotCleaned == OpenCpus # {} \/ epfd_

open_perf_buffer ==
  /\ In("none") /\ made + NCpus <= MaxReaders
  /\ registered' = TRUE
  /\ \/ /\ May("page_cnt") \/ NotCleaned
        /\ UNCHANGED <<epfd_, call>>
     \/ /\ ~NotCleaned
        /\ epfd_' \in IF May("epoll_create") THEN BOOLEAN ELSE {TRUE}
        /\ call' = Call("open", Cpus)
  /\ UNCHANGED <<epset, cpu_readers_, map, live, made, ready, damage, closeFailed>>

\* close_all_cpu closes the epoll descriptor, then every CPU found open.
ClosingMutant(op) ==
  /\ epfd_' = FALSE /\ UNCHANGED epset
  /\ call' = Call(op, OpenCpus)
Closing(op) ==
  /\ epfd_' = FALSE /\ epset' = {}
  /\ call' = Call(op, OpenCpus)

\* A failure before the reader is recorded frees it again; after a failing
\* epoll_ctl the map keeps the entry.  Then open_all_cpu closes the others.
FreeUnrecordedMutant(id) == live' = live \cup {id}
FreeUnrecorded(id) == UNCHANGED live

OpenFails(c) ==
  /\ In("open") /\ IsNext(c)
  /\ \/ May("open") /\ UNCHANGED <<made, map, live>>
     \/ May("update") /\ made' = made + 1 /\ FreeUnrecorded(made') /\ UNCHANGED map
     \/ /\ May("epoll_ctl") \/ ~epfd_
        /\ made' = made + 1 /\ FreeUnrecorded(made')
        /\ map' = [map EXCEPT ![c] = made + 1]
  /\ Closing("close")
  /\ UNCHANGED <<registered, cpu_readers_, ready, damage, closeFailed>>

\* The reader is in the map, in the epoll set and in cpu_readers_.
RegisterMutant(c, id) == map' = [map EXCEPT ![c] = IF map[c] = None THEN id ELSE map[c]]
Register(c, id) == map' = [map EXCEPT ![c] = id]
WatchMutant(id) == UNCHANGED epset
Watch(id) == epset' = epset \cup {id}

open_on_cpu(c) ==
  /\ In("open") /\ IsNext(c) /\ epfd_
  /\ made' = made + 1
  /\ live' = live \cup {made'}
  /\ Register(c, made')
  /\ Watch(made')
  /\ cpu_readers_' = [cpu_readers_ EXCEPT ![c] = made']
  /\ call' = OrIdle("open", Rest(c))
  /\ UNCHANGED <<registered, epfd_, ready, damage, closeFailed>>

-----------------------------------------------------------------------------
(* close_perf_buffer, close_all_cpu, close_on_cpu, detach_all.              *)

close_perf_buffer ==
  /\ In("none") /\ registered
  /\ Closing("close")
  /\ UNCHANGED <<registered, cpu_readers_, map, live, made, ready, damage, closeFailed>>

\* detach_all: close_all_cpu, then delete, whose destructor closes all again.
detach_all ==
  /\ In("none") /\ registered
  /\ Closing("destroy")
  /\ UNCHANGED <<registered, cpu_readers_, map, live, made, ready, damage, closeFailed>>

\* The reader is freed first; if the map's entry cannot be removed, the pointer
\* stays in cpu_readers_.
ForgetMutant(c) == UNCHANGED cpu_readers_
Forget(c) == cpu_readers_' = [cpu_readers_ EXCEPT ![c] = None]

close_on_cpu(c) ==
  /\ InSome({"close", "destroy", "delete"}) /\ IsNext(c)
  /\ Free(cpu_readers_[c])
  /\ \/ /\ map[c] # None
        /\ map' = [map EXCEPT ![c] = None]
        /\ Forget(c) /\ UNCHANGED closeFailed
     \/ /\ map[c] = None \/ May("remove")
        /\ closeFailed' = TRUE
        /\ UNCHANGED <<map, cpu_readers_>>
  /\ Then(cpu_readers_[c], Call(call.op, Rest(c)))
  /\ UNCHANGED <<registered, epfd_, epset, made>>

\* The end of the loop; for detach_all the entry is deleted.
CloseDone ==
  /\ InSome({"close", "destroy", "delete"}) /\ call.left = {}
  /\ call' = CASE In("close") -> Idle
                [] In("destroy") -> Call("delete", OpenCpus)
                [] In("delete") -> Call("gone", {})
  /\ IF In("delete")
       THEN registered' = FALSE /\ cpu_readers_' = [c \in Cpus |-> None]
       ELSE UNCHANGED <<registered, cpu_readers_>>
  /\ UNCHANGED <<epfd_, epset, map, live, made, ready, damage, closeFailed>>

-----------------------------------------------------------------------------
(* poll, consume, and the programs that write to the buffer.                *)

\* epoll_wait reports the ready readers: cpu_readers_.size() leaves room for all
\* of them (OpenIsComplete).
poll ==
  /\ In("none") /\ registered /\ epfd_ /\ OpenCpus # {}
  /\ ready \cap epset # {}
  /\ call' = Call("read", ready \cap epset)
  /\ UNCHANGED <<registered, epfd_, epset, cpu_readers_, map, live, made, ready,
                 damage, closeFailed>>

consume ==
  /\ In("none") /\ registered /\ epfd_ /\ OpenCpus # {}
  /\ call' = Call("read", {cpu_readers_[c] : c \in OpenCpus})
  /\ UNCHANGED <<registered, epfd_, epset, cpu_readers_, map, live, made, ready,
                 damage, closeFailed>>

\* perf_reader_event_read drains a ring; epoll reports them in any order.
event_read(id) ==
  /\ In("read") /\ id \in call.left
  /\ ready' = ready \ {id}
  /\ Then(id, OrIdle("read", Rest(id)))
  /\ UNCHANGED <<registered, epfd_, epset, cpu_readers_, map, live, made, closeFailed>>

\* A program outputs on a CPU (external): it lands in the reader the map names.
Output(c) ==
  /\ map[c] \in live
  /\ ready' = ready \cup {map[c]}
  /\ UNCHANGED <<registered, epfd_, epset, cpu_readers_, map, live, made, call,
                 damage, closeFailed>>

Steps == \/ \E c \in Cpus : open_on_cpu(c) \/ OpenFails(c) \/ close_on_cpu(c)
         \/ \E id \in call.left : event_read(id)
         \/ CloseDone

Next == \/ open_perf_buffer \/ close_perf_buffer \/ detach_all \/ poll \/ consume
        \/ Steps \/ \E c \in Cpus : Output(c)

Spec == Init /\ [][Next]_vars

\* A call goes on to its end, and somebody keeps polling.
FairSpec == Spec /\ WF_vars(Steps) /\ SF_vars(poll)

-----------------------------------------------------------------------------
(* Properties.                                                              *)

\* The state is well formed, and epoll never waits on more readers than there
\* are CPUs.
TypeOK ==
  /\ registered \in BOOLEAN /\ epfd_ \in BOOLEAN
  /\ cpu_readers_ \in [Cpus -> Ids \cup {None}] /\ map \in [Cpus -> Ids \cup {None}]
  /\ epset \subseteq Ids /\ live \subseteq Ids /\ ready \subseteq live
  /\ made \in 0..MaxReaders /\ damage \in BOOLEAN /\ closeFailed \in BOOLEAN
  /\ call.op \in {"none", "open", "close", "destroy", "delete", "read", "crashed",
                  "gone"}
  /\ Cardinality(epset) <= NCpus

\* Between calls a perf buffer is open on all CPUs or on none: with epfd_ open,
\* every CPU's map entry, recorded reader and epoll registration are the same
\* live reader, whatever failed in earlier opens and closes.
OpenIsComplete ==
  In("none") /\ epfd_ =>
    /\ \A c \in Cpus : map[c] = cpu_readers_[c] /\ cpu_readers_[c] \in live \cap epset
    /\ epset = {cpu_readers_[c] : c \in OpenCpus}

\* No reader outlives its record: one that is allocated is in cpu_readers_, so
\* every error path of open_on_cpu frees what it made.
NoReaderLeak == live \subseteq {cpu_readers_[c] : c \in Cpus}

\* No freed reader is freed again or read, unless close_on_cpu failed before to
\* remove a map entry.
FreedOnce == [][damage' => damage \/ closeFailed]_vars

\* What a program outputs on an open buffer is read, or the buffer is closed,
\* also after failed opens and closes: a recorded reader is always watched by the
\* current epoll set.  Only the use of a freed reader ends the promise.
OutputIsRead == \A id \in Ids : (id \in ready) ~> (id \notin ready \/ In("crashed"))
=============================================================================
