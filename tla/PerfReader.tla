----------------------------- MODULE PerfReader -----------------------------
(***************************************************************************)
(* src/cc/perf_reader.c: one per-CPU perf ring buffer, mapped into the     *)
(* process, filled by the kernel and drained by perf_reader_event_read.    *)
(*                                                                         *)
(* Several threads may call perf_reader_poll or perf_reader_consume on the *)
(* reader, and perf_reader_free may be called by another thread or from    *)
(* inside a callback.  rb_use_state and rb_read_tid are the only           *)
(* synchronisation.  Ring memory is counted in 8-byte words: the perf ABI  *)
(* keeps every record a multiple of 8 bytes.                               *)
(***************************************************************************)
EXTENDS Integers, Sequences

CONSTANTS
  Threads,       \* threads of the process
  Pollers,       \* threads that poll or consume the reader
  Freers,        \* threads that may call perf_reader_free from outside a callback
  CallbackFrees, \* may a callback free the reader and end the process?
  NoTid,         \* rb_read_tid = 0
  Size,          \* words in the ring (page_size * page_cnt / 8)
  SampleSizes,   \* sizes in words of the sample records the programs emit
  WakeupEvents,  \* perf_event_attr.wakeup_events
  MaxSamples     \* bound: samples emitted in a behaviour

ASSUME ThreadsAssumption ==
  /\ Pollers \subseteq Threads
  /\ Freers \subseteq Threads
  /\ CallbackFrees \in BOOLEAN
  /\ NoTid \notin Threads

ASSUME SizeAssumption ==
  /\ Size \in Nat \ {0}
  /\ WakeupEvents \in Nat \ {0}
  /\ MaxSamples \in Nat
  /\ SampleSizes \subseteq (Nat \ {0, 1})

\* header, id, lost: struct perf_event_header and two u64.
LostSize == 3

VARIABLES
  rb_use_state, \* NOT_USED, IN_MUNMAP or IN_READ
  rb_read_tid,  \* thread that last entered perf_reader_event_read
  mapped,       \* base is mapped
  allocated,    \* the struct perf_reader is live
  status,       \* the process: running, exited or crashed on a bad access
  pc,           \* [Threads -> line reached]
  view,         \* [Threads -> what ptr, begin and e->size of the loop denote]
  inCallback,   \* threads whose perf_reader_free runs inside a callback
  ring,         \* [0..Size-1 -> word]
  data_head,    \* perf_event_mmap_page.data_head
  data_tail,    \* perf_event_mmap_page.data_tail
  khead,        \* the kernel's write position, published later as data_head
  klost,        \* samples the kernel dropped and has not reported yet
  kevents,      \* outputs since the last wakeup
  pollin,       \* the next poll returns POLLIN
  unread,       \* history: the words between data_tail and khead, in order
  emitted,      \* history: samples emitted by the programs
  position,     \* history: last sample known to the user
  called,       \* history: the last callback and its argument
  refused       \* history: line 169 sent a thread away since the ring was last drained

lockVars == <<rb_use_state, rb_read_tid, mapped, allocated, status, inCallback>>
kernelVars == <<data_head, khead, klost, kevents, pollin, emitted>>
vars == <<lockVars, pc, view, ring, data_tail, kernelVars, unread, position, called,
          refused>>

-----------------------------------------------------------------------------
(* Records and words.  The k-th word of a record r is [rec |-> r, word |-> k]. *)

Record(type, size, val) == [type |-> type, size |-> size, val |-> val]
Words(r) == [k \in 1..r.size |-> [rec |-> r, word |-> k]]
NoWord == [rec |-> Record("NONE", 0, 0), word |-> 0]
NoView == [begin |-> 0, size |-> 0, copied |-> FALSE, buf |-> <<>>]

\* A load at word i of the data pages; past the sentinel lies other memory.
Load(i) == IF i < Size THEN ring[i] ELSE NoWord

\* Lines 185-192: where the record at begin is read from.  A record whose end
\* lies before its begin wraps and is copied in two pieces.
WrapsMutant(begin, size) == begin + size > Size + 1
Wraps(begin, size) == (begin + size) % Size < begin

Copy(begin, size) ==
  LET len == Size - begin
  IN  [k \in 1..size |-> IF k <= len THEN ring[begin + k - 1] ELSE ring[k - len - 1]]

\* The words at ptr while the callback runs: reader->buf, or the ring itself.
Data(v) == IF v.copied THEN v.buf ELSE [k \in 1..v.size |-> Load(v.begin + k - 1)]

\* Line 203: the u64 two words into a LOST record.
LostCountMutant(data) == IF data[2].word = 3 THEN data[2].rec.val ELSE 0
LostCount(data) == IF data[3].word = 3 THEN data[3].rec.val ELSE 0

\* parse_sw: the raw size found in word 2 must fill the record exactly.
RawSize(data) == IF data[2].word = 2 THEN data[2].rec.size - 1 ELSE 0
parse_sw(data, size) == 1 <= size /\ 1 + RawSize(data) = size

-----------------------------------------------------------------------------
Init ==
  /\ rb_use_state = "NOT_USED"
  /\ rb_read_tid = NoTid
  /\ mapped = TRUE
  /\ allocated = TRUE
  /\ status = "running"
  /\ pc = [t \in Threads |-> "idle"]
  /\ view = [t \in Threads |-> NoView]
  /\ inCallback = {}
  /\ ring = [i \in 0..(Size - 1) |-> NoWord]
  /\ data_head = 0 /\ data_tail = 0 /\ khead = 0
  /\ klost = 0 /\ kevents = 0 /\ pollin = FALSE
  /\ unread = <<>>
  /\ emitted = 0 /\ position = 0 /\ called = [cb |-> "none", arg |-> 0]
  /\ refused = FALSE

-----------------------------------------------------------------------------
(* The kernel side (external): perf_event_output on this CPU.               *)

HasSpace(need) == need <= Size - (khead - data_tail) - 1

\* How far ahead of khead, going round the ring, word i of the ring lies.
Offset(i) == LET w == khead % Size IN IF i >= w THEN i - w ELSE i + Size - w

Store(words) == [i \in 0..(Size - 1) |->
                   IF Offset(i) < Len(words) THEN words[Offset(i) + 1] ELSE ring[i]]

\* No room, counting the LOST record owed to the reader: the sample is dropped.
KernelDrop ==
  /\ status = "running" /\ mapped /\ emitted < MaxSamples /\ khead = data_head
  /\ \E size \in SampleSizes : ~HasSpace(size + (IF klost > 0 THEN LostSize ELSE 0))
  /\ emitted' = emitted + 1
  /\ klost' = klost + 1
  /\ UNCHANGED <<lockVars, pc, view, ring, data_tail, data_head, khead, kevents,
                 pollin, unread, position, called, refused>>

KernelWrite ==
  /\ status = "running" /\ mapped /\ emitted < MaxSamples /\ khead = data_head
  /\ \E size \in SampleSizes :
       LET sample == Words(Record("SAMPLE", size, emitted + 1))
           words == IF klost > 0 THEN Words(Record("LOST", LostSize, klost)) \o sample
                                 ELSE sample
       IN  /\ HasSpace(Len(words))
           /\ ring' = Store(words)
           /\ khead' = khead + Len(words)
           /\ unread' = unread \o words
  /\ emitted' = emitted + 1
  /\ klost' = 0
  /\ UNCHANGED <<lockVars, pc, view, data_tail, data_head, kevents, pollin, position,
                 called, refused>>

KernelPublish ==
  /\ status = "running" /\ khead # data_head
  /\ data_head' = khead
  /\ IF kevents + 1 >= WakeupEvents
       THEN kevents' = 0 /\ pollin' = TRUE
       ELSE kevents' = kevents + 1 /\ UNCHANGED pollin
  /\ UNCHANGED <<lockVars, pc, view, ring, data_tail, khead, klost, emitted,
                 unread, position, called, refused>>

Kernel == KernelDrop \/ KernelWrite \/ KernelPublish

-----------------------------------------------------------------------------
(* perf_reader_poll, perf_reader_consume, perf_reader_event_read.           *)

At(t, l) == status = "running" /\ pc[t] = l
Goto(t, l) == pc' = [pc EXCEPT ![t] = l]

dataVars == <<view, ring, data_tail, kernelVars, unread, position, called>>
ringVars == <<dataVars, refused>>

\* poll() found POLLIN: the kernel hands the wakeup out once.
perf_reader_poll(t) ==
  /\ At(t, "idle") /\ allocated /\ pollin
  /\ pollin' = FALSE
  /\ Goto(t, "set_tid")
  /\ UNCHANGED <<lockVars, view, ring, data_tail, data_head, khead, klost, kevents,
                 emitted, unread, position, called, refused>>

perf_reader_consume(t) ==
  /\ At(t, "idle") /\ allocated
  /\ Goto(t, "set_tid")
  /\ UNCHANGED <<lockVars, ringVars>>

SetTid(t) ==
  /\ At(t, "set_tid")
  /\ rb_read_tid' = t
  /\ Goto(t, "cas")
  /\ UNCHANGED <<rb_use_state, mapped, allocated, status, inCallback, ringVars>>

\* Line 169.  If the struct has been freed the word compared is arbitrary.
MayReadMutant == rb_use_state # "IN_MUNMAP"
MayRead == rb_use_state = "NOT_USED" \/ ~allocated

CasRead(t) ==
  /\ At(t, "cas")
  /\ \/ /\ MayRead
        /\ rb_use_state' = "IN_READ" /\ Goto(t, "loop") /\ UNCHANGED refused
     \/ /\ rb_use_state # "NOT_USED" \/ ~allocated
        /\ Goto(t, "idle") /\ refused' = TRUE /\ UNCHANGED rb_use_state
  /\ UNCHANGED <<rb_read_tid, mapped, allocated, status, inCallback, dataVars>>

HasRecord == data_tail # data_head

LoopTest(t) ==
  /\ At(t, "loop") /\ mapped
  /\ Goto(t, IF HasRecord THEN "fetch" ELSE "release")
  /\ refused' = (refused /\ HasRecord)
  /\ UNCHANGED <<lockVars, dataVars>>

\* Lines 177-192: locate the record, copy it if it wraps.
Fetch(t) ==
  /\ At(t, "fetch") /\ mapped
  /\ LET begin == data_tail % Size
         size == ring[begin].rec.size
         wraps == Wraps(begin, size)
     IN  view' = [view EXCEPT ![t] =
                    [begin |-> begin, size |-> size, copied |-> wraps,
                     buf |-> IF wraps THEN Copy(begin, size) ELSE <<>>]]
  /\ Goto(t, "callback")
  /\ UNCHANGED <<lockVars, ring, data_tail, kernelVars, unread, position, called, refused>>

\* Lines 194-213 with parse_sw: the callback chosen by the record's type.
Callback(t) ==
  /\ At(t, "callback") /\ mapped
  /\ LET data == Data(view[t])
         e == ring[view[t].begin].rec
     IN  CASE e.type = "LOST" ->
                /\ position' = position + LostCount(data)
                /\ called' = [cb |-> "lost", arg |-> LostCount(data)]
           [] e.type = "SAMPLE" /\ parse_sw(data, e.size) ->
                /\ position' = data[2].rec.val
                /\ called' = [cb |-> "raw", arg |-> data[2].rec.val]
           [] OTHER -> UNCHANGED <<position, called>>
  /\ Goto(t, "advance")
  /\ UNCHANGED <<lockVars, view, ring, data_tail, kernelVars, unread, refused>>

\* Line 215: e->size is read from the ring again.
TailAfterMutant(size) == data_tail + size + 1
TailAfter(size) == data_tail + size

AdvanceTail(t) ==
  /\ At(t, "advance") /\ mapped
  /\ LET size == ring[view[t].begin].rec.size
     IN  /\ data_tail' = TailAfter(size)
         /\ unread' = SubSeq(unread, size + 1, Len(unread))
  /\ view' = [view EXCEPT ![t] = NoView]
  /\ Goto(t, "loop")
  /\ UNCHANGED <<lockVars, ring, kernelVars, position, called, refused>>

Release(t) ==
  /\ At(t, "release")
  /\ rb_use_state' = IF allocated THEN "NOT_USED" ELSE rb_use_state
  /\ Goto(t, "clear_tid")
  /\ UNCHANGED <<rb_read_tid, mapped, allocated, status, inCallback, ringVars>>

ClearTid(t) ==
  /\ At(t, "clear_tid")
  /\ rb_read_tid' = NoTid
  /\ Goto(t, "idle")
  /\ UNCHANGED <<rb_use_state, mapped, allocated, status, inCallback, ringVars>>

\* A load or store to the ring after munmap ends the process.
Fault(t) ==
  /\ status = "running" /\ pc[t] \in {"loop", "fetch", "callback", "advance"}
  /\ t \notin inCallback /\ ~mapped
  /\ status' = "crashed"
  /\ UNCHANGED <<rb_use_state, rb_read_tid, mapped, allocated, inCallback, pc, ringVars>>
-----------------------------------------------------------------------------
(* perf_reader_free.  Callers hand the pointer to it once.                  *)

FreeSteps == {"free_cas", "free_tid", "munmap", "dealloc"}
MayFree == allocated /\ \A u \in Threads : pc[u] \notin FreeSteps

perf_reader_free(t) ==
  /\ At(t, "idle") /\ MayFree
  /\ Goto(t, "free_cas")
  /\ UNCHANGED <<lockVars, ringVars>>

\* A callback tears the reader down; the process exits before it returns.
CallbackFree(t) ==
  /\ CallbackFrees /\ At(t, "callback") /\ mapped /\ MayFree
  /\ inCallback' = inCallback \cup {t}
  /\ Goto(t, "free_cas")
  /\ UNCHANGED <<rb_use_state, rb_read_tid, mapped, allocated, status, ringVars>>

\* Line 73.
CasMunmap(t) ==
  /\ At(t, "free_cas")
  /\ IF rb_use_state = "NOT_USED"
       THEN rb_use_state' = "IN_MUNMAP" /\ Goto(t, "munmap")
       ELSE Goto(t, "free_tid") /\ UNCHANGED rb_use_state
  /\ UNCHANGED <<rb_read_tid, mapped, allocated, status, inCallback, ringVars>>

\* Lines 75-76: the only way past a reader in its loop.
CalledFromReaderMutant(t) == rb_read_tid # NoTid
CalledFromReader(t) == rb_read_tid = t

CompareTid(t) ==
  /\ At(t, "free_tid")
  /\ Goto(t, IF CalledFromReader(t) THEN "munmap" ELSE "free_cas")
  /\ UNCHANGED <<lockVars, ringVars>>

\* Lines 78-82: unmap, disable and close the event.
Munmap(t) ==
  /\ At(t, "munmap")
  /\ mapped' = FALSE
  /\ Goto(t, "dealloc")
  /\ UNCHANGED <<rb_use_state, rb_read_tid, allocated, status, inCallback, ringVars>>

\* Lines 83-84, and for a callback the exit of the process.
Dealloc(t) ==
  /\ At(t, "dealloc")
  /\ allocated' = FALSE
  /\ status' = IF t \in inCallback THEN "exited" ELSE status
  /\ Goto(t, "idle")
  /\ UNCHANGED <<rb_use_state, rb_read_tid, mapped, inCallback, ringVars>>

-----------------------------------------------------------------------------
\* The steps of a call of perf_reader_event_read, once entered.
EventRead(t) == \/ SetTid(t) \/ CasRead(t) \/ LoopTest(t) \/ Fetch(t)
                \/ Callback(t) \/ AdvanceTail(t) \/ Release(t) \/ ClearTid(t)
                \/ Fault(t)

\* The steps of a call of perf_reader_free, once entered.
Free(t) == CasMunmap(t) \/ CompareTid(t) \/ Munmap(t) \/ Dealloc(t)

Next ==
  \/ Kernel
  \/ \E t \in Pollers : perf_reader_poll(t) \/ perf_reader_consume(t) \/ CallbackFree(t)
  \/ \E t \in Freers : perf_reader_free(t)
  \/ \E t \in Threads : EventRead(t) \/ Free(t)

Spec == Init /\ [][Next]_vars

\* A thread inside the library runs on, a waiting poll sees POLLIN, and the
\* kernel finishes an output it began.  Nobody need emit, consume or free.
Fairness ==
  /\ WF_vars(KernelPublish)
  /\ \A t \in Pollers : WF_vars(perf_reader_poll(t))
  /\ \A t \in Threads : WF_vars(EventRead(t)) /\ WF_vars(Free(t))

FairSpec == Spec /\ Fairness

-----------------------------------------------------------------------------
(* Properties.                                                              *)

Lines == {"idle", "set_tid", "cas", "loop", "fetch", "callback", "advance",
          "release", "clear_tid"} \cup FreeSteps

LockTypeOK ==
  /\ rb_use_state \in {"NOT_USED", "IN_MUNMAP", "IN_READ"}
  /\ rb_read_tid \in Threads \cup {NoTid}
  /\ mapped \in BOOLEAN /\ allocated \in BOOLEAN
  /\ status \in {"running", "exited", "crashed"}
  /\ pc \in [Threads -> Lines]
  /\ inCallback \subseteq Threads

RingTypeOK ==
  /\ data_tail \in 0..data_head /\ data_head \in 0..khead
  /\ khead \in data_tail..(data_tail + Size - 1)
  /\ DOMAIN ring = 0..(Size - 1)
  /\ klost \in Nat /\ kevents \in Nat /\ pollin \in BOOLEAN
  /\ emitted \in Nat /\ position \in Nat

\* The state is well formed; in particular data_tail never passes data_head
\* (line 215) and the ring never holds more than its size.
TypeOK == LockTypeOK /\ RingTypeOK /\ refused \in BOOLEAN

\* t is between its successful compare-and-swap (line 169) and line 217.
Reading(t) == \/ pc[t] \in {"loop", "fetch", "callback", "advance", "release"}
              \/ t \in inCallback

\* While the reader is live, no two threads are in the read loop together.
OneReader ==
  allocated => \A t, u \in Threads : Reading(t) /\ Reading(u) => t = u

\* perf_reader_free unmaps the ring only when no other thread is in the read
\* loop: it either took rb_use_state or runs inside that loop's own callback.
UnmapExcludesReaders ==
  \A t, u \in Threads : pc[t] = "munmap" /\ t # u => ~Reading(u)

\* During a callback the words at ptr are those of one record, the oldest one
\* the kernel published: a wrapped record is put together correctly (lines
\* 185-192), and the kernel does not reuse the space before line 215.
CallbackSeesOldestRecord ==
  \A t \in Threads :
    pc[t] = "callback" /\ mapped =>
      Data(view[t]) = Words(unread[1].rec)

\* The callbacks and the kernel together implement the stream PerfStream
\* describes: samples in order, each gap reported with its exact size.
Stream == INSTANCE PerfStream WITH emitted <- emitted, position <- position, called <- called
StreamRefinement == Stream!StreamSpec


\* The comment of line 74: a free called from a callback needs no locking, so
\* it does not wait for the read loop it was called from.  With two pollers it may.
CallbackFreeTerminates ==
  \A t \in Threads : (t \in inCallback) ~> (status # "running")

\* The comment of line 74, read the other way: a thread that passes the check
\* of line 75 is in a callback of the read loop.
SameThreadIsInCallback ==
  [][\A t \in Threads : pc[t] = "free_tid" /\ pc'[t] = "munmap" => t \in inCallback]_vars
=============================================================================
