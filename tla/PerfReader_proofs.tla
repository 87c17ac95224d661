-------------------------- MODULE PerfReader_proofs --------------------------
(***************************************************************************)
(* Proofs about PerfReader, for every set of threads, every ring size and  *)
(* every mix of record sizes.  First who may use the ring: one thread at a *)
(* time reads it, and none once it is being unmapped.  Then what is in it: *)
(* it holds the unread records intact, and a callback is given the oldest  *)
(* of them.  Last the refinement of PerfStream: the records called back    *)
(* are the records emitted, in their order, the lost ones counted.         *)
(***************************************************************************)
EXTENDS PerfReader, TLAPS

-----------------------------------------------------------------------------
(* Facts about sequences. *)

\* A sequence is a function on the numbers up to its length.
LEMMA LenProperties ==
  ASSUME NEW S, NEW s \in Seq(S)
  PROVE  Len(s) \in Nat /\ s \in [1..Len(s) -> S] /\ DOMAIN s = 1..Len(s)
OBVIOUS

\* Such a function is a sequence.
LEMMA FunctionSeq ==
  ASSUME NEW S, NEW n \in Nat, NEW s \in [1..n -> S]
  PROVE  s \in Seq(S) /\ Len(s) = n
OBVIOUS

\* Its elements are of the set it is over.
LEMMA ElementOfSeq ==
  ASSUME NEW S, NEW s \in Seq(S), NEW n \in 1..Len(s)
  PROVE  s[n] \in S
OBVIOUS

\* One sequence after another.
LEMMA ConcatProperties ==
  ASSUME NEW S, NEW s \in Seq(S), NEW t \in Seq(S)
  PROVE  /\ s \o t \in Seq(S) /\ Len(s \o t) = Len(s) + Len(t)
         /\ \A i \in 1..(Len(s) + Len(t)) :
              (s \o t)[i] = IF i <= Len(s) THEN s[i] ELSE t[i - Len(s)]
OBVIOUS

\* Three of them, in either order of joining them.
LEMMA ConcatAssociative ==
  ASSUME NEW S, NEW s \in Seq(S), NEW t \in Seq(S), NEW u \in Seq(S)
  PROVE  (s \o t) \o u = s \o (t \o u)
OBVIOUS

\* What comes after the first n elements.
LEMMA RestOfSeq ==
  ASSUME NEW S, NEW s \in Seq(S), NEW n \in 0..Len(s), NEW d, d = SubSeq(s, n + 1, Len(s))
  PROVE  /\ d \in Seq(S) /\ Len(d) = Len(s) - n
         /\ \A i \in 1..Len(d) : d[i] = s[n + i]
OBVIOUS

-----------------------------------------------------------------------------
(* Who may use the ring. *)

ReadSteps == {"set_tid", "cas", "loop", "fetch", "callback", "advance",
              "release", "clear_tid"}

(* The strengthening that makes OneReader inductive. *)
ReadersArePollers == \A t \in Threads : pc[t] \in ReadSteps => t \in Pollers

FreeingIsLive ==
  \A t \in Threads : pc[t] \in FreeSteps =>
    allocated /\ (t \in inCallback \/ t \in Freers)

CallbackFreesOnly ==
  \A t \in inCallback : t \in Pollers /\ (allocated => pc[t] \in FreeSteps)

OneFreer ==
  \A t, u \in Threads : pc[t] \in FreeSteps /\ pc[u] \in FreeSteps => t = u

ReadingIsMarked ==
  allocated => \A t \in Threads : Reading(t) => rb_use_state = "IN_READ"

LockInv ==
  /\ LockTypeOK
  /\ ReadersArePollers
  /\ FreeingIsLive
  /\ CallbackFreesOnly
  /\ OneFreer
  /\ ReadingIsMarked
  /\ OneReader

(* With readers and outside freers disjoint, the owner of munmap is known. *)
UnmapIsMarked ==
  \A t \in Threads :
    pc[t] \in {"munmap", "dealloc"} /\ t \notin inCallback => rb_use_state = "IN_MUNMAP"

UnmapInv ==
  /\ LockInv
  /\ rb_read_tid \in Pollers \cup {NoTid}
  /\ UnmapIsMarked

-----------------------------------------------------------------------------
(* LockInv holds initially and is preserved by every step of every thread.  *)
LEMMA LockInvInit == Init => LockInv
  BY ThreadsAssumption, Zenon
  DEF Init, LockInv, LockTypeOK, Lines, FreeSteps, ReadSteps, ReadersArePollers,
      FreeingIsLive, CallbackFreesOnly, OneFreer, ReadingIsMarked, OneReader,
      Reading

\* Every step of every thread keeps the invariant of the lock.
LEMMA LockInvNext == LockInv /\ [Next]_vars => LockInv'
<1> SUFFICES ASSUME LockInv, [Next]_vars PROVE LockInv'
  BY Zenon
<1> USE ThreadsAssumption
    DEF LockInv, LockTypeOK, Lines, FreeSteps, ReadSteps, ReadersArePollers,
        FreeingIsLive, CallbackFreesOnly, OneFreer, ReadingIsMarked, OneReader,
        Reading, At, Goto, lockVars
<1>1. CASE UNCHANGED vars
  BY <1>1, Zenon DEF vars
<1>2. CASE Kernel
  BY <1>2 DEF Kernel, KernelDrop, KernelWrite, KernelPublish
<1>3. ASSUME NEW t \in Pollers, perf_reader_poll(t) PROVE LockInv'
  BY <1>3 DEF perf_reader_poll
<1>4. ASSUME NEW t \in Pollers, perf_reader_consume(t) PROVE LockInv'
  BY <1>4 DEF perf_reader_consume
<1>5. ASSUME NEW t \in Pollers, CallbackFree(t) PROVE LockInv'
  BY <1>5 DEF CallbackFree, MayFree
<1>6. ASSUME NEW t \in Freers, perf_reader_free(t) PROVE LockInv'
  BY <1>6 DEF perf_reader_free, MayFree
<1>7. ASSUME NEW t \in Threads, SetTid(t) PROVE LockInv'
  BY <1>7 DEF SetTid
<1>8. ASSUME NEW t \in Threads, CasRead(t) PROVE LockInv'
  BY <1>8 DEF CasRead, MayRead
<1>9. ASSUME NEW t \in Threads, LoopTest(t) PROVE LockInv'
  BY <1>9 DEF LoopTest
<1>10. ASSUME NEW t \in Threads, Fetch(t) PROVE LockInv'
  BY <1>10 DEF Fetch
<1>11. ASSUME NEW t \in Threads, Callback(t) PROVE LockInv'
  BY <1>11 DEF Callback
<1>12. ASSUME NEW t \in Threads, AdvanceTail(t) PROVE LockInv'
  <2>1. pc[t] = "advance" /\ pc' = [pc EXCEPT ![t] = "loop"]
    BY <1>12, Zenon DEF AdvanceTail
  <2>2. UNCHANGED <<rb_use_state, rb_read_tid, mapped, allocated, status, inCallback>>
    BY <1>12, Zenon DEF AdvanceTail
  <2> QED
    BY <2>1, <2>2
<1>13. ASSUME NEW t \in Threads, Release(t) PROVE LockInv'
  BY <1>13 DEF Release
<1>14. ASSUME NEW t \in Threads, ClearTid(t) PROVE LockInv'
  BY <1>14 DEF ClearTid
<1>15. ASSUME NEW t \in Threads, Fault(t) PROVE LockInv'
  BY <1>15, Zenon DEF Fault
<1>16. ASSUME NEW t \in Threads, CasMunmap(t) PROVE LockInv'
  BY <1>16 DEF CasMunmap
<1>17. ASSUME NEW t \in Threads, CompareTid(t) PROVE LockInv'
  BY <1>17 DEF CompareTid, CalledFromReader
<1>18. ASSUME NEW t \in Threads, Munmap(t) PROVE LockInv'
  <2>1. mapped' \in BOOLEAN
    BY <1>18, Zenon DEF Munmap
  <2>2. pc' = [pc EXCEPT ![t] = "dealloc"] /\ pc[t] = "munmap"
    BY <1>18, Zenon DEF Munmap
  <2>3. UNCHANGED <<rb_use_state, rb_read_tid, allocated, status, inCallback>>
    BY <1>18, Zenon DEF Munmap
  <2> QED
    BY <2>1, <2>2, <2>3
<1>19. ASSUME NEW t \in Threads, Dealloc(t) PROVE LockInv'
  <2>1. /\ pc[t] = "dealloc" /\ pc' = [pc EXCEPT ![t] = "idle"]
        /\ ~allocated' /\ status' \in {"running", "exited", "crashed"}
    BY <1>19, Zenon DEF Dealloc
  <2>2. UNCHANGED <<rb_use_state, rb_read_tid, mapped, inCallback>>
    BY <1>19, Zenon DEF Dealloc
  <2>3. allocated' \in BOOLEAN
    BY <1>19, Zenon DEF Dealloc
  <2>4. \A u \in Threads : pc'[u] \notin FreeSteps
    BY <2>1, Zenon
  <2> QED
    BY <2>1, <2>2, <2>3, <2>4
<1>20. QED
  BY <1>1, <1>2, <1>3, <1>4, <1>5, <1>6, <1>7, <1>8, <1>9, <1>10, <1>11, <1>12,
     <1>13, <1>14, <1>15, <1>16, <1>17, <1>18, <1>19, Zenon
  DEF Next, EventRead, Free

(* No two threads are in the read loop of a live reader, whatever mix of    *)
(* polling and freeing threads uses it (perf_reader_event_read, line 169).  *)
THEOREM OneReaderHolds == Spec => []OneReader
<1>1. LockInv => OneReader
  BY Zenon DEF LockInv
<1>2. QED
  BY LockInvInit, LockInvNext, <1>1, PTL DEF Spec
-----------------------------------------------------------------------------
\* The reader has been mapped and nobody reads it or frees it.
LEMMA UnmapInvInit == Init => UnmapInv
<1>1. Init => LockInv
  BY LockInvInit, Zenon
<1>2. Init => rb_read_tid \in Pollers \cup {NoTid} /\ UnmapIsMarked
  BY Zenon DEF Init, UnmapIsMarked
<1> QED
  BY <1>1, <1>2, Zenon DEF UnmapInv

(* A freeing thread that is not a poller passes line 75 only in a callback.  *)
LEMMA UnmapInvNext ==
  ASSUME Pollers \cap Freers = {}
  PROVE  UnmapInv /\ [Next]_vars => UnmapInv'
<1> SUFFICES ASSUME UnmapInv, [Next]_vars
             PROVE  /\ rb_read_tid' \in Pollers \cup {NoTid}
                    /\ UnmapIsMarked'
  BY LockInvNext, Zenon DEF UnmapInv
<1> USE ThreadsAssumption
    DEF UnmapInv, UnmapIsMarked, LockInv, LockTypeOK, Lines, FreeSteps, ReadSteps,
        ReadersArePollers, FreeingIsLive, CallbackFreesOnly, OneFreer,
        ReadingIsMarked, Reading, At, Goto, lockVars
<1> DEFINE Goal == /\ rb_read_tid' \in Pollers \cup {NoTid}
                   /\ UnmapIsMarked'
<1>1. CASE UNCHANGED vars
  BY <1>1, Zenon DEF vars
<1>2. CASE Kernel
  BY <1>2, Zenon DEF Kernel, KernelDrop, KernelWrite, KernelPublish
<1>3. ASSUME NEW t \in Pollers,
             perf_reader_poll(t) \/ perf_reader_consume(t) \/ CallbackFree(t)
      PROVE Goal
  BY <1>3 DEF perf_reader_poll, perf_reader_consume, CallbackFree
<1>4. ASSUME NEW t \in Freers, perf_reader_free(t) PROVE Goal
  BY <1>4, Zenon DEF perf_reader_free
<1>5. ASSUME NEW t \in Threads, SetTid(t) \/ ClearTid(t) PROVE Goal
  BY <1>5 DEF SetTid, ClearTid
<1>6. ASSUME NEW t \in Threads, CasRead(t) PROVE Goal
  BY <1>6 DEF CasRead, MayRead
<1>7. ASSUME NEW t \in Threads,
             LoopTest(t) \/ Fetch(t) \/ Callback(t) \/ AdvanceTail(t) \/ Fault(t)
      PROVE Goal
  <2>1. UNCHANGED <<rb_use_state, rb_read_tid, inCallback>>
    BY <1>7, Zenon DEF LoopTest, Fetch, Callback, AdvanceTail, Fault
  <2>2. \/ UNCHANGED pc
        \/ pc' = [pc EXCEPT ![t] = "fetch"]
        \/ pc' = [pc EXCEPT ![t] = "callback"]
        \/ pc' = [pc EXCEPT ![t] = "advance"]
        \/ pc' = [pc EXCEPT ![t] = "loop"]
        \/ pc' = [pc EXCEPT ![t] = "release"]
    BY <1>7, Zenon DEF LoopTest, Fetch, Callback, AdvanceTail, Fault, ringVars, dataVars
  <2> QED
    BY <2>1, <2>2, Zenon
<1>8. ASSUME NEW t \in Threads, Release(t) PROVE Goal
  BY <1>8, Zenon DEF Release
<1>9. ASSUME NEW t \in Threads, CasMunmap(t) PROVE Goal
  BY <1>9 DEF CasMunmap
<1>10. ASSUME NEW t \in Threads, CompareTid(t) PROVE Goal
  BY <1>10 DEF CompareTid, CalledFromReader
<1>11. ASSUME NEW t \in Threads, Munmap(t) \/ Dealloc(t) PROVE Goal
  BY <1>11 DEF Munmap, Dealloc
<1> QED
  BY <1>1, <1>2, <1>3, <1>4, <1>5, <1>6, <1>7, <1>8, <1>9, <1>10, <1>11, Zenon
  DEF Next, EventRead, Free

(* When the threads that free from outside do not also poll, the ring is    *)
(* never unmapped under another thread's read loop (lines 73-78).           *)
THEOREM UnmapExcludesReadersHolds ==
  ASSUME Pollers \cap Freers = {}
  PROVE  Spec => []UnmapExcludesReaders
<1>1. UnmapInv => UnmapExcludesReaders
  BY Zenon DEF UnmapInv, UnmapIsMarked, LockInv, FreeingIsLive, ReadingIsMarked,
         OneReader, UnmapExcludesReaders, FreeSteps, Reading
<1>2. UnmapInv /\ [Next]_vars => UnmapInv'
  BY UnmapInvNext, Zenon
<1>3. QED
  BY UnmapInvInit, <1>1, <1>2, PTL DEF Spec

(***************************************************************************)
(* The ring: what the kernel has written and the reader has not yet passed.*)
(***************************************************************************)

Recs == {r \in [type : {"SAMPLE", "LOST"}, size : Nat \ {0, 1}, val : Nat] :
           r.type = "LOST" => r.size = LostSize}
RingWords == [rec : Recs, word : Nat]

(* A sequence of words is framed when it is made of whole records. *)
Framed(s) ==
  \A i \in 1..Len(s) :
    /\ s[i].word \in 1..i
    /\ s[i].word <= s[i].rec.size
    /\ i - s[i].word + s[i].rec.size <= Len(s)
    /\ \A k \in 1..s[i].rec.size :
         s[i - s[i].word + k] = [rec |-> s[i].rec, word |-> k]

UnreadOK ==
  /\ unread \in Seq(RingWords)
  /\ Len(unread) = khead - data_tail
  /\ Framed(unread)

\* Word i of the unread words is stored where the reader will look for it.
Contents ==
  \A i \in 1..Len(unread) : ring[(data_tail + i - 1) % Size] = unread[i]

\* The kernel publishes whole records.
HeadAligned ==
  data_head < khead => unread[data_head - data_tail + 1].word = 1

MappedIsLive ==
  /\ mapped => allocated
  /\ \A t \in Threads : pc[t] = "dealloc" => ~mapped

\* What begin, ptr and e->size denote for a thread past line 192.
FrontView ==
  LET begin == data_tail % Size
      r == unread[1].rec
  IN  [begin |-> begin, size |-> r.size, copied |-> Wraps(begin, r.size),
       buf |-> IF Wraps(begin, r.size) THEN Words(r) ELSE <<>>]

Located ==
  \A t \in Threads : mapped =>
    /\ pc[t] \in {"fetch", "callback", "advance"} => data_tail < data_head
    /\ pc[t] \in {"callback", "advance"} => view[t] = FrontView

RingInv ==
  /\ LockInv /\ RingTypeOK
  /\ DOMAIN view = Threads
  /\ UnreadOK /\ Contents /\ HeadAligned
  /\ MappedIsLive /\ Located

-----------------------------------------------------------------------------
(* Arithmetic modulo the ring size: stepping k words on wraps at most once. *)
LEMMA DivMod ==
  ASSUME NEW s \in Nat \ {0}, NEW x \in Nat
  PROVE  /\ x = s * (x \div s) + (x % s)
         /\ x % s \in 0..(s - 1)
         /\ x \div s \in Int
  OBVIOUS

\* Quotient and remainder are unique.
LEMMA DivModUnique ==
  ASSUME NEW s \in Nat \ {0}, NEW q \in Int, NEW r \in 0..(s - 1),
         NEW p \in Int, NEW u \in 0..(s - 1), s * q + r = s * p + u
  PROVE  r = u
<1>1. CASE q = p
  BY <1>1
<1>2. CASE q > p
  <2>1. s * q >= s * (p + 1)
    BY <1>2
  <2>2. s * (p + 1) = s * p + s
    OBVIOUS
  <2> QED
    BY <2>1, <2>2
<1>3. CASE q < p
  <2>1. s * p >= s * (q + 1)
    BY <1>3
  <2>2. s * (q + 1) = s * q + s
    OBVIOUS
  <2> QED
    BY <2>1, <2>2
<1> QED
  BY <1>1, <1>2, <1>3

\* The remainder of a sum, for a second summand below the modulus.
LEMMA ModAdd ==
  ASSUME NEW s \in Nat \ {0}, NEW x \in Nat, NEW k \in 0..(s - 1)
  PROVE  (x + k) % s = IF (x % s) + k < s THEN (x % s) + k ELSE (x % s) + k - s
<1> DEFINE q == x \div s
           r == x % s
           y == x + k
           p == y \div s
           u == y % s
<1>1. x = s * q + r /\ r \in 0..(s - 1) /\ q \in Int
  BY DivMod, Zenon
<1>2. y \in Nat
  OBVIOUS
<1>3. y = s * p + u /\ u \in 0..(s - 1) /\ p \in Int
  <2> HIDE DEF y
  <2> QED BY <1>2, DivMod, Zenon
<1>4. y = x + k
  BY Zenon
<1>5. u = (x + k) % s /\ r = x % s
  BY Zenon
<1> HIDE DEF q, r, p, u, y
<1>6. CASE r + k < s
  <2>1. s * q + (r + k) = s * p + u
    BY <1>1, <1>3, <1>4
  <2>2. r + k \in 0..(s - 1)
    BY <1>1, <1>6
  <2>3. r + k = u
    BY ONLY <2>1, <2>2, <1>1, <1>3, DivModUnique, s \in Nat \ {0}, Zenon
  <2> QED
    BY <2>3, <1>5, <1>6, Zenon
<1>7. CASE ~(r + k < s)
  <2>1. s * (q + 1) = s * q + s
    BY <1>1
  <2>2. s * (q + 1) + (r + k - s) = s * p + u
    BY <1>1, <1>3, <1>4, <2>1
  <2>3. r + k - s \in 0..(s - 1) /\ q + 1 \in Int
    BY <1>1, <1>7
  <2>4. \A a \in Int, b \in 0..(s - 1) : s * a + b = s * p + u => b = u
    BY ONLY <1>3, DivModUnique, s \in Nat \ {0}, Zenon
  <2>5. r + k - s = u
    BY ONLY <2>2, <2>3, <2>4, Zenon
  <2> QED
    BY <2>5, <1>5, <1>7, Zenon
<1> QED
  BY <1>6, <1>7, Zenon
\* The test of perf_reader_event_read for a record that wraps, in plain arithmetic.
LEMMA WrapsIff ==
  ASSUME NEW begin \in 0..(Size - 1), NEW size \in 0..(Size - 1)
  PROVE  Wraps(begin, size) <=> begin + size >= Size
<1>1. begin % Size = begin
  BY SizeAssumption
<1>2. (begin + size) % Size =
        IF begin + size < Size THEN begin + size ELSE begin + size - Size
  <2>1. begin \in Nat /\ Size \in Nat \ {0}
    BY SizeAssumption
  <2>2. (begin + size) % Size = IF (begin % Size) + size < Size
                                 THEN (begin % Size) + size
                                 ELSE (begin % Size) + size - Size
    BY ONLY <2>1, size \in 0..(Size - 1), ModAdd, Zenon
  <2> QED
    BY <1>1, <2>2, Zenon
<1> QED
  BY <1>2, SizeAssumption DEF Wraps

-----------------------------------------------------------------------------
(* Framed sequences. *)
LEMMA WordOf ==
  ASSUME NEW s \in Seq(RingWords), NEW i \in 1..Len(s)
  PROVE  /\ s[i] \in RingWords /\ s[i].rec \in Recs
         /\ s[i].word \in Nat /\ s[i].rec.size \in Nat \ {0}
<1>1. s[i] \in RingWords
  BY ElementOfSeq, Zenon
<1>2. s[i].rec \in Recs /\ s[i].word \in Nat
  BY <1>1, Zenon DEF RingWords
<1>3. s[i].rec.size \in Nat \ {0}
  BY <1>2, Zenon DEF Recs
<1> QED
  BY <1>1, <1>2, <1>3, Zenon

\* The words of a record are a sequence of its size.
LEMMA WordsSeq ==
  ASSUME NEW r \in Recs
  PROVE  /\ Words(r) \in Seq(RingWords)
         /\ Len(Words(r)) = r.size
         /\ \A k \in 1..r.size : Words(r)[k] = [rec |-> r, word |-> k]
<1>1. r.size \in Nat
  BY Zenon DEF Recs
<1>2. Words(r) \in [1..r.size -> RingWords]
  BY <1>1 DEF Words, RingWords
<1> QED
  BY <1>1, <1>2, FunctionSeq, Zenon DEF Words

\* The words of one record are framed.
LEMMA FramedWords ==
  ASSUME NEW r \in Recs
  PROVE  Framed(Words(r))
<1>1. r.size \in Nat \ {0} /\ Len(Words(r)) = r.size
  BY WordsSeq, Zenon DEF Recs
<1>2. \A k \in 1..r.size : Words(r)[k] = [rec |-> r, word |-> k]
  BY WordsSeq, Zenon
<1>3. ASSUME NEW i \in 1..r.size
      PROVE  Words(r)[i].word = i /\ Words(r)[i].rec = r
  <2>1. Words(r)[i] = [rec |-> r, word |-> i]
    BY <1>2, Zenon
  <2> QED
    BY ONLY <2>1
<1>4. ASSUME NEW i \in 1..r.size, NEW k \in 1..r.size
      PROVE  i - i + k = k
  BY <1>1
<1> QED
  BY <1>1, <1>2, <1>3, <1>4 DEF Framed

\* Framed sequences one after the other are framed.
LEMMA FramedConcat ==
  ASSUME NEW a \in Seq(RingWords), NEW b \in Seq(RingWords), Framed(a), Framed(b)
  PROVE  Framed(a \o b)
<1> DEFINE s == a \o b
<1>1. /\ Len(a) \in Nat /\ Len(b) \in Nat /\ Len(s) = Len(a) + Len(b)
      /\ \A i \in 1..Len(a) : s[i] = a[i]
      /\ \A i \in (Len(a) + 1)..(Len(a) + Len(b)) : s[i] = b[i - Len(a)]
  BY ConcatProperties, LenProperties
<1> HIDE DEF s
<1> SUFFICES ASSUME NEW i \in 1..Len(s)
             PROVE  /\ s[i].word \in 1..i
                    /\ s[i].word <= s[i].rec.size
                    /\ i - s[i].word + s[i].rec.size <= Len(s)
                    /\ \A k \in 1..s[i].rec.size :
                         s[i - s[i].word + k] = [rec |-> s[i].rec, word |-> k]
  BY Zenon DEF Framed, s
<1>2. CASE i <= Len(a)
  <2>1. s[i] = a[i] /\ i \in 1..Len(a)
    BY <1>1, <1>2
  <2>2. a[i].rec.size \in Nat /\ a[i].word \in Nat
    BY <2>1, WordOf, Zenon
  <2>3. /\ a[i].word \in 1..i /\ a[i].word <= a[i].rec.size
        /\ i - a[i].word + a[i].rec.size <= Len(a)
        /\ \A k \in 1..a[i].rec.size :
             a[i - a[i].word + k] = [rec |-> a[i].rec, word |-> k]
    BY <2>1, Zenon DEF Framed
  <2>4. ASSUME NEW k \in 1..a[i].rec.size
        PROVE  s[i - a[i].word + k] = [rec |-> a[i].rec, word |-> k]
    <3> DEFINE w == a[i].word
               m == a[i].rec.size
    <3>1. /\ w \in Nat /\ m \in Nat /\ w \in 1..i /\ k \in 1..m /\ i - w + m <= Len(a)
          /\ Len(a) \in Nat /\ i \in 1..Len(a)
      BY <1>1, <2>1, <2>2, <2>3, Zenon
    <3> HIDE DEF w, m
    <3>2. i - w + k \in 1..Len(a)
      BY ONLY <3>1
    <3> USE DEF w, m
    <3>3. s[i - a[i].word + k] = a[i - a[i].word + k]
      BY <1>1, <3>2, Zenon
    <3> QED
      BY <2>3, <3>3, Zenon
  <2>5. i - a[i].word + a[i].rec.size <= Len(s)
    BY <1>1, <2>1, <2>2, <2>3
  <2> QED
    BY <2>1, <2>3, <2>4, <2>5, Zenon
<1>3. CASE i > Len(a)
  <2> DEFINE j == i - Len(a)
  <2>1. s[i] = b[j] /\ j \in 1..Len(b) /\ i = j + Len(a)
    BY <1>1, <1>3
  <2> HIDE DEF j
  <2>2. b[j].rec.size \in Nat /\ b[j].word \in Nat
    BY <2>1, WordOf, Zenon
  <2>3. /\ b[j].word \in 1..j /\ b[j].word <= b[j].rec.size
        /\ j - b[j].word + b[j].rec.size <= Len(b)
        /\ \A k \in 1..b[j].rec.size :
             b[j - b[j].word + k] = [rec |-> b[j].rec, word |-> k]
    BY <2>1, Zenon DEF Framed
  <2>4. ASSUME NEW k \in 1..b[j].rec.size
        PROVE  s[i - b[j].word + k] = [rec |-> b[j].rec, word |-> k]
    <3> DEFINE w == b[j].word
               m == b[j].rec.size
    <3>0. /\ w \in Nat /\ m \in Nat /\ w \in 1..j /\ w <= m /\ k \in 1..m
          /\ j - w + m <= Len(b)
      BY <2>2, <2>3, Zenon
    <3> HIDE DEF w, m
    <3>a. Len(a) \in Nat /\ Len(b) \in Nat /\ j \in Nat /\ i = j + Len(a)
      BY ONLY <1>1, <2>1
    <3>1. /\ j - w + k \in 1..Len(b)
          /\ i - w + k \in (Len(a) + 1)..(Len(a) + Len(b))
          /\ (i - w + k) - Len(a) = j - w + k
      BY ONLY <3>a, <3>0
    <3> USE DEF w, m
    <3>2. s[i - b[j].word + k] = b[j - b[j].word + k]
      BY <1>1, <3>1, Zenon
    <3> QED
      BY <2>3, <3>2, Zenon
  <2>5. b[j].word \in 1..i /\ i - b[j].word + b[j].rec.size <= Len(s)
    BY <1>1, <2>1, <2>2, <2>3
  <2> QED
    BY <2>1, <2>3, <2>4, <2>5, Zenon
<1> QED
  BY <1>1, <1>2, <1>3

\* The first word of a framed sequence is the first of a record.
LEMMA FramedFront ==
  ASSUME NEW s \in Seq(RingWords), Framed(s), Len(s) > 0
  PROVE  /\ s[1].rec \in Recs /\ s[1].word = 1
         /\ s[1].rec.size <= Len(s)
         /\ \A k \in 1..s[1].rec.size : s[k] = [rec |-> s[1].rec, word |-> k]
<1>1. 1 \in 1..Len(s) /\ s[1] \in RingWords
  BY ElementOfSeq, LenProperties
<1>2. s[1].word \in 1..1
  BY <1>1, Zenon DEF Framed
<1>3. s[1].rec.size \in Nat
  BY <1>1, Zenon DEF RingWords, Recs
<1> QED
  BY <1>1, <1>2, <1>3 DEF Framed, RingWords

\* A framed sequence without its first record is framed.
LEMMA FramedDrop ==
  ASSUME NEW s \in Seq(RingWords), Framed(s), Len(s) > 0
  PROVE  LET n == s[1].rec.size
             d == SubSeq(s, n + 1, Len(s))
         IN  /\ d \in Seq(RingWords) /\ Len(d) = Len(s) - n
             /\ \A i \in 1..Len(d) : d[i] = s[n + i]
             /\ Framed(d)
<1> DEFINE n == s[1].rec.size
           d == SubSeq(s, n + 1, Len(s))
<1>1. n \in 1..Len(s) /\ \A k \in 1..n : s[k] = [rec |-> s[1].rec, word |-> k]
  BY FramedFront DEF Recs
<1>2. /\ d \in Seq(RingWords) /\ Len(d) = Len(s) - n
      /\ \A i \in 1..Len(d) : d[i] = s[n + i]
  <2>1. n \in 0..Len(s)
    BY <1>1
  <2> HIDE DEF n
  <2> QED
    BY <2>1, RestOfSeq
<1> HIDE DEF d, n
<1>3. ASSUME NEW i \in 1..Len(d)
      PROVE  /\ d[i].word \in 1..i
             /\ d[i].word <= d[i].rec.size
             /\ i - d[i].word + d[i].rec.size <= Len(d)
             /\ \A k \in 1..d[i].rec.size :
                  d[i - d[i].word + k] = [rec |-> d[i].rec, word |-> k]
  <2> DEFINE j == n + i
             w == s[j].word
             m == s[j].rec.size
  <2>1. j \in 1..Len(s) /\ d[i] = s[j] /\ Len(s) \in Nat
    BY <1>1, <1>2, LenProperties
  <2>2. m \in Nat \ {0} /\ w \in Nat
    BY <2>1, WordOf, Zenon
  <2>3. /\ w \in 1..j /\ w <= m /\ j - w + m <= Len(s)
        /\ \A k \in 1..m : s[j - w + k] = [rec |-> s[j].rec, word |-> k]
    BY <2>1, Zenon DEF Framed
  <2> HIDE DEF w, m
  <2>4. s[j - w + 1] = [rec |-> s[j].rec, word |-> 1]
    BY <2>2, <2>3
  <2>5. w <= i
    <3> SUFFICES ASSUME ~(w <= i) PROVE FALSE
      BY Zenon
    <3>1. j - w + 1 \in 1..n
      BY <1>1, <2>1, <2>2, <2>3
    <3>2. s[j - w + 1] = [rec |-> s[1].rec, word |-> j - w + 1]
      BY <1>1, <3>1, Zenon
    <3>3. j - w + 1 = 1 /\ s[j].rec = s[1].rec
      BY <2>4, <3>2
    <3>4. m = n
      BY <3>3, Zenon DEF m, n
    <3> QED
      BY <1>1, <2>1, <2>2, <2>3, <3>3, <3>4
  <2>6. ASSUME NEW k \in 1..m
        PROVE  d[i - w + k] = [rec |-> d[i].rec, word |-> k]
    <3>1. i - w + k \in 1..Len(d)
      BY <1>1, <1>2, <2>1, <2>2, <2>3, <2>5
    <3>2. d[i - w + k] = s[j - w + k]
      BY <1>1, <1>2, <3>1, <2>2
    <3> QED
      BY <3>2, <2>3, <2>1, Zenon
  <2> QED
    BY <1>1, <1>2, <2>1, <2>2, <2>3, <2>5, <2>6 DEF w, m
<1> QED
  BY <1>2, <1>3, Zenon DEF Framed, d, n
-----------------------------------------------------------------------------
(* The kernel's store leaves the unread words alone and appends the new ones. *)
LEMMA StoreAppends ==
  ASSUME RingTypeOK, UnreadOK, Contents,
         NEW words \in Seq(RingWords), HasSpace(Len(words))
  PROVE  \A i \in 1..(Len(unread) + Len(words)) :
           Store(words)[(data_tail + i - 1) % Size] = (unread \o words)[i]
<1> DEFINE n == Len(unread)
           m == Len(words)
           w == khead % Size
<1>1. /\ n \in Nat /\ m \in Nat /\ data_tail \in Nat /\ khead \in Nat
      /\ Size \in Nat \ {0} /\ khead = data_tail + n /\ n + m < Size
  BY SizeAssumption, LenProperties DEF RingTypeOK, UnreadOK, HasSpace
<1>2. w \in 0..(Size - 1)
  BY <1>1, DivMod, Zenon
<1> SUFFICES ASSUME NEW i \in 1..(n + m)
             PROVE  Store(words)[(data_tail + i - 1) % Size] = (unread \o words)[i]
  BY Zenon
<1>3. (unread \o words)[i] = IF i <= n THEN unread[i] ELSE words[i - n]
  BY ConcatProperties, Zenon DEF UnreadOK
<1>4. CASE i <= n
  <2> DEFINE a == data_tail + i - 1
             d == n - i + 1
  <2>1. a \in Nat /\ d \in 1..(Size - 1) /\ a + d = khead /\ Size - d >= m
    BY <1>1, <1>4
  <2>2. a % Size \in 0..(Size - 1)
    BY <1>1, <2>1, DivMod, Zenon
  <2> HIDE DEF a, d
  <2>3. w = IF (a % Size) + d < Size THEN (a % Size) + d ELSE (a % Size) + d - Size
    <3>1. d \in 0..(Size - 1)
      BY <1>1, <2>1
    <3>2. (a + d) % Size = IF (a % Size) + d < Size THEN (a % Size) + d
                                                   ELSE (a % Size) + d - Size
      BY ONLY <1>1, <2>1, <3>1, ModAdd, Zenon
    <3> QED
      BY <2>1, <3>2, Zenon
  <2> HIDE DEF w
  <2>4. (IF a % Size >= w THEN (a % Size) - w ELSE (a % Size) + Size - w) = Size - d
    BY <1>1, <1>2, <2>1, <2>2, <2>3
  <2>5. Offset(a % Size) = Size - d
    BY <2>4, Zenon DEF Offset, w
  <2>6. Store(words)[a % Size] = ring[a % Size]
    BY <1>1, <2>1, <2>2, <2>5 DEF Store
  <2>7. ring[a % Size] = unread[i]
    BY <1>1, <1>4 DEF Contents, a
  <2> QED
    BY <1>3, <1>4, <2>6, <2>7, Zenon DEF a
<1>5. CASE i > n
  <2> DEFINE k == i - n - 1
  <2>1. k \in 0..(Size - 1) /\ k < m /\ data_tail + i - 1 = khead + k
    BY <1>1, <1>5
  <2> HIDE DEF k
  <2>2. (khead + k) % Size = IF w + k < Size THEN w + k ELSE w + k - Size
    BY <1>1, <2>1, ModAdd, Zenon
  <2> DEFINE x == (khead + k) % Size
  <2> HIDE DEF w
  <2>3. x \in 0..(Size - 1)
        /\ (IF x >= w THEN x - w ELSE x + Size - w) = k
    <3>1. /\ Size \in Nat \ {0} /\ w \in 0..(Size - 1) /\ k \in 0..(Size - 1)
          /\ x = IF w + k < Size THEN w + k ELSE w + k - Size
      BY <1>1, <1>2, <2>1, <2>2, Zenon
    <3> HIDE DEF x
    <3> QED
      BY ONLY <3>1
  <2> HIDE DEF x
  <2>4. Offset(x) = k
    BY <2>3, Zenon DEF Offset, w
  <2>5. Store(words)[x] = words[k + 1]
    BY <1>1, <2>1, <2>3, <2>4, Zenon DEF Store
  <2>6. words[k + 1] = words[i - n]
    BY <1>1 DEF k
  <2> QED
    <3>1. Store(words)[(data_tail + i - 1) % Size] = words[i - n]
      BY ONLY <2>1, <2>5, <2>6, Zenon DEF x
    <3> QED
      BY <1>1, <1>3, <1>5, <3>1
<1> QED
  BY <1>1, <1>4, <1>5

(* Lines 185-192: what the reader finds at ptr is the oldest record. *)
LEMMA FrontData ==
  ASSUME RingTypeOK, UnreadOK, Contents, data_tail < data_head
  PROVE  LET begin == data_tail % Size
             r == unread[1].rec
         IN  /\ begin \in 0..(Size - 1) /\ r \in Recs
             /\ ring[begin] = unread[1]
             /\ r.size \in 1..Len(unread)
             /\ Wraps(begin, r.size) => Copy(begin, r.size) = Words(r)
             /\ ~Wraps(begin, r.size) =>
                  [k \in 1..r.size |-> Load(begin + k - 1)] = Words(r)
<1> DEFINE n == Len(unread)
           begin == data_tail % Size
           r == unread[1].rec
<1>1. /\ n \in Nat /\ data_tail \in Nat /\ Size \in Nat \ {0}
      /\ 0 < n /\ n < Size
  BY SizeAssumption, LenProperties DEF RingTypeOK, UnreadOK
<1>2. begin \in 0..(Size - 1)
  BY <1>1, DivMod, Zenon
<1>3. /\ r \in Recs /\ r.size \in 1..n
      /\ \A k \in 1..r.size : unread[k] = [rec |-> r, word |-> k]
  BY <1>1, FramedFront DEF UnreadOK, Recs
<1>4. ring[begin] = unread[1]
  <2>1. (data_tail + 1 - 1) % Size = begin
    BY <1>1
  <2> QED
    BY <1>1, <2>1 DEF Contents
<1> HIDE DEF begin, r
<1>5. ASSUME NEW k \in 1..r.size
      PROVE  ring[IF begin + k - 1 < Size THEN begin + k - 1
                                          ELSE begin + k - 1 - Size]
               = [rec |-> r, word |-> k]
  <2> DEFINE j == k - 1
  <2>1. j \in 0..(Size - 1) /\ data_tail + k - 1 = data_tail + j /\ k \in 1..n
    BY <1>1, <1>3
  <2>2. (data_tail + j) % Size = IF (data_tail % Size) + j < Size
                                  THEN (data_tail % Size) + j
                                  ELSE (data_tail % Size) + j - Size
    BY <1>1, <2>1, ModAdd, Zenon
  <2>3. ring[(data_tail + k - 1) % Size] = unread[k]
    BY <2>1, Zenon DEF Contents
  <2> QED
    BY <1>1, <1>2, <1>3, <2>1, <2>2, <2>3, Zenon DEF begin
<1>6. Wraps(begin, r.size) <=> begin + r.size >= Size
  BY <1>1, <1>2, <1>3, WrapsIff
<1>7. ASSUME Wraps(begin, r.size)
      PROVE  Copy(begin, r.size) = Words(r)
  <2>1. ASSUME NEW k \in 1..r.size
        PROVE  (IF k <= Size - begin THEN ring[begin + k - 1]
                                     ELSE ring[k - (Size - begin) - 1])
                 = [rec |-> r, word |-> k]
    BY <1>1, <1>2, <1>3, <1>5
  <2> QED
    BY <2>1, Zenon DEF Copy, Words
<1>8. ASSUME ~Wraps(begin, r.size)
      PROVE  [k \in 1..r.size |-> Load(begin + k - 1)] = Words(r)
  <2>1. ASSUME NEW k \in 1..r.size
        PROVE  Load(begin + k - 1) = [rec |-> r, word |-> k]
    BY <1>1, <1>2, <1>3, <1>5, <1>6, <1>8 DEF Load
  <2> QED
    BY <2>1, Zenon DEF Words
<1> QED
  BY <1>2, <1>3, <1>4, <1>7, <1>8, Zenon DEF begin, r
-----------------------------------------------------------------------------
(* RingInv holds initially and every step preserves it.  Only three steps   *)
(* disturb the ring: the kernel's write, its publication, and line 215.     *)
LEMMA RingInvInit == Init => RingInv
<1> SUFFICES ASSUME Init PROVE RingInv
  BY Zenon
<1>1. LockInv
  BY LockInvInit, Zenon
<1>2. RingTypeOK
  <2>1. pollin \in BOOLEAN
    BY Zenon DEF Init
  <2>2. data_head = 0 /\ data_tail = 0 /\ khead = 0 /\ klost = 0 /\ kevents = 0
        /\ emitted = 0 /\ position = 0 /\ DOMAIN ring = 0..(Size - 1)
    BY Zenon DEF Init
  <2> QED
    BY <2>1, <2>2, SizeAssumption DEF RingTypeOK
<1>3. unread = <<>> /\ Len(unread) = 0 /\ unread \in Seq(RingWords)
  BY DEF Init
<1>4. UnreadOK /\ Contents
  BY <1>3 DEF Init, UnreadOK, Framed, Contents
<1>5. HeadAligned /\ MappedIsLive /\ Located /\ DOMAIN view = Threads
  BY DEF Init, HeadAligned, MappedIsLive, Located
<1> QED
  BY <1>1, <1>2, <1>4, <1>5, Zenon DEF RingInv

(* The words a KernelWrite stores form whole records. *)
LEMMA OutputWords ==
  ASSUME RingTypeOK, NEW size \in SampleSizes
  PROVE  LET sample == Words(Record("SAMPLE", size, emitted + 1))
             words == IF klost > 0 THEN Words(Record("LOST", LostSize, klost)) \o sample
                                   ELSE sample
         IN  /\ words \in Seq(RingWords) /\ Framed(words)
             /\ Len(words) > 0 /\ words[1].word = 1
<1> DEFINE s == Record("SAMPLE", size, emitted + 1)
           l == Record("LOST", LostSize, klost)
           words == IF klost > 0 THEN Words(l) \o Words(s) ELSE Words(s)
<1>1. s \in Recs /\ s.size = size /\ size \in Nat \ {0, 1}
  BY SizeAssumption DEF Recs, Record, RingTypeOK
<1>2. l \in Recs /\ l.size = 3
  BY DEF Recs, Record, RingTypeOK, LostSize
<1> HIDE DEF s, l
<1>3. Words(s) \in Seq(RingWords) /\ Words(l) \in Seq(RingWords)
  BY <1>1, <1>2, WordsSeq, Zenon
<1>4. Framed(Words(s)) /\ Framed(Words(l))
  BY <1>1, <1>2, FramedWords, Zenon
<1>5. Len(Words(s)) > 0 /\ Len(Words(l)) > 0
  BY <1>1, <1>2, WordsSeq
<1>6. words \in Seq(RingWords) /\ Framed(words) /\ Len(words) > 0
  BY <1>3, <1>4, <1>5, FramedConcat, ConcatProperties, LenProperties
<1> HIDE DEF words
<1>7. words[1].word = 1
  BY <1>6, FramedFront, Zenon
<1> QED
  BY <1>6, <1>7, Zenon DEF words, s, l

\* Storing a record overwrites no unread word.
LEMMA KernelWriteKeeps ==
  ASSUME RingInv, KernelWrite
  PROVE  RingTypeOK' /\ UnreadOK' /\ Contents' /\ HeadAligned' /\ Located'
<1> USE DEF RingInv
<1>1. PICK size \in SampleSizes :
        LET sample == Words(Record("SAMPLE", size, emitted + 1))
            words == IF klost > 0 THEN Words(Record("LOST", LostSize, klost)) \o sample
                                  ELSE sample
        IN  HasSpace(Len(words)) /\ ring' = Store(words)
            /\ khead' = khead + Len(words) /\ unread' = unread \o words
  BY Zenon DEF KernelWrite
<1> DEFINE sample == Words(Record("SAMPLE", size, emitted + 1))
           words == IF klost > 0 THEN Words(Record("LOST", LostSize, klost)) \o sample
                                 ELSE sample
<1>2. /\ HasSpace(Len(words)) /\ ring' = Store(words)
      /\ khead' = khead + Len(words) /\ unread' = unread \o words
  BY <1>1, Zenon
<1>3. /\ words \in Seq(RingWords) /\ Framed(words)
      /\ Len(words) > 0 /\ words[1].word = 1
  BY OutputWords, Zenon
<1> HIDE DEF words
<1>4. /\ UNCHANGED <<lockVars, pc, view, data_tail, data_head, kevents, pollin, position>>
      /\ emitted' = emitted + 1 /\ klost' = 0 /\ khead = data_head
  BY Zenon DEF KernelWrite
<1>5. /\ Len(words) \in Nat /\ Len(unread) \in Nat
      /\ Len(unread) = khead - data_tail /\ unread \in Seq(RingWords)
      /\ data_tail \in Nat /\ data_head \in Nat /\ khead \in Nat /\ Size \in Nat
  BY <1>3, LenProperties, SizeAssumption DEF UnreadOK, RingTypeOK
<1>6. /\ unread' \in Seq(RingWords) /\ Len(unread') = Len(unread) + Len(words)
      /\ \A i \in 1..Len(unread) : unread'[i] = unread[i]
      /\ unread'[Len(unread) + 1] = words[1]
  BY <1>2, <1>3, <1>5, ConcatProperties
<1>7. RingTypeOK'
  BY <1>2, <1>3, <1>4, <1>5 DEF RingTypeOK, HasSpace, Store
<1>8. UnreadOK'
  BY <1>2, <1>3, <1>4, <1>5, <1>6, FramedConcat DEF UnreadOK
<1>9. Contents'
  <2>1. \A i \in 1..(Len(unread) + Len(words)) :
          Store(words)[(data_tail + i - 1) % Size] = (unread \o words)[i]
    BY <1>2, <1>3, StoreAppends, Zenon
  <2> QED
    BY <1>2, <1>4, <1>6, <2>1, Zenon DEF Contents
<1>10. HeadAligned'
  BY <1>3, <1>4, <1>5, <1>6, Zenon DEF HeadAligned
<1>11. Located'
  <2>0. data_tail < data_head => 1 \in 1..Len(unread)
    BY <1>4, <1>5
  <2>1. data_tail < data_head => unread'[1] = unread[1]
    BY <1>6, <2>0, Zenon
  <2>2. data_tail < data_head => FrontView' = FrontView
    BY <1>4, <2>1, Zenon DEF FrontView
  <2> QED
    BY <1>4, <2>2, Zenon DEF Located, lockVars
<1> QED
  BY <1>7, <1>8, <1>9, <1>10, <1>11, Zenon

\* Publishing the head adds the record that was stored to the unread words.
LEMMA KernelPublishKeeps ==
  ASSUME RingInv, KernelPublish
  PROVE  RingTypeOK' /\ UnreadOK' /\ Contents' /\ HeadAligned' /\ Located'
<1> USE DEF RingInv
<1>1. /\ UNCHANGED <<lockVars, pc, view, ring, data_tail, khead, klost, emitted,
                     unread, position>>
      /\ data_head' = khead
  BY Zenon DEF KernelPublish
<1>2. kevents' \in Nat
  BY DEF KernelPublish, RingTypeOK
<1>3. pollin' \in BOOLEAN
  <2>1. pollin' = TRUE \/ pollin' = pollin
    BY Zenon DEF KernelPublish
  <2> QED
    BY <2>1, Zenon DEF RingTypeOK
<1>4. RingTypeOK'
  BY <1>1, <1>2, <1>3 DEF RingTypeOK
<1>5. UnreadOK' /\ Contents'
  BY <1>1, Zenon DEF UnreadOK, Contents
<1>6. HeadAligned'
  BY <1>1 DEF HeadAligned, RingTypeOK
<1>7. FrontView' = FrontView
  BY <1>1, Zenon DEF FrontView
<1>8. data_head <= khead /\ data_head \in Int /\ data_tail \in Int /\ khead \in Int
  BY DEF RingTypeOK
<1>9. Located'
  BY <1>1, <1>7, <1>8 DEF Located, lockVars
<1> QED
  BY <1>4, <1>5, <1>6, <1>9, Zenon

(* Line 215 moves data_tail past exactly one record, never past data_head. *)
LEMMA AdvanceTailKeeps ==
  ASSUME RingInv, NEW t \in Threads, AdvanceTail(t)
  PROVE  /\ RingTypeOK' /\ UnreadOK' /\ Contents' /\ HeadAligned' /\ Located'
         /\ DOMAIN view' = Threads
<1> USE DEF RingInv
<1> DEFINE n == unread[1].rec.size
<1>1. data_tail < data_head /\ view[t] = FrontView /\ mapped
  BY Zenon DEF AdvanceTail, At, Located
<1>2. ring[view[t].begin] = unread[1] /\ n \in 1..Len(unread)
  <2>1. ring[data_tail % Size] = unread[1] /\ n \in 1..Len(unread)
    BY ONLY <1>1, RingInv, FrontData, Zenon DEF RingInv
  <2>2. view[t].begin = data_tail % Size
    BY ONLY <1>1 DEF FrontView
  <2> QED BY ONLY <2>1, <2>2, Zenon
<1>3. /\ data_tail' = data_tail + n
      /\ unread' = SubSeq(unread, n + 1, Len(unread))
      /\ pc' = [pc EXCEPT ![t] = "loop"]
      /\ view' = [view EXCEPT ![t] = NoView]
      /\ UNCHANGED <<lockVars, ring, kernelVars, position>>
  BY <1>2, Zenon DEF AdvanceTail, TailAfter, Goto
<1>4. /\ Len(unread) \in Nat /\ Len(unread) > 0
      /\ Len(unread) = khead - data_tail /\ unread \in Seq(RingWords)
      /\ data_tail \in Nat /\ data_head \in Nat /\ khead \in Nat /\ Size \in Nat \ {0}
      /\ data_head <= khead /\ khead <= data_tail + Size - 1
  BY <1>1, LenProperties, SizeAssumption DEF UnreadOK, RingTypeOK
<1>5. /\ unread' \in Seq(RingWords) /\ Len(unread') = Len(unread) - n
      /\ \A i \in 1..Len(unread') : unread'[i] = unread[n + i]
      /\ Framed(unread')
  BY <1>3, <1>4, FramedDrop, Zenon DEF UnreadOK
<1>6. \A k \in 1..n : unread[k] = [rec |-> unread[1].rec, word |-> k]
  BY <1>4, FramedFront, Zenon DEF UnreadOK
<1> HIDE DEF n
<1>7. data_tail + n <= data_head
  <2> SUFFICES ASSUME data_tail + n > data_head PROVE FALSE
    BY <1>2, <1>4
  <2> DEFINE k == data_head - data_tail + 1
  <2>1. data_head < khead /\ k \in 1..n /\ k # 1
    BY <1>1, <1>2, <1>4
  <2>2. unread[k].word = 1
    BY <2>1, Zenon DEF HeadAligned
  <2> HIDE DEF k
  <2>3. unread[k] = [rec |-> unread[1].rec, word |-> k]
    BY <1>6, <2>1, Zenon
  <2>4. unread[k].word = k
    BY ONLY <2>3
  <2> QED
    BY <2>1, <2>2, <2>4, Zenon
<1>8. RingTypeOK'
  BY <1>2, <1>3, <1>4, <1>7 DEF RingTypeOK, kernelVars
<1>9. UnreadOK'
  <2>1. khead' = khead /\ data_tail' = data_tail + n
    BY ONLY <1>3, Zenon DEF kernelVars
  <2>2. Len(unread') = khead' - data_tail'
    BY ONLY <1>2, <1>4, <1>5, <2>1
  <2> QED
    BY ONLY <1>5, <2>2, Zenon DEF UnreadOK
<1>10. Contents'
  <2> SUFFICES ASSUME NEW i \in 1..Len(unread')
               PROVE  ring[(data_tail + n + i - 1) % Size] = unread[n + i]
    BY <1>3, <1>5, Zenon DEF Contents
  <2>1. n + i \in 1..Len(unread) /\ data_tail + (n + i) - 1 = data_tail + n + i - 1
    <3>1. PICK a, b : a = Len(unread) /\ b = Len(unread')
      BY Zenon
    <3>2. a \in Nat /\ n \in 1..a /\ b = a - n /\ i \in 1..b /\ data_tail \in Nat
      BY ONLY <1>2, <1>4, <1>5, <3>1, i \in 1..Len(unread'), Zenon
    <3>3. n + i \in 1..a /\ data_tail + (n + i) - 1 = data_tail + n + i - 1
      BY ONLY <3>2
    <3> QED BY ONLY <3>1, <3>3, Zenon
  <2>2. ring[(data_tail + (n + i) - 1) % Size] = unread[n + i]
    BY ONLY <2>1, Contents DEF Contents
  <2> QED
    BY ONLY <2>1, <2>2, Zenon
<1>11. HeadAligned'
  <2> SUFFICES ASSUME data_head < khead
               PROVE  unread'[data_head - (data_tail + n) + 1].word = 1
    BY <1>3, Zenon DEF HeadAligned, kernelVars
  <2> DEFINE j == data_head - (data_tail + n) + 1
  <2>1. j \in 1..Len(unread') /\ n + j = data_head - data_tail + 1
    BY <1>2, <1>4, <1>5, <1>7
  <2> HIDE DEF j
  <2>2. unread'[j] = unread[data_head - data_tail + 1]
    BY <1>5, <2>1, Zenon
  <2> QED
    BY <2>2, Zenon DEF HeadAligned, j
<1>12. Located'
  <2>1. \A u \in Threads : pc[u] \in {"fetch", "callback", "advance"} => u = t
    BY <1>1, Zenon DEF MappedIsLive, LockInv, OneReader, Reading, AdvanceTail, At
  <2>2. pc \in [Threads -> Lines]
    BY Zenon DEF LockInv, LockTypeOK
  <2> QED
    BY <1>3, <2>1, <2>2, Zenon DEF Located
<1>13. DOMAIN view' = Threads
  BY <1>3, Zenon
<1> QED
  BY <1>8, <1>9, <1>10, <1>11, <1>12, <1>13, Zenon

(* Lines 177-192 leave the thread with a view of the oldest record. *)
LEMMA FetchKeeps ==
  ASSUME RingInv, NEW t \in Threads, Fetch(t)
  PROVE  Located' /\ DOMAIN view' = Threads
<1> USE DEF RingInv
<1>1. data_tail < data_head /\ mapped /\ pc[t] = "fetch"
  BY Zenon DEF Fetch, At, Located
<1>2. view' = [view EXCEPT ![t] = FrontView]
  <2> DEFINE begin == data_tail % Size
             r == unread[1].rec
  <2>1. ring[begin] = unread[1] /\ (Wraps(begin, r.size) => Copy(begin, r.size) = Words(r))
    BY <1>1, FrontData, Zenon
  <2>2. view' = [view EXCEPT ![t] =
                   [begin |-> begin, size |-> r.size, copied |-> Wraps(begin, r.size),
                    buf |-> IF Wraps(begin, r.size) THEN Copy(begin, r.size) ELSE <<>>]]
    BY <2>1, Zenon DEF Fetch
  <2>3. (IF Wraps(begin, r.size) THEN Copy(begin, r.size) ELSE <<>>)
          = (IF Wraps(begin, r.size) THEN Words(r) ELSE <<>>)
    BY <2>1, Zenon
  <2> QED
    BY <2>2, <2>3, Zenon DEF FrontView
<1>3. /\ pc' = [pc EXCEPT ![t] = "callback"] /\ pc \in [Threads -> Lines]
      /\ UNCHANGED <<lockVars, ring, data_tail, kernelVars, unread>>
  BY Zenon DEF Fetch, Goto, LockInv, LockTypeOK
<1>4. FrontView' = FrontView
  BY <1>3, Zenon DEF FrontView
<1> HIDE DEF RingInv
<1>5. DOMAIN view = Threads /\ Located
  BY Zenon DEF RingInv
<1>6. Located'
  BY <1>1, <1>2, <1>3, <1>4, <1>5, Zenon DEF Located, lockVars, kernelVars
<1> QED
  BY <1>2, <1>5, <1>6, Zenon

(* A callback's words are the oldest record's, so its argument is a number. *)
LEMMA CallbackData ==
  ASSUME RingInv, NEW t \in Threads, pc[t] = "callback", mapped
  PROVE  /\ Data(view[t]) = Words(unread[1].rec)
         /\ ring[view[t].begin].rec = unread[1].rec
         /\ unread[1].rec \in Recs
<1> USE DEF RingInv
<1> DEFINE begin == data_tail % Size
           r == unread[1].rec
<1>1. data_tail < data_head /\ view[t] = FrontView
  BY Zenon DEF Located
<1>2. /\ view[t].begin = begin /\ view[t].size = r.size
      /\ view[t].copied = Wraps(begin, r.size)
      /\ view[t].buf = IF Wraps(begin, r.size) THEN Words(r) ELSE <<>>
  BY <1>1 DEF FrontView
<1>3. /\ ring[begin] = unread[1] /\ r \in Recs
      /\ ~Wraps(begin, r.size) => [k \in 1..r.size |-> Load(begin + k - 1)] = Words(r)
  BY <1>1, FrontData, Zenon
<1> HIDE DEF begin, r
<1>4. Data(view[t]) = Words(r)
  BY <1>2, <1>3, Zenon DEF Data
<1> QED
  BY <1>2, <1>3, <1>4, Zenon DEF r

\* A callback moves the position only.
LEMMA CallbackKeeps ==
  ASSUME RingInv, NEW t \in Threads, Callback(t)
  PROVE  position' \in Nat
<1> DEFINE r == unread[1].rec
           d == Data(view[t])
<1>1. d = Words(r) /\ ring[view[t].begin].rec = r /\ r \in Recs
  BY CallbackData, Zenon DEF Callback, At
<1>2. /\ r.type = "LOST" => position' = position + LostCount(d)
      /\ r.type # "LOST" => position' = position \/ position' = d[2].rec.val
  BY <1>1, Zenon DEF Callback
<1>3. position \in Nat
  BY Zenon DEF RingInv, RingTypeOK
<1>4. r.size \in Nat \ {0, 1} /\ r.val \in Nat /\ (r.type = "LOST" => r.size = 3)
  BY <1>1, Zenon DEF Recs, LostSize
<1>5. \A k \in 1..r.size : d[k] = [rec |-> r, word |-> k]
  BY <1>1, WordsSeq, Zenon
<1> HIDE DEF r, d
<1>6. d[2].rec = r
  <2>1. 2 \in 1..r.size
    BY <1>4
  <2>2. d[2] = [rec |-> r, word |-> 2]
    BY <1>5, <2>1, Zenon
  <2> QED
    BY ONLY <2>2
<1>7. r.type = "LOST" => LostCount(d) \in Nat
  <2> SUFFICES ASSUME r.type = "LOST" PROVE LostCount(d) \in Nat
    BY Zenon
  <2>1. 3 \in 1..r.size
    BY <1>4
  <2>2. d[3] = [rec |-> r, word |-> 3]
    BY <1>5, <2>1, Zenon
  <2> QED
    BY <1>4, <2>2 DEF LostCount
<1> QED
  BY <1>2, <1>3, <1>4, <1>6, <1>7

(* A step that leaves the ring and its indices alone. *)
LEMMA QuietKeeps ==
  ASSUME RingInv,
         UNCHANGED <<ring, data_tail, data_head, khead, unread>>,
         klost' \in Nat, kevents' \in Nat, pollin' \in BOOLEAN, emitted' \in Nat,
         position' \in Nat
  PROVE  /\ RingTypeOK' /\ UnreadOK' /\ Contents' /\ HeadAligned'
         /\ FrontView' = FrontView
<1>1. RingTypeOK'
  BY Zenon DEF RingInv, RingTypeOK
<1>2. UnreadOK' /\ Contents' /\ HeadAligned'
  BY Zenon DEF RingInv, UnreadOK, Contents, HeadAligned
<1>3. FrontView' = FrontView
  BY Zenon DEF FrontView
<1> QED
  BY <1>1, <1>2, <1>3, Zenon

\* A step of the lock leaves the ring alone.
LEMMA LockStepKeeps ==
  ASSUME RingInv, UNCHANGED dataVars
  PROVE  /\ RingTypeOK' /\ UnreadOK' /\ Contents' /\ HeadAligned'
         /\ FrontView' = FrontView /\ UNCHANGED <<view, data_tail, data_head>>
<1>1. UNCHANGED <<view, ring, data_tail, data_head, khead, klost, kevents, pollin,
                  emitted, unread, position>>
  BY Zenon DEF dataVars, kernelVars
<1>2. klost' \in Nat /\ kevents' \in Nat /\ emitted' \in Nat /\ position' \in Nat
  BY <1>1, Zenon DEF RingInv, RingTypeOK
<1>3. pollin' \in BOOLEAN
  BY <1>1, Zenon DEF RingInv, RingTypeOK
<1> QED
  BY <1>1, <1>2, <1>3, QuietKeeps, Zenon

\* Every step of the kernel and of every thread keeps the invariant of the ring.
LEMMA RingInvNext == RingInv /\ [Next]_vars => RingInv'
<1> SUFFICES ASSUME RingInv, [Next]_vars PROVE RingInv'
  BY Zenon
<1> DEFINE Goal == /\ RingTypeOK' /\ DOMAIN view' = Threads
                   /\ UnreadOK' /\ Contents' /\ HeadAligned'
                   /\ MappedIsLive' /\ Located'
<1>1. LockInv'
  BY LockInvNext, Zenon DEF RingInv
<1>2. /\ LockInv /\ MappedIsLive /\ Located /\ DOMAIN view = Threads
      /\ pc \in [Threads -> Lines]
  BY Zenon DEF RingInv, LockInv, LockTypeOK
<1>3. ASSUME UNCHANGED vars PROVE Goal
  <2>1. UNCHANGED dataVars /\ UNCHANGED <<lockVars, pc>>
    BY <1>3, Zenon DEF vars, dataVars
  <2> QED
    BY <1>2, <2>1, LockStepKeeps, Zenon DEF MappedIsLive, Located, lockVars
<1>4. ASSUME KernelDrop PROVE Goal
  <2>1. /\ UNCHANGED <<lockVars, pc, view, ring, data_tail, data_head, khead, kevents,
                       pollin, unread, position>>
        /\ klost' \in Nat /\ emitted' \in Nat
    BY <1>4 DEF KernelDrop, RingInv, RingTypeOK
  <2>2. pollin' \in BOOLEAN
    BY <2>1, Zenon DEF RingInv, RingTypeOK
  <2>3. kevents' \in Nat /\ position' \in Nat
    BY <2>1, Zenon DEF RingInv, RingTypeOK
  <2> QED
    BY <1>2, <2>1, <2>2, <2>3, QuietKeeps, Zenon DEF MappedIsLive, Located, lockVars
<1>5. ASSUME KernelWrite PROVE Goal
  <2>1. UNCHANGED <<lockVars, pc, view>>
    BY <1>5, Zenon DEF KernelWrite
  <2> QED
    BY <1>2, <1>5, <2>1, KernelWriteKeeps, Zenon DEF MappedIsLive, lockVars
<1>6. ASSUME KernelPublish PROVE Goal
  <2>1. UNCHANGED <<lockVars, pc, view>>
    BY <1>6, Zenon DEF KernelPublish
  <2> QED
    BY <1>2, <1>6, <2>1, KernelPublishKeeps, Zenon DEF MappedIsLive, lockVars
<1>7. ASSUME NEW t \in Pollers, perf_reader_poll(t) PROVE Goal
  <2>1. /\ UNCHANGED <<lockVars, view, ring, data_tail, data_head, khead, klost, kevents,
                       emitted, unread, position>>
        /\ pc' = [pc EXCEPT ![t] = "set_tid"]
    BY <1>7, Zenon DEF perf_reader_poll, Goto
  <2>2. pollin' \in BOOLEAN
    BY <1>7, Zenon DEF perf_reader_poll
  <2>3. klost' \in Nat /\ kevents' \in Nat /\ emitted' \in Nat /\ position' \in Nat
    BY <2>1, Zenon DEF RingInv, RingTypeOK
  <2> QED
    BY <1>2, <2>1, <2>2, <2>3, QuietKeeps, Zenon DEF MappedIsLive, Located, lockVars
<1>8. ASSUME NEW t \in Pollers, perf_reader_consume(t) PROVE Goal
  <2>1. UNCHANGED dataVars
    BY <1>8, Zenon DEF perf_reader_consume, ringVars
  <2> QED
    BY <1>2, <1>8, <2>1, LockStepKeeps, Zenon
    DEF perf_reader_consume, Goto, At, MappedIsLive, Located, lockVars
<1>9. ASSUME NEW t \in Pollers, CallbackFree(t) PROVE Goal
  <2>1. UNCHANGED dataVars
    BY <1>9, Zenon DEF CallbackFree, ringVars
  <2> QED
    BY <1>2, <1>9, <2>1, LockStepKeeps, Zenon
    DEF CallbackFree, Goto, At, MappedIsLive, Located, lockVars
<1>10. ASSUME NEW t \in Freers, perf_reader_free(t) PROVE Goal
  <2>1. UNCHANGED dataVars
    BY <1>10, Zenon DEF perf_reader_free, ringVars
  <2> QED
    BY <1>2, <1>10, <2>1, LockStepKeeps, Zenon
    DEF perf_reader_free, Goto, At, MappedIsLive, Located, lockVars
<1>11. ASSUME NEW t \in Threads, SetTid(t) PROVE Goal
  <2>1. UNCHANGED dataVars
    BY <1>11, Zenon DEF SetTid, ringVars
  <2> QED
    BY <1>2, <1>11, <2>1, LockStepKeeps, Zenon
    DEF SetTid, Goto, At, MappedIsLive, Located, lockVars
<1>12. ASSUME NEW t \in Threads, CasRead(t) PROVE Goal
  <2>1. UNCHANGED dataVars
    BY <1>12, Zenon DEF CasRead, ringVars
  <2> QED
    BY <1>2, <1>12, <2>1, LockStepKeeps, Zenon
    DEF CasRead, Goto, At, MappedIsLive, Located, lockVars
<1>13. ASSUME NEW t \in Threads, LoopTest(t) PROVE Goal
  <2>1. /\ UNCHANGED dataVars /\ UNCHANGED lockVars /\ mapped
        /\ pc' = [pc EXCEPT ![t] = IF HasRecord THEN "fetch" ELSE "release"]
    BY <1>13, Zenon DEF LoopTest, Goto, ringVars
  <2>2. HasRecord => data_tail < data_head
    BY DEF HasRecord, RingInv, RingTypeOK
  <2> QED
    BY <1>2, <2>1, <2>2, LockStepKeeps, Zenon DEF MappedIsLive, Located, lockVars
<1>14. ASSUME NEW t \in Threads, Fetch(t) PROVE Goal
  <2>1. /\ UNCHANGED <<lockVars, ring, data_tail, kernelVars, unread, position>>
        /\ pc' = [pc EXCEPT ![t] = "callback"]
    BY <1>14, Zenon DEF Fetch, Goto
  <2>2. klost' \in Nat /\ kevents' \in Nat /\ emitted' \in Nat /\ position' \in Nat
    BY <2>1, Zenon DEF RingInv, RingTypeOK, kernelVars
  <2>3. pollin' \in BOOLEAN
    BY <2>1, Zenon DEF RingInv, RingTypeOK, kernelVars
  <2>4. UNCHANGED <<ring, data_tail, data_head, khead, unread>>
    BY <2>1, Zenon DEF kernelVars
  <2>5. RingTypeOK' /\ UnreadOK' /\ Contents' /\ HeadAligned'
    BY <2>2, <2>3, <2>4, QuietKeeps, Zenon
  <2>6. MappedIsLive'
    BY <1>2, <2>1, Zenon DEF MappedIsLive, lockVars
  <2> QED
    BY <1>14, <2>5, <2>6, FetchKeeps, Zenon
<1>15. ASSUME NEW t \in Threads, Callback(t) PROVE Goal
  <2>1. /\ UNCHANGED <<lockVars, view, ring, data_tail, kernelVars, unread>>
        /\ pc' = [pc EXCEPT ![t] = "advance"] /\ pc[t] = "callback"
    BY <1>15, Zenon DEF Callback, Goto, At
  <2>2. klost' \in Nat /\ kevents' \in Nat /\ emitted' \in Nat
    BY <2>1, Zenon DEF RingInv, RingTypeOK, kernelVars
  <2>3. pollin' \in BOOLEAN
    BY <2>1, Zenon DEF RingInv, RingTypeOK, kernelVars
  <2>4. UNCHANGED <<ring, data_tail, data_head, khead, unread>>
    BY <2>1, Zenon DEF kernelVars
  <2>5. /\ RingTypeOK' /\ UnreadOK' /\ Contents' /\ HeadAligned'
        /\ FrontView' = FrontView
    BY <1>15, <2>2, <2>3, <2>4, QuietKeeps, CallbackKeeps, Zenon
  <2> QED
    BY <1>2, <2>1, <2>4, <2>5, Zenon DEF MappedIsLive, Located, lockVars
<1>16. ASSUME NEW t \in Threads, AdvanceTail(t) PROVE Goal
  <2>1. MappedIsLive'
    BY <1>2, <1>16, Zenon DEF AdvanceTail, Goto, MappedIsLive, lockVars
  <2> QED
    BY <1>16, <2>1, AdvanceTailKeeps, Zenon
<1>17. ASSUME NEW t \in Threads, Release(t) PROVE Goal
  <2>1. UNCHANGED dataVars
    BY <1>17, Zenon DEF Release, ringVars
  <2> QED
    BY <1>2, <1>17, <2>1, LockStepKeeps, Zenon
    DEF Release, Goto, At, MappedIsLive, Located, lockVars
<1>18. ASSUME NEW t \in Threads, ClearTid(t) PROVE Goal
  <2>1. UNCHANGED dataVars
    BY <1>18, Zenon DEF ClearTid, ringVars
  <2> QED
    BY <1>2, <1>18, <2>1, LockStepKeeps, Zenon
    DEF ClearTid, Goto, At, MappedIsLive, Located, lockVars
<1>19. ASSUME NEW t \in Threads, Fault(t) PROVE Goal
  <2>1. UNCHANGED dataVars
    BY <1>19, Zenon DEF Fault, ringVars
  <2> QED
    BY <1>2, <1>19, <2>1, LockStepKeeps, Zenon
    DEF Fault, Goto, At, MappedIsLive, Located, lockVars
<1>20. ASSUME NEW t \in Threads, CasMunmap(t) PROVE Goal
  <2>1. UNCHANGED dataVars
    BY <1>20, Zenon DEF CasMunmap, ringVars
  <2> QED
    BY <1>2, <1>20, <2>1, LockStepKeeps, Zenon
    DEF CasMunmap, Goto, At, MappedIsLive, Located, lockVars
<1>21. ASSUME NEW t \in Threads, CompareTid(t) PROVE Goal
  <2>1. UNCHANGED dataVars
    BY <1>21, Zenon DEF CompareTid, ringVars
  <2> QED
    BY <1>2, <1>21, <2>1, LockStepKeeps, Zenon
    DEF CompareTid, Goto, At, MappedIsLive, Located, lockVars
<1>22. ASSUME NEW t \in Threads, Munmap(t) PROVE Goal
  <2>1. UNCHANGED dataVars /\ ~mapped'
    BY <1>22, Zenon DEF Munmap, ringVars
  <2> QED
    BY <1>2, <2>1, LockStepKeeps, Zenon DEF MappedIsLive, Located
<1>23. ASSUME NEW t \in Threads, Dealloc(t) PROVE Goal
  <2>1. UNCHANGED dataVars /\ ~mapped'
    BY <1>2, <1>23, Zenon DEF Dealloc, At, MappedIsLive, ringVars
  <2> QED
    BY <1>2, <2>1, LockStepKeeps, Zenon DEF MappedIsLive, Located
<1>24. Goal
  BY <1>3, <1>4, <1>5, <1>6, <1>7, <1>8, <1>9, <1>10, <1>11, <1>12, <1>13, <1>14,
     <1>15, <1>16, <1>17, <1>18, <1>19, <1>20, <1>21, <1>22, <1>23, Zenon
  DEF Next, Kernel, EventRead, Free
<1> QED
  BY <1>1, <1>24, Zenon DEF RingInv

-----------------------------------------------------------------------------
\* The record of the reads line 169 refused is a Boolean: only line 169 and the
\* loop test of line 175 write it.
Refusals == refused \in BOOLEAN

\* No read has been refused when the reader is new.
LEMMA RefusalsInit == Init => Refusals
  BY Zenon DEF Init, Refusals

\* A refused read sets it, a loop test that finds the ring empty clears it.
LEMMA RefusalsNext == Refusals /\ [Next]_vars => Refusals'
<1> SUFFICES ASSUME Refusals, [Next]_vars PROVE Refusals'
  BY Zenon
<1> USE DEF Refusals
<1>1. CASE UNCHANGED vars \/ Kernel
  BY <1>1, Zenon DEF vars, Kernel, KernelDrop, KernelWrite, KernelPublish
<1>2. ASSUME NEW t \in Pollers,
             perf_reader_poll(t) \/ perf_reader_consume(t) \/ CallbackFree(t)
      PROVE  Refusals'
  BY <1>2, Zenon DEF perf_reader_poll, perf_reader_consume, CallbackFree, ringVars
<1>3. ASSUME NEW t \in Threads, CasRead(t) PROVE Refusals'
  BY <1>3, Zenon DEF CasRead
<1>4. ASSUME NEW t \in Threads, LoopTest(t) PROVE Refusals'
  BY <1>4, Zenon DEF LoopTest
<1>5. ASSUME NEW t \in Threads, EventRead(t), ~CasRead(t), ~LoopTest(t) PROVE Refusals'
  BY <1>5, Zenon DEF EventRead, SetTid, Fetch, Callback, AdvanceTail, Release, ClearTid,
                     Fault, ringVars
<1>6. ASSUME NEW t \in Threads, perf_reader_free(t) \/ Free(t) PROVE Refusals'
  BY <1>6, Zenon DEF perf_reader_free, Free, CasMunmap, CompareTid, Munmap, Dealloc,
                     ringVars
<1> QED
  BY <1>1, <1>2, <1>3, <1>4, <1>5, <1>6, ThreadsAssumption, Zenon DEF Next, EventRead

(* The reader's state is well formed in every reachable state: data_tail    *)
(* (line 215) never passes data_head, whatever the sizes of the records.    *)
THEOREM TypeOKHolds == Spec => []TypeOK
<1>1. RingInv /\ Refusals => TypeOK
  BY Zenon DEF RingInv, LockInv, TypeOK, Refusals
<1> QED
  BY RingInvInit, RingInvNext, RefusalsInit, RefusalsNext, <1>1, PTL DEF Spec

(* Every callback is handed the words of the oldest unread record, wrapped  *)
(* or not (lines 185-192), with any number of threads polling and freeing.  *)
THEOREM CallbackSeesOldestRecordHolds == Spec => []CallbackSeesOldestRecord
<1>1. RingInv => CallbackSeesOldestRecord
  BY CallbackData, Zenon DEF CallbackSeesOldestRecord
<1> QED
  BY RingInvInit, RingInvNext, <1>1, PTL DEF Spec

-----------------------------------------------------------------------------
(* The stream: the samples the records of the ring account for.             *)

\* How far a record takes its reader in the stream.
Amount(r) == IF r.type = "LOST" THEN r.val ELSE 1
Stamp(r, a, b) ==
  b = a + Amount(r) /\ Amount(r) >= 1 /\ (r.type # "LOST" => r.val = b)

\* f[k] is the position in the stream of a reader that has read k words, where a
\* record ends there: the records take it from "from" to "to".
Stamped(s, f, from, to) ==
  /\ f \in [0..Len(s) -> Nat] /\ f[0] = from /\ f[Len(s)] = to
  /\ \A k \in 0..Len(s) : f[k] <= to
  /\ \A i \in 1..Len(s) :
       s[i].word = 1 => Stamp(s[i].rec, f[i - 1], f[i - 1 + s[i].rec.size])

\* The callback for the oldest record was called and data_tail not yet moved.
Handled == \E t \in Threads : pc[t] = "advance"

\* What the ring holds and the kernel still has to report lead from the user's
\* position to the last sample emitted.
Accounted ==
  \E f, from, to :
    /\ Stamped(unread, f, from, to)
    /\ to + klost = emitted
    /\ position = from + (IF Handled THEN Amount(unread[1].rec) ELSE 0)
StreamInv == mapped => Accounted

\* A record more at the end.
LEMMA StampedAppend ==
  ASSUME NEW s \in Seq(RingWords), Framed(s), NEW f, NEW from, NEW to,
         Stamped(s, f, from, to), NEW r \in Recs, NEW next, Stamp(r, to, next)
  PROVE  \E g : Stamped(s \o Words(r), g, from, next)
<1>1. PICK n : n = Len(s)
  BY Zenon
<1>2. PICK m : m = r.size
  BY Zenon
<1>3. n \in Nat /\ m \in Nat \ {0, 1} /\ to \in Nat /\ next \in Nat /\ to < next
  <2>1. n \in Nat /\ m \in Nat \ {0, 1} /\ r.val \in Nat
    BY <1>1, <1>2, LenProperties, Zenon DEF Recs
  <2>2. f \in [0..n -> Nat] /\ f[n] = to
    BY <1>1, Zenon DEF Stamped
  <2>3. to \in Nat
    BY ONLY <2>1, <2>2
  <2> QED BY <2>1, <2>3 DEF Stamp, Amount
<1>4. PICK w : w = s \o Words(r)
  BY Zenon
<1>5. /\ Words(r) \in Seq(RingWords) /\ Len(Words(r)) = m
      /\ \A k \in 1..m : Words(r)[k] = [rec |-> r, word |-> k]
  BY <1>2, WordsSeq, Zenon
<1>6. /\ w \in Seq(RingWords) /\ Len(w) = n + m
      /\ \A i \in 1..n : w[i] = s[i]
      /\ \A i \in (n + 1)..(n + m) : w[i] = Words(r)[i - n]
  <2>1. PICK v : v = Words(r)
    BY Zenon
  <2>2. v \in Seq(RingWords) /\ Len(v) = m /\ w = s \o v
    BY ONLY <1>4, <1>5, <2>1, Zenon
  <2>3. /\ s \o v \in Seq(RingWords) /\ Len(s \o v) = Len(s) + Len(v)
        /\ \A i \in 1 .. Len(s) + Len(v) :
             (s \o v)[i] = IF i <= Len(s) THEN s[i] ELSE v[i - Len(s)]
    BY ONLY s \in Seq(RingWords), <2>2, ConcatProperties, Zenon
  <2>4. /\ w \in Seq(RingWords) /\ Len(w) = n + m
        /\ \A i \in 1..(n + m) : w[i] = IF i <= n THEN s[i] ELSE v[i - n]
    BY ONLY <1>1, <2>2, <2>3, Zenon
  <2>5. ASSUME NEW i \in 1..n PROVE w[i] = s[i]
    <3>1. i \in 1..(n + m) /\ i <= n
      BY ONLY <1>3, <2>5
    <3> QED BY ONLY <2>4, <3>1, Zenon
  <2>6. ASSUME NEW i \in (n + 1)..(n + m) PROVE w[i] = v[i - n]
    <3>1. i \in 1..(n + m) /\ ~(i <= n)
      BY ONLY <1>3, <2>6
    <3> QED BY ONLY <2>4, <3>1, Zenon
  <2> QED BY ONLY <2>1, <2>4, <2>5, <2>6, Zenon
<1>7. PICK g : g = [k \in 0..(n + m) |-> IF k <= n THEN f[k] ELSE IF k < n + m THEN to ELSE next]
  BY Zenon
<1>8. /\ f \in [0..n -> Nat] /\ f[0] = from /\ f[n] = to /\ \A k \in 0..n : f[k] <= to
  BY <1>1, Zenon DEF Stamped
<1>9. g \in [0..(n + m) -> Nat] /\ g[0] = from /\ g[n + m] = next /\ g[n] = to
  BY <1>3, <1>7, <1>8
<1>10. \A k \in 0..(n + m) : g[k] <= next
  BY <1>3, <1>7, <1>8
<1>11. ASSUME NEW i \in 1..(n + m), w[i].word = 1
       PROVE  Stamp(w[i].rec, g[i - 1], g[i - 1 + w[i].rec.size])
  <2>1. CASE i <= n
    <3>1. w[i] = s[i] /\ i \in 1..n
      BY <1>3, <1>6, <2>1
    <3>2. Stamp(s[i].rec, f[i - 1], f[i - 1 + s[i].rec.size])
      BY <1>1, <1>11, <3>1, Zenon DEF Stamped
    <3>3. s[i].rec.size \in Nat /\ i - 1 + s[i].rec.size <= n
      <4>1. s[i].rec.size \in Nat /\ i - s[i].word + s[i].rec.size <= n
        BY <1>1, <3>1, WordOf, Zenon DEF Framed
      <4> QED BY <1>11, <3>1, <4>1, Zenon
    <3>4. g[i - 1] = f[i - 1] /\ g[i - 1 + s[i].rec.size] = f[i - 1 + s[i].rec.size]
      <4>1. PICK z \in Nat : z = s[i].rec.size /\ i - 1 + z <= n
        BY <3>3, Zenon
      <4>2. i - 1 \in 0..(n + m) /\ i - 1 <= n /\ i - 1 + z \in 0..(n + m)
        BY ONLY <1>3, <3>1, <4>1
      <4>3. g[i - 1] = f[i - 1] /\ g[i - 1 + z] = f[i - 1 + z]
        BY ONLY <1>7, <4>1, <4>2, Zenon
      <4> QED BY ONLY <4>1, <4>3, Zenon
    <3> QED BY <3>1, <3>2, <3>4, Zenon
  <2>2. CASE i > n
    <3>1. i - n \in 1..m /\ i \in (n + 1)..(n + m)
      BY <1>3, <2>2
    <3>2. w[i] = [rec |-> r, word |-> i - n]
      BY <1>5, <1>6, <3>1, Zenon
    <3>3. i - n = 1 /\ w[i].rec = r
      BY ONLY w[i].word = 1, <3>2
    <3>4. i - 1 = n /\ i - 1 + m = n + m
      BY <1>3, <3>3
    <3> QED BY <1>2, <1>9, <3>3, <3>4, Zenon
  <2> QED BY <1>3, <2>1, <2>2
<1>12. Stamped(w, g, from, next)
  BY <1>6, <1>9, <1>10, <1>11, Zenon DEF Stamped
<1> QED BY <1>4, <1>12, Zenon

\* The oldest record read.
LEMMA StampedDrop ==
  ASSUME NEW s \in Seq(RingWords), Framed(s), Len(s) > 0, NEW f, NEW from, NEW to,
         Stamped(s, f, from, to), NEW d, d = SubSeq(s, s[1].rec.size + 1, Len(s))
  PROVE  \E g : Stamped(d, g, from + Amount(s[1].rec), to)
<1>1. PICK n : n = s[1].rec.size
  BY Zenon
<1>2. /\ d \in Seq(RingWords) /\ Len(d) = Len(s) - n
      /\ \A i \in 1..Len(d) : d[i] = s[n + i]
      /\ Framed(d)
  BY ONLY <1>1, s \in Seq(RingWords), Framed(s), Len(s) > 0,
          d = SubSeq(s, s[1].rec.size + 1, Len(s)), FramedDrop, Zenon
<1>3. n \in 1..Len(s) /\ s[1].word = 1 /\ Len(s) \in Nat
  BY ONLY <1>1, s \in Seq(RingWords), Framed(s), Len(s) > 0, FramedFront,
          LenProperties DEF Recs
<1>4. PICK m : m = Len(d)
  BY Zenon
<1>5. m \in Nat /\ Len(s) = m + n
  BY <1>2, <1>3, <1>4
<1>6. PICK g : g = [k \in 0..m |-> f[k + n]]
  BY Zenon
<1>7. /\ f \in [0..(m + n) -> Nat] /\ f[0] = from /\ f[m + n] = to
      /\ \A k \in 0..(m + n) : f[k] <= to
  BY ONLY <1>5, Stamped(s, f, from, to), Zenon DEF Stamped
<1>8. f[n] = from + Amount(s[1].rec)
  <2>1. Stamp(s[1].rec, f[1 - 1], f[1 - 1 + s[1].rec.size])
    <3>1. \A i \in 1..Len(s) :
            s[i].word = 1 => Stamp(s[i].rec, f[i - 1], f[i - 1 + s[i].rec.size])
      BY ONLY Stamped(s, f, from, to), Zenon DEF Stamped
    <3>2. 1 \in 1..Len(s)
      BY ONLY <1>3
    <3> QED BY ONLY <1>3, <3>1, <3>2, Zenon
  <2>2. 1 - 1 = 0 /\ 1 - 1 + s[1].rec.size = n
    BY <1>1, <1>3
  <2> QED BY <1>7, <2>1, <2>2, Zenon DEF Stamp
<1>9. /\ g \in [0..m -> Nat] /\ g[0] = f[n] /\ g[m] = to /\ \A k \in 0..m : g[k] <= to
  BY <1>3, <1>5, <1>6, <1>7
<1>10. ASSUME NEW i \in 1..m, d[i].word = 1
       PROVE  Stamp(d[i].rec, g[i - 1], g[i - 1 + d[i].rec.size])
  <2>1. d[i] = s[n + i] /\ n + i \in 1..Len(s)
    <3>1. i \in 1..Len(d)
      BY <1>4, Zenon
    <3>2. d[i] = s[n + i]
      BY <1>2, <3>1, Zenon
    <3>3. n + i \in 1..Len(s)
      BY <1>3, <1>5
    <3> QED BY <3>2, <3>3, Zenon
  <2>2. Stamp(d[i].rec, f[n + i - 1], f[n + i - 1 + d[i].rec.size])
    <3>1. PICK j : j = n + i
      BY Zenon
    <3>2. j \in 1..Len(s) /\ s[j].word = 1 /\ d[i].rec = s[j].rec
      BY <1>10, <2>1, <3>1, Zenon
    <3>3. Stamp(s[j].rec, f[j - 1], f[j - 1 + s[j].rec.size])
      BY <3>2, Zenon DEF Stamped
    <3>4. PICK y : y = d[i].rec
      BY Zenon
    <3>5. Stamp(y, f[j - 1], f[j - 1 + y.size])
      BY ONLY <3>2, <3>3, <3>4, Zenon
    <3>6. j - 1 = n + i - 1
      BY ONLY <1>3, <3>1, i \in 1..m
    <3> QED BY ONLY <3>4, <3>5, <3>6, Zenon
  <2>3. d[i].rec.size \in Nat /\ i - 1 + d[i].rec.size <= m
    <3>1. i \in 1..Len(d) /\ d \in Seq(RingWords) /\ Framed(d)
      BY <1>2, <1>4, Zenon
    <3>2. d[i].rec.size \in Nat
      BY <3>1, WordOf, Zenon
    <3>3. i - d[i].word + d[i].rec.size <= m
      BY <1>4, <3>1, Zenon DEF Framed
    <3> QED BY <1>10, <3>2, <3>3, Zenon
  <2>4. PICK z \in Nat : z = d[i].rec.size
    BY <2>3, Zenon
  <2>5. g[i - 1] = f[n + i - 1] /\ g[i - 1 + z] = f[n + i - 1 + z]
    <3>1. i - 1 \in 0..m /\ i - 1 + z \in 0..m
      BY ONLY <1>5, <2>3, <2>4, i \in 1..m
    <3>2. (i - 1) + n = n + i - 1 /\ (i - 1 + z) + n = n + i - 1 + z
      BY ONLY <1>3, <2>4, i \in 1..m
    <3> QED BY ONLY <1>6, <3>1, <3>2, Zenon
  <2> QED BY <2>2, <2>4, <2>5, Zenon
<1>11. Stamped(d, g, from + Amount(s[1].rec), to)
  BY <1>4, <1>8, <1>9, <1>10, Zenon DEF Stamped
<1> QED BY <1>11, Zenon


\* What the kernel outputs leads from what it has reported to the last sample.
LEMMA StampedOutput ==
  ASSUME RingTypeOK, NEW size \in SampleSizes, UnreadOK,
         NEW f, NEW from, NEW to, Stamped(unread, f, from, to), to + klost = emitted
  PROVE  LET sample == Words(Record("SAMPLE", size, emitted + 1))
             words == IF klost > 0 THEN Words(Record("LOST", LostSize, klost)) \o sample
                                   ELSE sample
         IN  \E g : Stamped(unread \o words, g, from, emitted + 1)
<1> DEFINE s == Record("SAMPLE", size, emitted + 1)
           l == Record("LOST", LostSize, klost)
<1>1. s \in Recs /\ Stamp(s, emitted, emitted + 1)
  BY SizeAssumption DEF Recs, Record, RingTypeOK, Stamp, Amount
<1>2. klost > 0 => l \in Recs /\ Stamp(l, to, emitted)
  <2> SUFFICES ASSUME klost > 0 PROVE l \in Recs /\ Stamp(l, to, emitted)
    BY Zenon
  <2>1. klost \in Nat /\ emitted \in Nat
    BY Zenon DEF RingTypeOK
  <2>2. l \in Recs /\ l.type = "LOST" /\ l.val = klost
    BY <2>1 DEF Recs, Record, LostSize
  <2> QED BY <2>1, <2>2 DEF Stamp, Amount
<1> HIDE DEF s, l
<1>3. unread \in Seq(RingWords) /\ Framed(unread)
  BY Zenon DEF UnreadOK
<1>4. CASE klost > 0
  <2>1. PICK h : Stamped(unread \o Words(l), h, from, emitted)
    BY <1>2, <1>3, <1>4, StampedAppend, Zenon
  <2>2. Words(l) \in Seq(RingWords) /\ Framed(Words(l)) /\ Words(s) \in Seq(RingWords)
    BY <1>1, <1>2, <1>4, WordsSeq, FramedWords, Zenon
  <2>3. unread \o Words(l) \in Seq(RingWords) /\ Framed(unread \o Words(l))
    BY <1>3, <2>2, FramedConcat, ConcatProperties, Zenon
  <2>4. PICK g : Stamped((unread \o Words(l)) \o Words(s), g, from, emitted + 1)
    BY <1>1, <2>1, <2>3, StampedAppend, Zenon
  <2>5. (unread \o Words(l)) \o Words(s) = unread \o (Words(l) \o Words(s))
    <3>1. PICK a, b : a = Words(l) /\ b = Words(s)
      BY ONLY TRUE, Zenon
    <3>2. unread \in Seq(RingWords) /\ a \in Seq(RingWords) /\ b \in Seq(RingWords)
      BY ONLY <1>3, <2>2, <3>1, Zenon
    <3>3. (unread \o a) \o b = unread \o (a \o b)
      BY ONLY <3>2, ConcatAssociative
    <3> QED BY ONLY <3>1, <3>3, Zenon
  <2>6. \E x : Stamped(unread \o (Words(l) \o Words(s)), x, from, emitted + 1)
    BY <2>4, <2>5, Zenon
  <2> QED BY <1>4, <2>6, Zenon DEF s, l
<1>5. CASE ~(klost > 0)
  <2>1. to = emitted
    <3>1. klost \in Nat /\ emitted \in Nat /\ Len(unread) \in Nat
      BY <1>3, LenProperties, Zenon DEF RingTypeOK
    <3>2. to \in Nat
      BY <3>1 DEF Stamped
    <3> QED BY <1>5, <3>1, <3>2
  <2>2. \E x : Stamped(unread \o Words(s), x, from, emitted + 1)
    BY <1>1, <1>3, <2>1, StampedAppend, Zenon
  <2> QED BY <1>5, <2>2, Zenon DEF s, l
<1> QED BY <1>4, <1>5, Zenon

\* The callback tells its user of the oldest record: the sample it carries, or
\* how many samples are missing.
LEMMA CallbackReports ==
  ASSUME RingInv, NEW t \in Threads, Callback(t), NEW r, r = unread[1].rec
  PROVE  /\ r.type = "LOST" => /\ position' = position + r.val
                               /\ called' = [cb |-> "lost", arg |-> r.val]
         /\ r.type # "LOST" => /\ position' = r.val
                               /\ called' = [cb |-> "raw", arg |-> r.val]
<1>1. PICK d : d = Data(view[t])
  BY Zenon
<1>2. d = Words(r) /\ ring[view[t].begin].rec = r /\ r \in Recs
  BY <1>1, CallbackData, Zenon DEF Callback, At
<1>3. /\ r.type = "LOST" => /\ position' = position + LostCount(d)
                            /\ called' = [cb |-> "lost", arg |-> LostCount(d)]
      /\ r.type = "SAMPLE" /\ parse_sw(d, r.size) =>
           position' = d[2].rec.val /\ called' = [cb |-> "raw", arg |-> d[2].rec.val]
  BY ONLY <1>1, <1>2, Callback(t), Zenon DEF Callback
<1>4. /\ r.size \in Nat \ {0, 1} /\ r.type \in {"SAMPLE", "LOST"}
      /\ r.type = "LOST" => r.size = 3
  BY ONLY <1>2, Zenon DEF Recs, LostSize
<1>5. \A k \in 1..r.size : d[k] = [rec |-> r, word |-> k]
  BY <1>2, WordsSeq, Zenon
<1>6. d[2].rec = r /\ d[2].word = 2
  <2>1. 2 \in 1..r.size
    BY <1>4
  <2>2. d[2] = [rec |-> r, word |-> 2]
    BY <1>5, <2>1, Zenon
  <2> QED BY ONLY <2>2
<1>7. parse_sw(d, r.size)
  BY <1>4, <1>6 DEF parse_sw, RawSize
<1>8. r.type = "LOST" => LostCount(d) = r.val
  <2> SUFFICES ASSUME r.type = "LOST" PROVE LostCount(d) = r.val
    BY Zenon
  <2>1. 3 \in 1..r.size
    BY <1>4
  <2>2. d[3] = [rec |-> r, word |-> 3]
    BY <1>5, <2>1, Zenon
  <2> QED BY ONLY <2>2 DEF LostCount
<1> QED BY <1>3, <1>4, <1>6, <1>7, <1>8, Zenon

\* Only the thread in the read loop has a record in hand.
LEMMA HandledAlone ==
  ASSUME RingInv, mapped, NEW t \in Threads, pc[t] \in {"fetch", "callback", "advance"}
  PROVE  Handled <=> pc[t] = "advance"
<1>1. \A u \in Threads : pc[u] = "advance" => u = t
  BY Zenon DEF RingInv, MappedIsLive, LockInv, OneReader, Reading
<1> QED BY <1>1, Zenon DEF Handled


StreamStep == Stream!StreamNext \/ UNCHANGED <<emitted, position, called>>

\* Nothing is emitted, dropped, reported or read.
LEMMA QuietStream ==
  ASSUME StreamInv, mapped' => mapped, Handled' <=> Handled,
         UNCHANGED <<unread, emitted, klost, position, called>>
  PROVE  StreamInv' /\ StreamStep
<1>1. SUFFICES ASSUME mapped' PROVE Accounted'
  BY Zenon DEF StreamInv, StreamStep
<1>2. PICK f, from, to :
        /\ Stamped(unread, f, from, to) /\ to + klost = emitted
        /\ position = from + (IF Handled THEN Amount(unread[1].rec) ELSE 0)
  BY <1>1, Zenon DEF StreamInv, Accounted
<1>3. /\ Stamped(unread', f, from, to) /\ to + klost' = emitted'
      /\ position' = from + (IF Handled' THEN Amount(unread'[1].rec) ELSE 0)
  BY <1>2, Zenon
<1> QED BY <1>3, Zenon DEF Accounted

\* A step that takes a thread neither to line 215 nor away from it.
LEMMA LockStream ==
  ASSUME RingInv, StreamInv, mapped' => mapped, NEW t \in Threads, NEW l,
         pc' = [pc EXCEPT ![t] = l], l # "advance", pc[t] # "advance",
         UNCHANGED <<unread, emitted, klost, position, called>>
  PROVE  StreamInv' /\ StreamStep
<1>1. pc \in [Threads -> Lines]
  BY Zenon DEF RingInv, LockInv, LockTypeOK
<1>2. \A u \in Threads : pc'[u] = "advance" <=> pc[u] = "advance"
  BY <1>1, Zenon
<1>3. Handled' <=> Handled
  BY <1>2, Zenon DEF Handled
<1> QED BY <1>3, QuietStream, Zenon

\* A sample dropped joins those the kernel owes the reader a report of.
LEMMA DropStream ==
  ASSUME RingInv, StreamInv, KernelDrop
  PROVE  StreamInv' /\ StreamStep
<1>1. /\ mapped /\ emitted' = emitted + 1 /\ klost' = klost + 1
      /\ UNCHANGED <<pc, unread, position, called>>
      /\ klost \in Nat /\ emitted \in Nat /\ Len(unread) \in Nat
  BY LenProperties, Zenon DEF KernelDrop, RingInv, RingTypeOK, UnreadOK
<1>2. PICK f, from, to :
        /\ Stamped(unread, f, from, to) /\ to + klost = emitted
        /\ position = from + (IF Handled THEN Amount(unread[1].rec) ELSE 0)
  BY <1>1, Zenon DEF StreamInv, Accounted
<1>3. to + klost' = emitted'
  <2>1. to \in Nat
    BY <1>1, <1>2 DEF Stamped
  <2> QED BY <1>1, <1>2, <2>1
<1>4. Handled' <=> Handled
  BY <1>1, Zenon DEF Handled
<1>5. Stamped(unread', f, from, to)
  BY <1>1, <1>2, Zenon
<1>6. position' = from + (IF Handled' THEN Amount(unread'[1].rec) ELSE 0)
  BY <1>1, <1>2, <1>4, Zenon
<1>7. Accounted'
  BY <1>3, <1>5, <1>6, Zenon DEF Accounted
<1>8. Stream!Emit
  BY <1>1, Zenon DEF Stream!Emit
<1> QED BY <1>7, <1>8, Zenon DEF StreamInv, StreamStep, Stream!StreamNext

\* A sample written is preceded in the ring by the report the kernel owed.
LEMMA WriteStream ==
  ASSUME RingInv, StreamInv, KernelWrite
  PROVE  StreamInv' /\ StreamStep
<1>1. /\ mapped /\ emitted' = emitted + 1 /\ klost' = 0 /\ khead = data_head
      /\ UNCHANGED <<pc, position, called>> /\ emitted \in Nat
  BY Zenon DEF KernelWrite, RingInv, RingTypeOK
<1>2. PICK f, from, to :
        /\ Stamped(unread, f, from, to) /\ to + klost = emitted
        /\ position = from + (IF Handled THEN Amount(unread[1].rec) ELSE 0)
  BY <1>1, Zenon DEF StreamInv, Accounted
<1>3. PICK size \in SampleSizes :
        LET sample == Words(Record("SAMPLE", size, emitted + 1))
            words == IF klost > 0 THEN Words(Record("LOST", LostSize, klost)) \o sample
                                  ELSE sample
        IN  unread' = unread \o words
  BY Zenon DEF KernelWrite
<1>4. PICK words :
        words = IF klost > 0
                THEN Words(Record("LOST", LostSize, klost))
                       \o Words(Record("SAMPLE", size, emitted + 1))
                ELSE Words(Record("SAMPLE", size, emitted + 1))
  BY Zenon
<1>5. unread' = unread \o words
  BY <1>3, <1>4, Zenon
<1>6. RingTypeOK /\ UnreadOK
  BY Zenon DEF RingInv
<1>7. PICK g : Stamped(unread \o words, g, from, emitted + 1)
  BY <1>2, <1>4, <1>6, StampedOutput, Zenon
<1>8. Handled' <=> Handled
  BY <1>1, Zenon DEF Handled
<1>9. Handled => unread'[1] = unread[1]
  <2> SUFFICES ASSUME Handled PROVE unread'[1] = unread[1]
    BY Zenon
  <2>1. words \in Seq(RingWords) /\ unread \in Seq(RingWords)
    BY <1>4, <1>6, OutputWords, Zenon DEF UnreadOK
  <2>2. data_tail < data_head
    BY <1>1, Zenon DEF Handled, RingInv, Located
  <2>3. 1 <= Len(unread) /\ Len(unread) \in Nat /\ Len(words) \in Nat
    BY <1>1, <1>6, <2>1, <2>2, LenProperties DEF UnreadOK, RingTypeOK
  <2> QED BY <1>5, <2>1, <2>3, ConcatProperties
<1>10. position' = from + (IF Handled' THEN Amount(unread'[1].rec) ELSE 0)
  BY <1>1, <1>2, <1>8, <1>9, Zenon
<1>11. (emitted + 1) + klost' = emitted'
  BY <1>1
<1>12. Accounted'
  BY <1>5, <1>7, <1>10, <1>11, Zenon DEF Accounted
<1>13. Stream!Emit
  BY <1>1, Zenon DEF Stream!Emit
<1> QED BY <1>12, <1>13, Zenon DEF StreamInv, StreamStep, Stream!StreamNext


\* A callback takes its user over the oldest record: to the next sample, or over
\* the samples that record reports lost.
LEMMA CallbackStream ==
  ASSUME RingInv, StreamInv, NEW t \in Threads, Callback(t)
  PROVE  StreamInv' /\ StreamStep
<1>1. /\ mapped /\ pc[t] = "callback" /\ pc' = [pc EXCEPT ![t] = "advance"]
      /\ UNCHANGED <<mapped, unread, klost, emitted>>
  BY Zenon DEF Callback, At, Goto, lockVars, kernelVars
<1>2. /\ klost \in Nat /\ emitted \in Nat /\ position \in Nat
      /\ pc \in [Threads -> Lines]
  BY Zenon DEF RingInv, RingTypeOK, LockInv, LockTypeOK
<1>3. ~Handled
  BY <1>1, HandledAlone, Zenon
<1>4. PICK f, from, to :
        Stamped(unread, f, from, to) /\ to + klost = emitted /\ position = from
  <2>1. PICK f, from, to :
          /\ Stamped(unread, f, from, to) /\ to + klost = emitted
          /\ position = from + (IF Handled THEN Amount(unread[1].rec) ELSE 0)
    BY <1>1, Zenon DEF StreamInv, Accounted
  <2>2. from \in Nat
    <3>1. f \in [0..Len(unread) -> Nat] /\ f[0] = from
      BY <2>1, Zenon DEF Stamped
    <3>2. Len(unread) \in Nat
      BY LenProperties, Zenon DEF RingInv, UnreadOK
    <3> QED BY <3>1, <3>2
  <2>3. position = from
    BY <1>3, <2>1, <2>2
  <2> QED BY <2>1, <2>3, Zenon
<1>5. unread \in Seq(RingWords) /\ Framed(unread) /\ Len(unread) \in Nat /\ Len(unread) > 0
  <2>1. data_tail < data_head
    BY <1>1, Zenon DEF RingInv, Located
  <2> QED BY <2>1, LenProperties DEF RingInv, UnreadOK, RingTypeOK
<1>6. PICK r : r = unread[1].rec
  BY Zenon
<1>7. /\ unread[1].word = 1 /\ r \in Recs /\ r.size \in 1..Len(unread) /\ r.val \in Nat
  BY <1>5, <1>6, FramedFront DEF Recs
<1>8. PICK a : a = f[r.size]
  BY Zenon
<1>9. Stamp(r, position, a) /\ a <= emitted /\ a \in Nat
  <2>1. Stamp(unread[1].rec, f[1 - 1], f[1 - 1 + unread[1].rec.size])
    <3>1. \A i \in 1..Len(unread) :
            unread[i].word = 1 =>
              Stamp(unread[i].rec, f[i - 1], f[i - 1 + unread[i].rec.size])
      BY ONLY <1>4, Zenon DEF Stamped
    <3>2. 1 \in 1..Len(unread)
      BY ONLY <1>5
    <3> QED BY ONLY <1>7, <3>1, <3>2, Zenon
  <2>2. 1 - 1 = 0 /\ 1 - 1 + r.size = r.size
    BY ONLY <1>5, <1>7
  <2>3. f[0] = position
    BY ONLY <1>4, Zenon DEF Stamped
  <2>4. a <= to /\ a \in Nat /\ to \in Nat
    <3>1. /\ f \in [0..Len(unread) -> Nat] /\ f[Len(unread)] = to
          /\ \A k \in 0..Len(unread) : f[k] <= to
      BY ONLY <1>4, Zenon DEF Stamped
    <3>2. r.size \in 0..Len(unread) /\ Len(unread) \in 0..Len(unread)
      BY ONLY <1>5, <1>7
    <3> QED BY ONLY <1>8, <3>1, <3>2, Zenon
  <2>5. Stamp(r, position, a)
    BY ONLY <1>6, <1>8, <2>1, <2>2, <2>3, Zenon
  <2>6. a <= emitted
    BY ONLY <1>2, <1>4, <2>4
  <2> QED BY ONLY <2>4, <2>5, <2>6, Zenon
<1>10. position' = position + Amount(r)
  BY <1>6, <1>9, CallbackReports, Zenon DEF Stamp, Amount
<1>11. Handled'
  BY <1>1, <1>2, Zenon DEF Handled
<1>12. Accounted'
  <2>1. Stamped(unread', f, from, to) /\ to + klost' = emitted'
    BY <1>1, <1>4, Zenon
  <2>2. position' = from + (IF Handled' THEN Amount(unread'[1].rec) ELSE 0)
    BY <1>1, <1>4, <1>6, <1>10, <1>11, Zenon
  <2> QED BY <2>1, <2>2, Zenon DEF Accounted
<1>13. CASE r.type = "LOST"
  <2>1. r.val \in 1..(emitted - position)
    BY <1>2, <1>7, <1>9, <1>13 DEF Stamp, Amount
  <2>2. position' = position + r.val /\ called' = [cb |-> "lost", arg |-> r.val]
    BY <1>6, <1>13, CallbackReports, Zenon
  <2>3. Stream!ReportLost
    BY <1>1, <2>1, <2>2, Zenon DEF Stream!ReportLost
  <2> QED BY <1>12, <2>3, Zenon DEF StreamInv, StreamStep, Stream!StreamNext
<1>14. CASE r.type # "LOST"
  <2>1. r.val = position + 1 /\ position < emitted
    BY <1>2, <1>7, <1>9, <1>14 DEF Stamp, Amount
  <2>2. position' = r.val /\ called' = [cb |-> "raw", arg |-> r.val]
    BY <1>6, <1>14, CallbackReports, Zenon
  <2>3. Stream!DeliverNext
    BY <1>1, <2>1, <2>2, Zenon DEF Stream!DeliverNext
  <2> QED BY <1>12, <2>3, Zenon DEF StreamInv, StreamStep, Stream!StreamNext
<1> QED BY <1>13, <1>14, Zenon

\* Line 215 drops the record whose callback was called, and no other.
LEMMA AdvanceStream ==
  ASSUME RingInv, StreamInv, NEW t \in Threads, AdvanceTail(t)
  PROVE  StreamInv' /\ StreamStep
<1>1. /\ mapped /\ pc[t] = "advance" /\ pc' = [pc EXCEPT ![t] = "loop"]
      /\ UNCHANGED <<mapped, klost, emitted, position, called>>
  BY Zenon DEF AdvanceTail, At, Goto, lockVars, kernelVars
<1>2. Handled
  BY <1>1, Zenon DEF Handled
<1>3. ~Handled'
  <2>1. \A u \in Threads : pc[u] = "advance" => u = t
    BY <1>1, Zenon DEF RingInv, MappedIsLive, LockInv, OneReader, Reading
  <2>2. pc \in [Threads -> Lines]
    BY Zenon DEF RingInv, LockInv, LockTypeOK
  <2> QED BY <1>1, <2>1, <2>2, Zenon DEF Handled
<1>4. PICK f, from, to :
        /\ Stamped(unread, f, from, to) /\ to + klost = emitted
        /\ position = from + Amount(unread[1].rec)
  BY <1>1, <1>2, Zenon DEF StreamInv, Accounted
<1>5. data_tail < data_head /\ view[t] = FrontView
  BY <1>1, Zenon DEF RingInv, Located
<1>6. unread \in Seq(RingWords) /\ Framed(unread) /\ Len(unread) > 0
  BY <1>5, LenProperties DEF RingInv, UnreadOK, RingTypeOK
<1>7. unread' = SubSeq(unread, unread[1].rec.size + 1, Len(unread))
  <2>1. ring[view[t].begin] = unread[1]
    <3>1. ring[data_tail % Size] = unread[1]
      BY ONLY <1>5, RingInv, FrontData, Zenon DEF RingInv
    <3>2. view[t].begin = data_tail % Size
      BY ONLY <1>5 DEF FrontView
    <3> QED BY ONLY <3>1, <3>2, Zenon
  <2> QED BY <2>1, Zenon DEF AdvanceTail
<1>8. PICK g : Stamped(unread', g, position, to)
  <2>1. PICK d : d = SubSeq(unread, unread[1].rec.size + 1, Len(unread))
    BY Zenon
  <2>2. \E g : Stamped(d, g, from + Amount(unread[1].rec), to)
    BY <1>4, <1>6, <2>1, StampedDrop, Zenon
  <2> QED BY <1>4, <1>7, <2>1, <2>2, Zenon
<1>9. position \in Nat
  BY Zenon DEF RingInv, RingTypeOK
<1>10. position' = position + (IF Handled' THEN Amount(unread'[1].rec) ELSE 0)
  BY <1>1, <1>3, <1>9
<1>11. Accounted'
  BY <1>1, <1>4, <1>8, <1>10, Zenon DEF Accounted
<1> QED BY <1>1, <1>11, Zenon DEF StreamInv, StreamStep


\* At first nothing has been output, in the ring and in the abstract stream.
LEMMA StreamInvInit == Init => StreamInv /\ Stream!StreamInit
<1> SUFFICES ASSUME Init PROVE StreamInv /\ Stream!StreamInit
  BY Zenon
<1>1. Stream!StreamInit
  BY Zenon DEF Init, Stream!StreamInit, Stream!NoCall
<1>2. unread = <<>> /\ klost = 0 /\ emitted = 0 /\ position = 0 /\ ~Handled
  BY Zenon DEF Init, Handled
<1>3. PICK f : f = [k \in 0..0 |-> 0]
  BY Zenon
<1>4. Len(unread) = 0
  BY <1>2, Zenon
<1>5. Stamped(unread, f, 0, 0)
  <2>1. f \in [0..0 -> Nat] /\ f[0] = 0 /\ \A k \in 0..0 : f[k] <= 0
    BY <1>3
  <2>2. 1..Len(unread) = {} /\ 0..Len(unread) = 0..0
    BY ONLY <1>4
  <2> QED BY <1>4, <2>1, <2>2, Zenon DEF Stamped
<1>6. 0 + klost = emitted /\ position = 0 + (IF Handled THEN Amount(unread[1].rec) ELSE 0)
  BY <1>2
<1> QED BY <1>1, <1>5, <1>6, Zenon DEF StreamInv, Accounted

\* Every step keeps the ring's records in step with the stream, and is a step
\* of the stream or leaves it alone.
LEMMA StreamInvNext ==
  ASSUME RingInv, StreamInv, [Next]_vars
  PROVE  StreamInv' /\ StreamStep
<1> DEFINE Goal == StreamInv' /\ StreamStep
           Same == UNCHANGED <<unread, emitted, klost, position, called>>
<1>1. ASSUME UNCHANGED vars PROVE Goal
  <2>1. Same /\ UNCHANGED <<mapped, pc>>
    BY <1>1, Zenon DEF vars, lockVars, kernelVars
  <2> QED BY <2>1, QuietStream, Zenon DEF Handled
<1>2. ASSUME KernelPublish PROVE Goal
  <2>1. Same /\ UNCHANGED <<mapped, pc>>
    BY <1>2, Zenon DEF KernelPublish, lockVars
  <2> QED BY <2>1, QuietStream, Zenon DEF Handled
<1>3. ASSUME NEW t \in Threads, Fault(t) PROVE Goal
  <2>1. Same /\ UNCHANGED <<mapped, pc>>
    BY <1>3, Zenon DEF Fault, ringVars, dataVars, kernelVars
  <2> QED BY <2>1, QuietStream, Zenon DEF Handled
<1>4. Pollers \subseteq Threads /\ Freers \subseteq Threads
  BY ThreadsAssumption, Zenon
<1>5. ASSUME NEW t \in Pollers,
             perf_reader_poll(t) \/ perf_reader_consume(t) \/ CallbackFree(t)
      PROVE  Goal
  <2>1. PICK l : pc' = [pc EXCEPT ![t] = l] /\ l # "advance" /\ pc[t] # "advance"
    BY <1>5, Zenon DEF perf_reader_poll, perf_reader_consume, CallbackFree, Goto, At
  <2>2. Same /\ mapped' = mapped
    BY <1>5, Zenon DEF perf_reader_poll, perf_reader_consume, CallbackFree, ringVars,
        dataVars, kernelVars, lockVars
  <2> QED BY <1>4, <2>1, <2>2, LockStream, Zenon
<1>6. ASSUME NEW t \in Freers, perf_reader_free(t) PROVE Goal
  <2>1. PICK l : pc' = [pc EXCEPT ![t] = l] /\ l # "advance" /\ pc[t] # "advance"
    BY <1>6, Zenon DEF perf_reader_free, Goto, At
  <2>2. Same /\ mapped' = mapped
    BY <1>6, Zenon DEF perf_reader_free, ringVars, dataVars, kernelVars, lockVars
  <2> QED BY <1>4, <2>1, <2>2, LockStream, Zenon
<1>7. ASSUME NEW t \in Threads,
             SetTid(t) \/ CasRead(t) \/ LoopTest(t) \/ Fetch(t) \/ Release(t) \/ ClearTid(t)
      PROVE  Goal
  <2>1. PICK l : pc' = [pc EXCEPT ![t] = l] /\ l # "advance" /\ pc[t] # "advance"
    BY <1>7, Zenon DEF SetTid, CasRead, LoopTest, Fetch, Release, ClearTid, Goto, At
  <2>2. Same /\ mapped' = mapped
    BY <1>7, Zenon DEF SetTid, CasRead, LoopTest, Fetch, Release, ClearTid, ringVars,
        dataVars, kernelVars, lockVars
  <2> QED BY <2>1, <2>2, LockStream, Zenon
<1>8. ASSUME NEW t \in Threads, Free(t) PROVE Goal
  <2>1. PICK l : pc' = [pc EXCEPT ![t] = l] /\ l # "advance" /\ pc[t] # "advance"
    BY <1>8, Zenon DEF Free, CasMunmap, CompareTid, Munmap, Dealloc, Goto, At
  <2>2. Same /\ (mapped' => mapped)
    BY <1>8 DEF Free, CasMunmap, CompareTid, Munmap, Dealloc, ringVars, dataVars,
        kernelVars, lockVars
  <2> QED BY <2>1, <2>2, LockStream, Zenon
<1> HIDE DEF Goal
<1>9. KernelDrop \/ KernelWrite => Goal
  BY DropStream, WriteStream, Zenon DEF Goal
<1>10. ASSUME NEW t \in Threads PROVE Callback(t) \/ AdvanceTail(t) => Goal
  BY CallbackStream, AdvanceStream, Zenon DEF Goal
<1>11. Goal
  BY <1>1, <1>2, <1>3, <1>5, <1>6, <1>7, <1>8, <1>9, <1>10, Zenon DEF Next, Kernel, EventRead
<1> QED BY <1>11, Zenon DEF Goal

(* The reader implements the stream PerfStream describes, for a ring of any *)
(* size, records of any sizes and any number of threads: the callbacks of   *)
(* lines 194-213 tell the user of the samples in the order the programs     *)
(* emitted them, and report every gap with its exact size.                  *)
THEOREM StreamRefinementHolds == Spec => StreamRefinement
<1>1. Init => RingInv /\ StreamInv /\ Stream!StreamInit
  BY RingInvInit, StreamInvInit, Zenon
<1>2. RingInv /\ StreamInv /\ [Next]_vars => RingInv' /\ StreamInv'
  BY RingInvNext, StreamInvNext, Zenon
<1>3. RingInv /\ StreamInv /\ [Next]_vars => [Stream!StreamNext]_(Stream!streamVars)
  BY StreamInvNext, Zenon DEF StreamStep, Stream!streamVars
<1> QED
  BY <1>1, <1>2, <1>3, PTL DEF Spec, StreamRefinement, Stream!StreamSpec
=============================================================================
