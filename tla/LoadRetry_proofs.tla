-------------------------- MODULE LoadRetry_proofs --------------------------
(***************************************************************************)
(* For every width of the buffer size and every set of log lengths: what   *)
(* the kernel creates is what a call returns, and what the call allocates  *)
(* it releases at return_result.                                           *)
(***************************************************************************)
EXTENDS LoadRetry, FiniteSetTheorems, TLAPS

\* Where no attempt has been made yet, or the last one is known to have failed.
Attempting == {"map", "log_buf", "btf_id", "prog", "log", "malloc", "reload"}

\* One descriptor after a success and none after a failure, at every rung; this is
\* inductive because a rung repeats the call only after a failure.
OneCreated ==
  /\ ret \in {"ok", "err"}
  /\ loaded = IF ret = "ok" THEN 1 ELSE 0
  /\ pc \in Attempting => ret = "err"

\* Where the temporary buffer may, must and must not be there.
BufferPlaced ==
  /\ bufs \in {0, 1}
  /\ pc \in {"log_buf", "malloc", "map"} => bufs = 0
  /\ pc = "reload" => bufs = 1
  /\ pc = "returned" => bufs = 0 /\ btf_fd = FALSE

\* A system call after a failure keeps the count right.
LEMMA SyscallOnce ==
  ASSUME NEW as, NEW limit, NEW level, NEW room, OneCreated, ret = "err",
         Syscall(as, limit, level, room)
  PROVE  /\ ret' \in {"ok", "err"}
         /\ loaded' = IF ret' = "ok" THEN 1 ELSE 0
<1> DEFINE v == IF level > 0 /\ room = 0 THEN "EINVAL" ELSE Verdict(as, limit, level, room)
<1>1. loaded = 0
  BY Zenon DEF OneCreated
<1>2. /\ ret' = IF v = "ok" THEN "ok" ELSE "err"
      /\ loaded' = IF v = "ok" THEN loaded + 1 ELSE loaded
  BY Zenon DEF Syscall
<1> HIDE DEF v
<1> QED BY <1>1, <1>2

\* A rung keeps the count right and ends outside Attempting, or leaves all alone.
LEMMA RungOnce ==
  ASSUME OneCreated, NEW at, NEW next, NEW cond, NEW strip, next \notin Attempting,
         cond => ret = "err", Rung(at, next, cond, strip)
  PROVE  OneCreated'
<1>1. pc' = next
  BY Zenon DEF Rung
<1>2. CASE cond
  <2>1. Syscall(attrs \ strip, raised, log_level, Room)
    BY <1>2, Zenon DEF Rung
  <2> QED BY <2>1, <1>1, <1>2, SyscallOnce, Zenon DEF OneCreated
<1>3. CASE ~cond
  <2>1. UNCHANGED <<ret, loaded>>
    BY <1>3, Zenon DEF Rung, Skip
  <2> QED BY <2>1, <1>1, Zenon DEF OneCreated
<1> QED BY <1>2, <1>3, Zenon

\* So does the rung that raises the limit.
LEMMA RlimitOnce ==
  ASSUME OneCreated, NEW at, NEW next, next \notin Attempting, Rlimit(at, next)
  PROVE  OneCreated'
<1>1. pc' \notin Attempting
  BY Zenon DEF Rlimit, Attempting
<1>2. CASE Failed({"EPERM"}) /\ in.allow_rlimit /\ kern.raise
  <2>1. Syscall(attrs, TRUE, log_level, Room) /\ ret = "err"
    BY <1>2, Zenon DEF Rlimit, Failed
  <2> QED BY <2>1, <1>1, SyscallOnce, Zenon DEF OneCreated
<1>3. CASE ~(Failed({"EPERM"}) /\ in.allow_rlimit /\ kern.raise)
  <2>1. UNCHANGED <<ret, loaded>>
    BY <1>3, Zenon DEF Rlimit, Skip
  <2> QED BY <2>1, <1>1, Zenon DEF OneCreated
<1> QED BY <1>2, <1>3, Zenon

\* Every step keeps the count right.
LEMMA OneCreatedStep == OneCreated /\ [Next]_vars => OneCreated'
<1> SUFFICES ASSUME OneCreated, [Next]_vars PROVE OneCreated'
  BY Zenon
<1>1. CASE CreateMap
  <2>1. CASE First("map", "map_rlimit")
    <3>1. pc = "map"
      BY <2>1, Zenon DEF First, Rung
    <3>2. ret = "err"
      BY <3>1, Zenon DEF OneCreated, Attempting
    <3>3. Rung("map", "map_rlimit", TRUE, {}) /\ "map_rlimit" \notin Attempting
      BY <2>1, Zenon DEF First, Attempting
    <3> QED BY <3>2, <3>3, RungOnce, Zenon
  <2>2. CASE Rlimit("map_rlimit", "map_btf")
    BY <2>2, RlimitOnce, Zenon DEF Attempting
  <2>3. CASE Rung("map_btf", "map_name", "btf" \in attrs /\ Failed({"ENOTSUPP"}), {"btf"})
    BY <2>3, RungOnce, Zenon DEF Attempting, Failed
  <2>4. CASE Rung("map_name", "map_last", Name, {"name"})
    BY <2>4, RungOnce, Zenon DEF Attempting, Failed, Name
  <2>5. CASE LastRlimit("map_last", "done")
    BY <2>5, RlimitOnce, Zenon DEF Attempting, LastRlimit
  <2> QED BY <1>1, <2>1, <2>2, <2>3, <2>4, <2>5, Zenon DEF CreateMap
<1>2. CASE LoadProg
  <2>1. CASE LogBuf
    BY <2>1, Zenon DEF LogBuf, OneCreated, Attempting
  <2>2. CASE FindBtfId
    BY <2>2, Zenon DEF FindBtfId, OneCreated, Attempting
  <2>3. CASE First("prog", "prog_btf")
    <3>1. pc = "prog"
      BY <2>3, Zenon DEF First, Rung
    <3>2. ret = "err"
      BY <3>1, Zenon DEF OneCreated, Attempting
    <3>3. Rung("prog", "prog_btf", TRUE, {}) /\ "prog_btf" \notin Attempting
      BY <2>3, Zenon DEF First, Attempting
    <3> QED BY <3>2, <3>3, RungOnce, Zenon
  <2>4. CASE Rung("prog_btf", "prog_name", "btf" \in attrs /\ Failed({"EINVAL"}), {"btf"})
    BY <2>4, RungOnce, Zenon DEF Attempting, Failed
  <2>5. CASE Rung("prog_name", "prog_rlimit", Name, {"name"})
    BY <2>5, RungOnce, Zenon DEF Attempting, Failed, Name
  <2>6. CASE Rlimit("prog_rlimit", "too_big")
    BY <2>6, RlimitOnce, Zenon DEF Attempting
  <2>7. CASE TooBig
    BY <2>7, Zenon DEF TooBig, Skip, OneCreated, Attempting
  <2>8. CASE Log
    <3>1. pc = "log" /\ ret = "err"
      BY <2>8, Zenon DEF Log, OneCreated, Attempting
    <3>2. CASE in.user > 0 /\ pc' = "done" /\ Syscall(attrs, raised, 1, in.user)
      BY <3>1, <3>2, SyscallOnce, Zenon DEF OneCreated, Attempting
    <3>3. CASE UNCHANGED <<ret, loaded>>
      BY <3>1, <3>3, Zenon DEF OneCreated
    <3> QED BY <2>8, <3>2, <3>3, Zenon DEF Log, Skip
  <2>9. CASE Malloc
    BY <2>9, Zenon DEF Malloc, OneCreated, Attempting
  <2>10. CASE Reload
    <3>1. ret = "err" /\ Syscall(attrs, raised, log_level, size)
      BY <2>10, Zenon DEF Reload, OneCreated, Attempting
    <3>2. pc' = "done" \/ ret' = "err"
      BY <2>10, Zenon DEF Reload
    <3> QED BY <3>1, <3>2, SyscallOnce, Zenon DEF OneCreated, Attempting
  <2> QED BY <1>2, <2>1, <2>2, <2>3, <2>4, <2>5, <2>6, <2>7, <2>8, <2>9, <2>10, Zenon DEF LoadProg
<1>3. CASE Result
  BY <1>3, Zenon DEF Result, OneCreated, Attempting
<1>4. CASE UNCHANGED vars
  BY <1>4, Zenon DEF vars, OneCreated
<1> QED BY <1>1, <1>2, <1>3, <1>4, Zenon DEF Next

\* A call returns exactly the descriptor the kernel created, or none: no rung
\* repeats a call that succeeded, though errno still holds an earlier failure.
THEOREM CreatedOnce == Spec => []CreatedIsReturned
<1>1. Init => OneCreated
  BY Zenon DEF Init, OneCreated, Attempting
<1>2. OneCreated => CreatedIsReturned
  BY Zenon DEF OneCreated, CreatedIsReturned
<1> QED BY <1>1, <1>2, OneCreatedStep, PTL DEF Spec

-----------------------------------------------------------------------------
\* A rung does not touch the buffer or the descriptor.
LEMMA RungBuffers ==
  ASSUME BufferPlaced, NEW at, NEW next, NEW cond, NEW strip, Rung(at, next, cond, strip),
         next \notin {"log_buf", "malloc", "map", "reload", "returned"}
  PROVE  BufferPlaced'
BY Zenon DEF Rung, BufferPlaced

\* Nor does the rung that raises the limit.
LEMMA RlimitBuffers ==
  ASSUME BufferPlaced, NEW at, NEW next, Rlimit(at, next),
         next \notin {"log_buf", "malloc", "map", "reload", "returned"}
  PROVE  BufferPlaced'
<1>1. pc' \notin {"log_buf", "malloc", "map", "reload", "returned"} /\ UNCHANGED <<bufs, btf_fd>>
  BY Zenon DEF Rlimit
<1> QED BY <1>1, Zenon DEF BufferPlaced

\* Every step keeps the buffer in its place.
LEMMA BufferPlacedStep == BufferPlaced /\ [Next]_vars => BufferPlaced'
<1> SUFFICES ASSUME BufferPlaced, [Next]_vars PROVE BufferPlaced'
  BY Zenon
<1>1. CASE CreateMap
  <2>1. CASE First("map", "map_rlimit")
    BY <2>1, RungBuffers, Zenon DEF First
  <2>2. CASE Rlimit("map_rlimit", "map_btf")
    BY <2>2, RlimitBuffers, Zenon
  <2>3. CASE Rung("map_btf", "map_name", "btf" \in attrs /\ Failed({"ENOTSUPP"}), {"btf"})
    BY <2>3, RungBuffers, Zenon
  <2>4. CASE Rung("map_name", "map_last", Name, {"name"})
    BY <2>4, RungBuffers, Zenon
  <2>5. CASE LastRlimit("map_last", "done")
    BY <2>5, RlimitBuffers, Zenon DEF LastRlimit
  <2> QED BY <1>1, <2>1, <2>2, <2>3, <2>4, <2>5, Zenon DEF CreateMap
<1>2. CASE LoadProg
  <2>1. CASE LogBuf
    BY <2>1, Zenon DEF LogBuf, BufferPlaced
  <2>2. CASE FindBtfId
    BY <2>2, Zenon DEF FindBtfId, BufferPlaced
  <2>3. CASE First("prog", "prog_btf")
    BY <2>3, RungBuffers, Zenon DEF First
  <2>4. CASE Rung("prog_btf", "prog_name", "btf" \in attrs /\ Failed({"EINVAL"}), {"btf"})
    BY <2>4, RungBuffers, Zenon
  <2>5. CASE Rung("prog_name", "prog_rlimit", Name, {"name"})
    BY <2>5, RungBuffers, Zenon
  <2>6. CASE Rlimit("prog_rlimit", "too_big")
    BY <2>6, RlimitBuffers, Zenon
  <2>7. CASE TooBig
    BY <2>7, Zenon DEF TooBig, BufferPlaced
  <2>8. CASE Log
    BY <2>8, Zenon DEF Log, DropBuf, BufferPlaced
  <2>9. CASE Malloc
    BY <2>9 DEF Malloc, BufferPlaced
  <2>10. CASE Reload
    BY <2>10 DEF Reload, FreeBuf, BufferPlaced
  <2> QED BY <1>2, <2>1, <2>2, <2>3, <2>4, <2>5, <2>6, <2>7, <2>8, <2>9, <2>10, Zenon DEF LoadProg
<1>3. CASE Result
  BY <1>3 DEF Result, BufferPlaced
<1>4. CASE UNCHANGED vars
  BY <1>4, Zenon DEF vars, BufferPlaced
<1> QED BY <1>1, <1>2, <1>3, <1>4, Zenon DEF Next

\* Whatever the size of the log and however often it did not fit, the buffer is
\* freed once and the BTF descriptor closed when the call leaves by return_result.
THEOREM ReleasedOnce == Spec => []ReleasedAtResult
<1>1. Init => BufferPlaced
  BY Zenon DEF Init, BufferPlaced
<1>2. BufferPlaced => ReleasedAtResult
  BY Zenon DEF BufferPlaced, ReleasedAtResult
<1> QED BY <1>1, <1>2, BufferPlacedStep, PTL DEF Spec


-----------------------------------------------------------------------------
(* Powers of two, counted as the sets of numbers they are the number of.    *)

\* 2^n numbers the sets of numbers up to n.
LEMMA PowerSet ==
  ASSUME NEW n \in Nat
  PROVE  /\ IsFiniteSet(SUBSET (1..n)) /\ Cardinality(SUBSET (1..n)) = 2^n
         /\ 2^n \in Nat
<1>1. IsFiniteSet(1..n) /\ Cardinality(1..n) = n
  BY FS_Interval
<1>2. IsFiniteSet(SUBSET (1..n)) /\ Cardinality(SUBSET (1..n)) = 2^n
  BY <1>1, FS_SUBSET, Zenon
<1> QED BY <1>2, FS_CardinalityType, Zenon

\* They grow.
LEMMA PowerLess ==
  ASSUME NEW a \in Nat, NEW b \in Nat, a < b
  PROVE  2^a < 2^b
<1>1. /\ IsFiniteSet(SUBSET (1..b)) /\ Cardinality(SUBSET (1..b)) = 2^b /\ 2^b \in Nat
      /\ Cardinality(SUBSET (1..a)) = 2^a /\ 2^a \in Nat
  BY PowerSet, Zenon
<1>2. 1..a \subseteq 1..b
  OBVIOUS
<1>3. SUBSET (1..a) \in SUBSET (SUBSET (1..b))
  BY <1>2, Zenon
<1>4. {b} \in SUBSET (1..b) /\ {b} \notin SUBSET (1..a)
  OBVIOUS
<1>5. Cardinality(SUBSET (1..a)) <= Cardinality(SUBSET (1..b))
      /\ Cardinality(SUBSET (1..a)) # Cardinality(SUBSET (1..b))
  BY <1>1, <1>3, <1>4, FS_Subset, Zenon
<1> QED BY <1>1, <1>5

\* Each is twice the one before: a set of numbers up to n + 1 has n + 1 or not.
LEMMA PowerDouble ==
  ASSUME NEW n \in Nat
  PROVE  2^(n + 1) = 2 * 2^n
<1> DEFINE S == SUBSET (1..n)
           T == {x \in SUBSET (1..(n + 1)) : n + 1 \in x}
           f == [x \in S |-> x \cup {n + 1}]
<1>1. /\ IsFiniteSet(S) /\ Cardinality(S) = 2^n /\ 2^n \in Nat
      /\ IsFiniteSet(SUBSET (1..(n + 1))) /\ Cardinality(SUBSET (1..(n + 1))) = 2^(n + 1)
  <2>1. n + 1 \in Nat
    OBVIOUS
  <2> QED BY <2>1, PowerSet, Zenon
<1>2. 1..(n + 1) = (1..n) \cup {n + 1} /\ n + 1 \notin 1..n
  OBVIOUS
<1>3. f \in Bijection(S, T)
  <2>1. \A x \in S : x \cup {n + 1} \in T
    BY <1>2, Zenon
  <2>2. f \in [S -> T]
    BY <2>1, Zenon
  <2>3. ASSUME NEW x \in S, NEW y \in S, f[x] = f[y] PROVE x = y
    <3>1. x \cup {n + 1} = y \cup {n + 1} /\ n + 1 \notin x /\ n + 1 \notin y
      BY <1>2, <2>3, Zenon
    <3> QED BY <3>1
  <2>4. ASSUME NEW y \in T PROVE \E x \in S : f[x] = y
    <3>1. y \ {n + 1} \in S
      BY <1>2, <2>4, Zenon
    <3>2. f[y \ {n + 1}] = (y \ {n + 1}) \cup {n + 1}
      BY <3>1, Zenon
    <3>3. (y \ {n + 1}) \cup {n + 1} = y
      BY <2>4, Zenon
    <3> QED BY <3>1, <3>2, <3>3, Zenon
  <2>5. f \in Injection(S, T)
    BY <2>2, <2>3, Zenon DEF Injection, IsInjective
  <2>6. f \in Surjection(S, T)
    BY <2>2, <2>4, Zenon DEF Surjection
  <2> QED BY <2>5, <2>6, Zenon DEF Bijection
<1>4. IsFiniteSet(T) /\ Cardinality(T) = 2^n
  BY <1>1, <1>3, FS_Bijection DEF ExistsBijection
<1>5. SUBSET (1..(n + 1)) = S \cup T /\ S \cap T = {}
  <2>1. ASSUME NEW x \in SUBSET (1..(n + 1)) PROVE x \in S \/ x \in T
    BY <1>2, Zenon
  <2>2. S \subseteq SUBSET (1..(n + 1)) /\ T \subseteq SUBSET (1..(n + 1))
    BY <1>2, Zenon
  <2>3. S \cap T = {}
    BY <1>2, Zenon
  <2> QED BY <2>1, <2>2, <2>3, Zenon
<1>6. Cardinality(S \cap T) = 0
  BY <1>5, FS_EmptySet, Zenon
<1> HIDE DEF S, T
<1>7. Cardinality(S \cup T) = 2^n + 2^n - 0
  <2>1. Cardinality(S \cup T) = Cardinality(S) + Cardinality(T) - Cardinality(S \cap T)
    BY <1>1, <1>4, FS_Union, Zenon
  <2> QED BY <1>1, <1>4, <1>6, <2>1, Zenon
<1>8. PICK p : p = 2^n
  BY Zenon
<1>9. p \in Nat /\ 2^(n + 1) = p + p - 0
  BY <1>1, <1>5, <1>7, <1>8, Zenon
<1>10. p + p - 0 = 2 * p
  BY <1>9
<1> QED BY <1>8, <1>9, <1>10, Zenon


-----------------------------------------------------------------------------
(* The types.                                                               *)

\* What the system call answers, the check of libbpf_bpf_prog_load included.
Answer(as, limit, level, room) ==
  IF level > 0 /\ room = 0 THEN "EINVAL" ELSE Verdict(as, limit, level, room)

\* The kernel answers with an error the library knows of, or accepts.
LEMMA AnswerType ==
  ASSUME kern \in Kernels, NEW as, NEW limit, NEW level, NEW room
  PROVE  Answer(as, limit, level, room) \in Errors \cup {"ok"}
<1>1. kern.says \in {"EINVAL", "E2BIG"} /\ kern.fate \in {"ok", "EINVAL", "EACCES", "E2BIG"}
  BY Zenon DEF Kernels
<1> QED BY <1>1, Zenon DEF Answer, Verdict, Errors

\* A system call leaves what it was called with, and its answer.
LEMMA SyscallAnswers ==
  ASSUME NEW as, NEW limit, NEW level, NEW room, Syscall(as, limit, level, room)
  PROVE  /\ attrs' = as /\ raised' = limit /\ log_level' = level
         /\ \/ Answer(as, limit, level, room) = "ok" /\ ret' = "ok" /\ errno' = errno
            \/ /\ Answer(as, limit, level, room) # "ok" /\ ret' = "err"
               /\ errno' = Answer(as, limit, level, room)
BY Zenon DEF Syscall, Answer

\* All of the type invariant but the buffers, which BufferPlaced places.
Types ==
  /\ in \in Inputs /\ kern \in Kernels /\ attrs \subseteq in.attrs
  /\ ret \in {"ok", "err"} /\ errno \in Errors
  /\ log_level \in {0, 1} /\ size \in 0..(2^SizeBits - 1)
Flags == raised \in BOOLEAN /\ btf_fd \in BOOLEAN

\* A system call keeps the types.
LEMMA SyscallTypes ==
  ASSUME Types, Flags, NEW as, as \subseteq in.attrs, NEW limit \in BOOLEAN,
         NEW level \in {0, 1}, NEW room, Syscall(as, limit, level, room), UNCHANGED env
  PROVE  /\ in' \in Inputs /\ kern' \in Kernels /\ attrs' \subseteq in'.attrs
         /\ ret' \in {"ok", "err"} /\ errno' \in Errors
         /\ log_level' \in {0, 1} /\ raised' \in BOOLEAN
<1>1. /\ attrs' = as /\ raised' = limit /\ log_level' = level
      /\ ret' \in {"ok", "err"}
      /\ errno' = errno \/ (errno' = Answer(as, limit, level, room) /\ errno' # "ok")
  <2>1. PICK v : v = Answer(as, limit, level, room)
    BY Zenon
  <2>2. raised' = limit
    BY Zenon DEF Syscall
  <2>3. /\ attrs' = as /\ log_level' = level
        /\ \/ v = "ok" /\ ret' = "ok" /\ errno' = errno
           \/ v # "ok" /\ ret' = "err" /\ errno' = v
    BY <2>1, Zenon DEF Syscall, Answer
  <2> QED BY <2>1, <2>2, <2>3, Zenon
<1>2. Answer(as, limit, level, room) \in Errors \cup {"ok"}
  BY AnswerType, Zenon DEF Types
<1>3. in' = in /\ kern' = kern
  BY Zenon DEF env
<1>4. errno' \in Errors
  BY <1>1, <1>2, Zenon DEF Types
<1>5. raised' \in BOOLEAN
  BY <1>1, Zenon
<1> QED BY <1>1, <1>3, <1>4, <1>5, Zenon DEF Types

\* The type of the size holds at least 0 and 1.
LEMMA LimitType == 2^SizeBits \in Nat /\ 2^SizeBits > 1
<1>1. SizeBits \in Nat /\ 0 < SizeBits /\ 0 \in Nat
  BY LoadRetryAssumption
<1>2. 2^SizeBits \in Nat
  BY <1>1, PowerSet, Zenon
<1>3. 2^0 < 2^SizeBits
  BY <1>1, PowerLess, Zenon
<1>4. 2^0 = 1
  OBVIOUS
<1>5. PICK m : m = 2^SizeBits
  BY Zenon
<1>6. m \in Nat /\ m > 1
  BY <1>2, <1>3, <1>4, <1>5, Zenon
<1> QED BY <1>5, <1>6, Zenon

\* The next size is one the type can hold.
LEMMA DoubledType ==
  ASSUME size \in 0..(2^SizeBits - 1)
  PROVE  Doubled \in 0..(2^SizeBits - 1) /\ 1 \in 0..(2^SizeBits - 1)
<1>1. PICK m : m = 2^SizeBits
  BY Zenon
<1>2. m \in Nat /\ m > 1
  BY <1>1, LimitType, Zenon
<1>4. size \in Nat
  BY <1>1, <1>2
<1>5. (2 * size) % m \in 0..(m - 1) /\ 1 \in 0..(m - 1)
  <2>1. PICK d \in Nat : d = 2 * size
    BY <1>4
  <2>2. d % m \in 0..(m - 1)
    BY <1>2, <1>4
  <2> QED BY <1>2, <1>4, <2>1, <2>2
<1> QED BY <1>1, <1>5, Zenon DEF Doubled

\* A rung of either ladder keeps the types.
LEMMA RungTypes ==
  ASSUME Types, Flags, NEW at, NEW next, NEW cond, NEW strip, Rung(at, next, cond, strip)
  PROVE  Types' /\ Flags'
<1>1. UNCHANGED <<env, size, btf_fd>>
  BY Zenon DEF Rung
<1>2. CASE cond
  <2>1. Syscall(attrs \ strip, raised, log_level, Room)
    BY <1>2, Zenon DEF Rung
  <2>2. attrs \ strip \subseteq in.attrs /\ log_level \in {0, 1}
    BY Zenon DEF Types
  <2>3. raised \in BOOLEAN
    BY Zenon DEF Flags
  <2>4. /\ in' \in Inputs /\ kern' \in Kernels /\ attrs' \subseteq in'.attrs
        /\ ret' \in {"ok", "err"} /\ errno' \in Errors
        /\ log_level' \in {0, 1} /\ raised' \in BOOLEAN
    BY <1>1, <2>1, <2>2, <2>3, SyscallTypes, Zenon
  <2>5. Types'
    BY <1>1, <2>4, Zenon DEF Types
  <2> QED BY <1>1, <2>4, <2>5, Zenon DEF Flags
<1>3. CASE ~cond
  <2>1. UNCHANGED <<in, kern, attrs, ret, errno, log_level, size>> /\ UNCHANGED <<raised, btf_fd>>
    BY <1>1, <1>3, Zenon DEF Rung, Skip, env
  <2>2. Types'
    BY <2>1, Zenon DEF Types
  <2> QED BY <2>1, <2>2, Zenon DEF Flags
<1> QED BY <1>2, <1>3, Zenon

\* So does the rung that raises the memory limit.
LEMMA RlimitTypes ==
  ASSUME Types, Flags, NEW at, NEW next, Rlimit(at, next)
  PROVE  Types' /\ Flags'
<1>1. UNCHANGED <<env, size, btf_fd>>
  BY Zenon DEF Rlimit
<1>2. CASE Syscall(attrs, TRUE, log_level, Room)
  <2>1. /\ in' \in Inputs /\ kern' \in Kernels /\ attrs' \subseteq in'.attrs
        /\ ret' \in {"ok", "err"} /\ errno' \in Errors
        /\ log_level' \in {0, 1} /\ raised' \in BOOLEAN
    <3>1. attrs \subseteq in.attrs /\ log_level \in {0, 1} /\ TRUE \in BOOLEAN
      BY Zenon DEF Types
    <3> QED BY <1>1, <1>2, <3>1, SyscallTypes, Zenon
  <2>2. Types'
    BY <1>1, <2>1, Zenon DEF Types
  <2> QED BY <1>1, <2>1, <2>2, Zenon DEF Flags
<1>3. CASE Skip
  <2>1. UNCHANGED <<in, kern, attrs, ret, errno, log_level, size>> /\ UNCHANGED <<raised, btf_fd>>
    BY <1>1, <1>3, Zenon DEF Skip, env
  <2>2. Types'
    BY <2>1, Zenon DEF Types
  <2> QED BY <2>1, <2>2, Zenon DEF Flags
<1> QED BY <1>2, <1>3, Zenon DEF Rlimit


\* Every step keeps the types.
LEMMA TypesStep == Types /\ Flags /\ [Next]_vars => Types' /\ Flags'
<1> SUFFICES ASSUME Types, Flags, [Next]_vars PROVE Types' /\ Flags'
  BY Zenon
<1> DEFINE Goal == Types' /\ Flags'
<1>1. Doubled \in 0..(2^SizeBits - 1) /\ 1 \in 0..(2^SizeBits - 1)
  BY DoubledType, Zenon DEF Types
<1>2. ASSUME UNCHANGED <<in, kern, attrs>>, UNCHANGED <<raised, btf_fd>>,
             ret' \in {"ok", "err"}, errno' \in Errors, log_level' \in {0, 1},
             size' \in 0..(2^SizeBits - 1)
      PROVE  Goal
  <2>1. Types'
    BY <1>2, Zenon DEF Types
  <2> QED BY <1>2, <2>1, Zenon DEF Flags
<1>3. "ENOMEM" \in Errors /\ errno \in Errors /\ ret \in {"ok", "err"}
      /\ log_level \in {0, 1} /\ size \in 0..(2^SizeBits - 1)
  BY Zenon DEF Errors, Types
<1>4. CASE CreateMap
  BY <1>4, RungTypes, RlimitTypes, Zenon DEF CreateMap, First, LastRlimit
<1>5. CASE LogBuf
  BY <1>1, <1>2, <1>3, <1>5, Zenon DEF LogBuf, env
<1>6. CASE FindBtfId
  <2>1. UNCHANGED <<in, kern, attrs, ret, errno, log_level, size>> /\ raised' = raised
    BY <1>6, Zenon DEF FindBtfId, env
  <2>2. btf_fd' = TRUE \/ btf_fd' = btf_fd
    BY <1>6, Zenon DEF FindBtfId
  <2>3. Types'
    BY <2>1, Zenon DEF Types
  <2> QED BY <2>1, <2>2, <2>3, Zenon DEF Flags
<1>7. CASE \/ First("prog", "prog_btf")
           \/ Rung("prog_btf", "prog_name", "btf" \in attrs /\ Failed({"EINVAL"}), {"btf"})
           \/ Rung("prog_name", "prog_rlimit", Name, {"name"})
           \/ Rlimit("prog_rlimit", "too_big")
  BY <1>7, RungTypes, RlimitTypes, Zenon DEF First
<1>8. CASE TooBig
  BY <1>2, <1>3, <1>8, Zenon DEF TooBig, Skip, env
<1>9. CASE Log
  <2>1. CASE Syscall(attrs, raised, 1, in.user) /\ UNCHANGED size
    <3>1. UNCHANGED <<env, btf_fd>>
      BY <1>9, Zenon DEF Log
    <3>2. attrs \subseteq in.attrs /\ 1 \in {0, 1}
      BY Zenon DEF Types
    <3>3. raised \in BOOLEAN
      BY Zenon DEF Flags
    <3>4. /\ in' \in Inputs /\ kern' \in Kernels /\ attrs' \subseteq in'.attrs
          /\ ret' \in {"ok", "err"} /\ errno' \in Errors
          /\ log_level' \in {0, 1} /\ raised' \in BOOLEAN
      BY <2>1, <3>1, <3>2, <3>3, SyscallTypes, Zenon
    <3>5. Types'
      BY <2>1, <3>4, Zenon DEF Types
    <3> QED BY <3>1, <3>4, <3>5, Zenon DEF Flags
  <2>2. CASE Skip /\ UNCHANGED size
    BY <1>2, <1>3, <1>9, <2>2, Zenon DEF Log, Skip, env
  <2>3. CASE size' = 1 /\ log_level' = 1 /\ UNCHANGED <<ret, errno, loaded, attrs, raised>>
    BY <1>1, <1>2, <1>3, <1>9, <2>3, Zenon DEF Log, env
  <2> QED BY <1>9, <2>1, <2>2, <2>3, Zenon DEF Log
<1>10. CASE Malloc
  BY <1>2, <1>3, <1>10, Zenon DEF Malloc, env
<1>11. CASE Reload
  <2>1. UNCHANGED <<env, btf_fd>> /\ Syscall(attrs, raised, log_level, size)
    BY <1>11, Zenon DEF Reload
  <2>2. attrs \subseteq in.attrs /\ log_level \in {0, 1}
    BY Zenon DEF Types
  <2>3. raised \in BOOLEAN
    BY Zenon DEF Flags
  <2>4. /\ in' \in Inputs /\ kern' \in Kernels /\ attrs' \subseteq in'.attrs
        /\ ret' \in {"ok", "err"} /\ errno' \in Errors
        /\ log_level' \in {0, 1} /\ raised' \in BOOLEAN
    BY <2>1, <2>2, <2>3, SyscallTypes, Zenon
  <2>5. size' \in 0..(2^SizeBits - 1)
    BY <1>1, <1>3, <1>11, Zenon DEF Reload
  <2>6. Types'
    BY <2>4, <2>5, Zenon DEF Types
  <2> QED BY <2>1, <2>4, <2>6, Zenon DEF Flags
<1>12. CASE Result
  <2>1. UNCHANGED <<in, kern, attrs, ret, errno, log_level, size>> /\ raised' = raised
    BY <1>12, Zenon DEF Result, env
  <2>2. Types' /\ btf_fd' = FALSE
    BY <1>12, <2>1, Zenon DEF Types, Result
  <2> QED BY <2>1, <2>2, Zenon DEF Flags
<1>13. CASE UNCHANGED vars
  BY <1>2, <1>3, <1>13, Zenon DEF vars
<1> QED BY <1>4, <1>5, <1>6, <1>7, <1>8, <1>9, <1>10, <1>11, <1>12, <1>13, Zenon DEF Next, LoadProg

\* The first state has the types.
LEMMA TypesInit == Init => Types /\ Flags
<1> SUFFICES ASSUME Init PROVE Types /\ Flags
  BY Zenon
<1>1. in.log_level \in {0, 1} /\ in.attrs \subseteq in.attrs
  BY Zenon DEF Init, Inputs
<1>2. 0 \in 0..(2^SizeBits - 1)
  <2>1. PICK m : m = 2^SizeBits
    BY Zenon
  <2>2. m \in Nat /\ m > 1
    BY <2>1, LimitType, Zenon
  <2>3. 0 \in 0..(m - 1)
    BY <2>2
  <2> QED BY <2>1, <2>3, Zenon
<1>3. Types
  BY <1>1, <1>2, Zenon DEF Init, Types, Errors
<1>4. Flags
  BY Zenon DEF Init, Flags
<1> QED BY <1>3, <1>4, Zenon

\* The state is well formed whatever the width of the buffer size: it wraps around
\* within its type, and the loop loads into a buffer that is there.
THEOREM TypeOKHolds == Spec => []TypeOK
<1>1. Init => Types /\ Flags /\ BufferPlaced
  BY TypesInit, Zenon DEF Init, BufferPlaced
<1>2. Types /\ Flags /\ BufferPlaced => TypeOK
  <2> SUFFICES ASSUME Types, Flags, BufferPlaced PROVE TypeOK
    BY Zenon
  <2>1. bufs \in 0..1 /\ (pc = "reload" => bufs = 1)
    BY DEF BufferPlaced
  <2> QED BY <2>1, Zenon DEF Types, Flags, TypeOK
<1> QED BY <1>1, <1>2, TypesStep, BufferPlacedStep, PTL DEF Spec


-----------------------------------------------------------------------------
(* The ladder: which objections can be left at each rung, for a map or      *)
(* program that the kernel would accept.                                    *)

MapRungs == {"map", "map_rlimit", "map_btf", "map_name", "map_last"}
ProgRungs == {"prog", "prog_btf", "prog_name", "prog_rlimit", "too_big", "log"}
LogLoop == {"malloc", "reload"}
Tried == (MapRungs \cup ProgRungs) \ {"map", "prog"}

Given ==
  /\ "btf" \in in.attrs => "name" \notin kern.unknown
  /\ in.what = "map" => in.log_level = 0

\* The log asked for, and the room there is for it, on the way to the log loop.
Logging ==
  /\ pc \in MapRungs => in.what = "map"
  /\ pc \in ProgRungs \cup LogLoop \cup {"log_buf", "btf_id"} => in.what = "prog"
  /\ pc \in MapRungs \cup ProgRungs \cup {"log_buf", "btf_id"} => log_level <= in.log_level
  /\ pc \in ProgRungs \cup {"btf_id"} /\ log_level > 0 /\ in.user = 0 => size > 0
  /\ pc = "log_buf" => log_level = in.log_level
  /\ pc \in LogLoop => in.user = 0 /\ log_level = 1

Bad(a) == a \in attrs \cap kern.unknown
Clean == ~Bad("name") /\ ~Bad("btf")
Short == kern.low /\ ~raised

\* The last attempt met the first objection of what it was made with.
Objected == errno = Answer(attrs, raised, log_level, Room)

\* The loop has tried all smaller sizes, and none of them held the log.
Growing == \E i \in 0..(SizeBits - 1) : size = 2^i /\ \A j \in 0..(i - 1) : 2^j < kern.log

Ladder ==
  /\ ret = "err" =>
       /\ pc \in Tried => Objected
       /\ pc = "map_btf" => Bad("name") \/ ~Short
       /\ pc = "map_name" => Bad("name")
       /\ pc = "map_last" => Clean
       /\ pc = "prog_name" => ~Bad("btf")
       /\ pc = "prog_rlimit" => Clean
       /\ pc \in {"too_big", "log"} \cup LogLoop => Clean /\ ~Short
       /\ pc \in {"done", "returned"} => errno = "ENOMEM"
  /\ pc \in LogLoop => ret = "err" /\ Growing

LInv == Given /\ Logging /\ (Acceptable => Ladder)

\* The objections of a kernel that accepts the program without its options.
Objection(as, limit, level, room) ==
  IF "name" \in as \cap kern.unknown THEN kern.says
  ELSE IF in.what = "prog" /\ "btf" \in as \cap kern.unknown THEN kern.says
  ELSE IF kern.low /\ ~limit THEN "EPERM"
  ELSE IF "btf" \in as \cap kern.unknown THEN "ENOTSUPP"
  ELSE IF level > 0 /\ room < kern.log THEN "ENOSPC" ELSE "ok"

\* For a program that can be loaded, a refusal has one of the reasons that a rung or
\* the log loop removes.
LEMMA AnswerIsObjection ==
  ASSUME Types, Acceptable, NEW as, NEW limit, NEW level, NEW room,
         level > 0 => room # 0
  PROVE  Answer(as, limit, level, room) = Objection(as, limit, level, room)
<1>1. kern.bpf /\ kern.fate = "ok" /\ in.what \in {"map", "prog"}
  BY Zenon DEF Acceptable, Types, Inputs
<1> QED BY <1>1, Zenon DEF Answer, Verdict, Objection

\* What the ladder's steps use of the call and the kernel.
LEMMA CallFacts ==
  ASSUME Types
  PROVE  /\ in.what \in {"map", "prog"} /\ in.user \in Nat /\ in.log_level \in {0, 1}
         /\ kern.says \in {"EINVAL", "E2BIG"} /\ kern.log \in Nat
         /\ size \in Nat /\ log_level \in {0, 1} /\ attrs \subseteq in.attrs
         /\ Room \in Nat
<1>1. /\ in.what \in {"map", "prog"} /\ in.user \in Nat /\ in.log_level \in {0, 1}
      /\ kern.says \in {"EINVAL", "E2BIG"} /\ kern.log \in Nat
      /\ log_level \in {0, 1} /\ attrs \subseteq in.attrs
  BY LoadRetryAssumption, Zenon DEF Types, Inputs, Kernels
<1>2. size \in Nat
  BY DEF Types
<1> QED BY <1>1, <1>2, Zenon DEF Room

\* On the rungs a log has room.
LEMMA RoomForLog ==
  ASSUME Types, Given, Logging, pc \in MapRungs \cup ProgRungs
  PROVE  log_level > 0 => Room > 0
<1>1. pc \in MapRungs => log_level = 0
  BY CallFacts DEF Given, Logging
<1>2. pc \in ProgRungs /\ log_level > 0 /\ in.user = 0 => size > 0
  BY Zenon DEF Logging
<1> QED BY <1>1, <1>2, CallFacts DEF Room

\* A rung that repeats the call leaves a success or the next objection; one that
\* does not leaves everything.
LEMMA RungEffect ==
  ASSUME Types, LInv, Acceptable, NEW at, NEW next, NEW cond, NEW strip,
         Rung(at, next, cond, strip), at \in MapRungs \cup ProgRungs
  PROVE  /\ pc = at /\ pc' = next /\ UNCHANGED <<in, kern, size, raised, log_level>>
         /\ Room' = Room
         /\ cond => /\ attrs' = attrs \ strip
                    /\ \/ ret' = "ok"
                       \/ /\ ret' = "err" /\ errno' # "ok"
                          /\ errno' = Objection(attrs \ strip, raised, log_level, Room)
                          /\ Objected'
         /\ ~cond => UNCHANGED <<attrs, ret, errno>> /\ (Objected => Objected')
<1>1. pc = at /\ pc' = next /\ UNCHANGED <<in, kern, size>>
  BY Zenon DEF Rung, env
<1>2. log_level > 0 => Room # 0
  BY <1>1, RoomForLog, CallFacts DEF LInv
<1>3. Room' = Room
  BY <1>1, Zenon DEF Room
<1>4. CASE cond
  <2>1. Syscall(attrs \ strip, raised, log_level, Room)
    BY <1>4, Zenon DEF Rung
  <2>2. UNCHANGED <<raised, log_level>> /\ attrs' = attrs \ strip
    BY <2>1, Zenon DEF Syscall
  <2>3. PICK v : v = Answer(attrs \ strip, raised, log_level, Room)
    BY Zenon
  <2>4. v = Objection(attrs \ strip, raised, log_level, Room)
    BY <1>2, <2>3, AnswerIsObjection, Zenon
  <2>5. ret' = "ok" \/ (ret' = "err" /\ errno' # "ok" /\ errno' = v)
    BY <2>1, <2>3, Zenon DEF Syscall, Answer
  <2>6. errno' = v => Objected'
    BY <1>1, <1>3, <2>2, <2>3, Zenon DEF Objected, Answer, Verdict
  <2> QED BY <1>1, <1>3, <1>4, <2>2, <2>4, <2>5, <2>6, Zenon
<1>5. CASE ~cond
  <2>1. UNCHANGED <<attrs, ret, errno, raised, log_level>>
    BY <1>5, Zenon DEF Rung, Skip
  <2>2. Objected => Objected'
    BY <1>1, <1>3, <2>1, Zenon DEF Objected, Answer, Verdict
  <2> QED BY <1>1, <1>3, <1>5, <2>1, <2>2, Zenon
<1> QED BY <1>4, <1>5, Zenon

\* So does the rung that raises the limit, which a kernel that accepts the program
\* lets it do if need be.
LEMMA RlimitEffect ==
  ASSUME Types, LInv, Acceptable, NEW at, NEW next, Rlimit(at, next),
         at \in MapRungs \cup ProgRungs
  PROVE  /\ pc = at /\ UNCHANGED <<in, kern, size, log_level, attrs>> /\ Room' = Room
         /\ pc' \in {"early", next}
         /\ \/ /\ ret = "err" /\ errno = "EPERM" /\ raised'
               /\ \/ ret' = "ok"
                  \/ /\ ret' = "err" /\ errno' # "ok"
                     /\ errno' = Objection(attrs, TRUE, log_level, Room)
                     /\ Objected'
            \/ /\ ~(ret = "err" /\ errno = "EPERM" /\ kern.low)
               /\ UNCHANGED <<ret, errno, raised>> /\ (Objected => Objected')
<1>1. pc = at /\ pc' \in {"early", next} /\ UNCHANGED <<in, kern, size>>
  BY Zenon DEF Rlimit, env
<1>2. log_level > 0 => Room # 0
  BY <1>1, RoomForLog, CallFacts DEF LInv
<1>3. Room' = Room
  BY <1>1, Zenon DEF Room
<1>4. CASE Failed({"EPERM"}) /\ in.allow_rlimit /\ kern.raise
  <2>1. Syscall(attrs, TRUE, log_level, Room) /\ ret = "err" /\ errno = "EPERM"
    BY <1>4, Zenon DEF Rlimit, Failed
  <2>2. raised' /\ UNCHANGED <<attrs, log_level>>
    BY <2>1, Zenon DEF Syscall
  <2>3. PICK v : v = Answer(attrs, TRUE, log_level, Room)
    BY Zenon
  <2>4. v = Objection(attrs, TRUE, log_level, Room)
    BY <1>2, <2>3, AnswerIsObjection, Zenon
  <2>5. ret' = "ok" \/ (ret' = "err" /\ errno' # "ok" /\ errno' = v)
    BY <2>1, <2>3, Zenon DEF Syscall, Answer
  <2>6. errno' = v => Objected'
    BY <1>1, <1>3, <2>2, <2>3, Zenon DEF Objected, Answer, Verdict
  <2> QED BY <1>1, <1>3, <2>1, <2>2, <2>4, <2>5, <2>6, Zenon
<1>5. CASE ~(Failed({"EPERM"}) /\ in.allow_rlimit /\ kern.raise)
  <2>1. UNCHANGED <<attrs, ret, errno, log_level>> /\ raised' = raised
    BY <1>5, Zenon DEF Rlimit, Skip
  <2>2. ~(ret = "err" /\ errno = "EPERM" /\ kern.low)
    BY <1>5, Zenon DEF Acceptable, Failed
  <2>3. Objected => Objected'
    BY <1>1, <1>3, <2>1, Zenon DEF Objected, Answer, Verdict
  <2> QED BY <1>1, <1>3, <2>1, <2>2, <2>3, Zenon
<1> QED BY <1>4, <1>5, Zenon


\* The log is asked for, and has its buffer, as the rungs assume.
LEMMA LoggingStep ==
  ASSUME Types, Given, Logging, [Next]_vars
  PROVE  Given' /\ Logging'
<1> USE DEF MapRungs, ProgRungs, LogLoop
<1>0. UNCHANGED <<in, kern>>
  BY Zenon DEF Next, CreateMap, LoadProg, First, LastRlimit, Rung, Rlimit, LogBuf, FindBtfId,
         TooBig, Log, Malloc, Reload, Result, vars, env
<1>1. Given'
  BY <1>0, Zenon DEF Given
<1> SUFFICES Logging'
  BY <1>1, Zenon
<1>2. ASSUME NEW at, NEW next, UNCHANGED <<in, log_level, size>>, pc = at, pc' \in {next, "early"},
             \/ at \in MapRungs /\ next \in MapRungs \cup {"done"}
             \/ at \in ProgRungs /\ next \in ProgRungs
      PROVE  Logging'
  BY <1>2, Zenon DEF Logging
<1>3. ASSUME NEW at, NEW next, NEW cond, NEW strip, Rung(at, next, cond, strip)
      PROVE  UNCHANGED <<in, log_level, size>> /\ pc = at /\ pc' \in {next, "early"}
  BY <1>3, Zenon DEF Rung, Skip, Syscall, env
<1>4. ASSUME NEW at, NEW next, Rlimit(at, next)
      PROVE  UNCHANGED <<in, log_level, size>> /\ pc = at /\ pc' \in {next, "early"}
  BY <1>4, Zenon DEF Rlimit, Skip, Syscall, env
<1>5. CASE CreateMap
  <2>1. CASE First("map", "map_rlimit")
    BY <1>2, <1>3, <2>1, Zenon DEF First
  <2>2. CASE Rlimit("map_rlimit", "map_btf")
    BY <1>2, <1>4, <2>2, Zenon
  <2>3. CASE Rung("map_btf", "map_name", "btf" \in attrs /\ Failed({"ENOTSUPP"}), {"btf"})
    BY <1>2, <1>3, <2>3
  <2>4. CASE Rung("map_name", "map_last", Name, {"name"})
    BY <1>2, <1>3, <2>4, Zenon
  <2>5. CASE LastRlimit("map_last", "done")
    BY <1>2, <1>4, <2>5, Zenon DEF LastRlimit
  <2> QED BY <1>5, <2>1, <2>2, <2>3, <2>4, <2>5, Zenon DEF CreateMap
<1>6. CASE First("prog", "prog_btf")
  BY <1>2, <1>3, <1>6, Zenon DEF First
<1>7. CASE Rung("prog_btf", "prog_name", "btf" \in attrs /\ Failed({"EINVAL"}), {"btf"})
  BY <1>2, <1>3, <1>7
<1>8. CASE Rung("prog_name", "prog_rlimit", Name, {"name"})
  BY <1>2, <1>3, <1>8, Zenon
<1>9. CASE Rlimit("prog_rlimit", "too_big")
  BY <1>2, <1>4, <1>9, Zenon
<1>10. CASE LogBuf
  BY <1>0, <1>10, CallFacts DEF LogBuf, Logging
<1>11. CASE FindBtfId
  BY <1>0, <1>11, Zenon DEF FindBtfId, Logging
<1>12. CASE TooBig
  BY <1>0, <1>12, Zenon DEF TooBig, Skip, Logging
<1>13. CASE Log
  BY <1>0, <1>13, Zenon DEF Log, Logging, Skip, Syscall
<1>14. CASE Malloc
  BY <1>0, <1>14, Zenon DEF Malloc, Logging
<1>15. CASE Reload
  BY <1>0, <1>15, Zenon DEF Reload, Syscall, Logging
<1>16. CASE Result
  BY <1>0, <1>16, Zenon DEF Result, Logging
<1>17. CASE UNCHANGED vars
  BY <1>17, Zenon DEF vars, Logging
<1> QED
  BY <1>5, <1>6, <1>7, <1>8, <1>9, <1>10, <1>11, <1>12, <1>13, <1>14, <1>15, <1>16, <1>17
  DEF Next, LoadProg

\* The error of a failed attempt is the first objection to it.
LEMMA Obstacle ==
  ASSUME Types, LInv, Acceptable, ret = "err", pc \in Tried
  PROVE  errno = Objection(attrs, raised, log_level, Room)
<1>1. log_level > 0 => Room # 0
  BY RoomForLog, CallFacts DEF LInv, Tried
<1>2. Objected
  BY Zenon DEF LInv, Ladder
<1> QED BY <1>1, <1>2, AnswerIsObjection, Zenon DEF Objected

\* A map: the limit, the BTF ids, the name, and the limit again, which is the
\* objection an unknown name may have hidden.
LEMMA MapLadder ==
  ASSUME Types, OneCreated, LInv, Acceptable, CreateMap
  PROVE  Ladder'
<1> USE DEF MapRungs, ProgRungs, LogLoop, Tried
<1>0. Ladder /\ Given /\ Logging
  BY Zenon DEF LInv
<1>1. CASE First("map", "map_rlimit")
  <2>1. /\ pc' = "map_rlimit"
        /\ ret' = "ok" \/ (ret' = "err" /\ Objected')
    BY <1>1, RungEffect, Zenon DEF First
  <2> QED BY <2>1, Zenon DEF Ladder
<1>2. CASE Rlimit("map_rlimit", "map_btf")
  <2>1. /\ pc = "map_rlimit" /\ UNCHANGED <<in, kern, log_level, attrs>>
        /\ pc' \in {"early", "map_btf"}
        /\ \/ /\ ret = "err" /\ errno = "EPERM" /\ raised'
              /\ ret' = "ok" \/ (ret' = "err" /\ Objected')
           \/ /\ ~(ret = "err" /\ errno = "EPERM" /\ kern.low)
              /\ UNCHANGED <<ret, errno, raised>> /\ (Objected => Objected')
    BY <1>2, RlimitEffect, Zenon
  <2>2. CASE raised'
    BY <1>0, <2>1, <2>2, Zenon DEF Ladder, Short
  <2>3. CASE ret' # "err"
    BY <2>1, <2>3, Zenon DEF Ladder
  <2>4. CASE ~raised' /\ ret' = "err"
    <3>1. ret = "err" /\ ~raised /\ UNCHANGED raised /\ Objected /\ Objected'
          /\ ~(errno = "EPERM" /\ kern.low)
      BY <1>0, <2>1, <2>4 DEF Ladder
    <3>2. errno = Objection(attrs, raised, log_level, Room)
      BY <2>1, <3>1, Obstacle, Zenon
    <3>3. in.what = "map"
      BY <1>0, <2>1, Zenon DEF Logging
    <3>4. Bad("name") \/ ~Short
      BY <3>1, <3>2, <3>3, Zenon DEF Objection, Bad, Short
    <3>5. Bad("name")' \/ ~Short'
      BY <2>1, <3>1, <3>4, Zenon DEF Bad, Short
    <3> QED BY <2>1, <3>1, <3>5, Zenon DEF Ladder
  <2> QED BY <2>1, <2>2, <2>3, <2>4, Zenon

<1>3. CASE Rung("map_btf", "map_name", "btf" \in attrs /\ Failed({"ENOTSUPP"}), {"btf"})
  <2> DEFINE cond == "btf" \in attrs /\ Failed({"ENOTSUPP"})
  <2>1. /\ pc = "map_btf" /\ pc' = "map_name" /\ UNCHANGED <<in, kern, raised, log_level>>
        /\ cond => /\ attrs' = attrs \ {"btf"}
                   /\ \/ ret' = "ok"
                      \/ /\ ret' = "err" /\ errno' # "ok"
                         /\ errno' = Objection(attrs \ {"btf"}, raised, log_level, Room)
                         /\ Objected'
        /\ ~cond => UNCHANGED <<attrs, ret, errno>> /\ (Objected => Objected')
    BY <1>3, RungEffect, Zenon
  <2>2. in.what = "map" /\ log_level = 0
    BY <1>0, <2>1, CallFacts DEF Logging, Given
  <2>3. ret = "err" => /\ errno = Objection(attrs, raised, log_level, Room)
                       /\ Bad("name") \/ ~Short
    BY <1>0, <2>1, Obstacle, Zenon DEF Ladder
  <2>4. CASE cond
    <3>1. ret = "err" /\ errno = "ENOTSUPP"
      BY <2>4, Zenon DEF Failed
    <3>2. ~Bad("name") /\ ~Short
      BY <2>3, <3>1, CallFacts, Zenon DEF Objection, Bad
    <3>3. Objection(attrs \ {"btf"}, raised, log_level, Room) = "ok"
      BY <2>2, <3>2 DEF Objection, Bad, Short
    <3> QED BY <2>1, <2>4, <3>3, Zenon DEF Ladder
  <2>5. CASE ~cond
    <3>1. CASE ret = "err"
      <4>1. Bad("name")
        <5>1. errno # "ok" /\ ("btf" \in attrs => errno # "ENOTSUPP")
          BY <2>5, <3>1, Zenon DEF Types, Errors, Failed
        <5> QED BY <2>2, <2>3, <3>1, <5>1 DEF Objection, Bad, Short
      <4> QED BY <1>0, <2>1, <2>5, <3>1, <4>1, Zenon DEF Ladder, Bad
    <3>2. CASE ret # "err"
      BY <2>1, <2>5, <3>2, Zenon DEF Ladder
    <3> QED BY <3>1, <3>2, Zenon
  <2> QED BY <2>4, <2>5, Zenon
<1>4. CASE Rung("map_name", "map_last", Name, {"name"})
  <2>1. /\ pc = "map_name" /\ pc' = "map_last" /\ UNCHANGED <<in, kern, raised, log_level>>
        /\ Name => /\ attrs' = attrs \ {"name"}
                   /\ ret' = "ok" \/ (ret' = "err" /\ Objected')
        /\ ~Name => UNCHANGED <<attrs, ret, errno>> /\ (Objected => Objected')
    BY <1>4, RungEffect, Zenon DEF Name
  <2>2. CASE ret = "err"
    <3>1. errno = Objection(attrs, raised, log_level, Room) /\ Bad("name")
      BY <1>0, <2>1, <2>2, Obstacle, Zenon DEF Ladder
    <3>2. Name
      BY <2>2, <3>1, CallFacts, Zenon DEF Name, Failed, Objection, Bad
    <3>3. "btf" \notin attrs
      BY <1>0, <3>1, CallFacts, Zenon DEF Bad, Given
    <3>4. Clean'
      BY <2>1, <3>2, <3>3, Zenon DEF Clean, Bad
    <3> QED BY <2>1, <3>2, <3>4, Zenon DEF Ladder
  <2>3. CASE ret # "err"
    BY <2>1, <2>3, Zenon DEF Name, Failed, Ladder
  <2> QED BY <2>2, <2>3, Zenon
<1>5. CASE LastRlimit("map_last", "done")
  <2>1. /\ pc = "map_last" /\ UNCHANGED <<in, kern, log_level, attrs>>
        /\ pc' \in {"early", "done"}
        /\ \/ /\ ret = "err" /\ errno = "EPERM"
              /\ \/ ret' = "ok"
                 \/ /\ ret' = "err" /\ errno' # "ok"
                    /\ errno' = Objection(attrs, TRUE, log_level, Room)
           \/ /\ ~(ret = "err" /\ errno = "EPERM" /\ kern.low)
              /\ UNCHANGED <<ret, errno, raised>>
    BY <1>5, RlimitEffect, Zenon DEF LastRlimit
  <2>2. in.what = "map" /\ log_level = 0
    BY <1>0, <2>1, CallFacts DEF Logging, Given
  <2>3. CASE ret = "err"
    <3>1. errno = Objection(attrs, raised, log_level, Room) /\ Clean
      BY <1>0, <2>1, <2>3, Obstacle, Zenon DEF Ladder
    <3>2. Objection(attrs, TRUE, log_level, Room) = "ok"
      BY <2>2, <3>1 DEF Objection, Clean, Bad
    <3>3. errno = "EPERM" /\ kern.low
      <4>1. errno \in Errors
        BY Zenon DEF Types
      <4>2. errno # "ok"
        BY <4>1, Zenon DEF Errors
      <4> QED BY <2>2, <3>1, <4>2 DEF Objection, Clean, Bad
    <3>4. ret' = "ok"
      BY <2>1, <2>3, <3>2, <3>3, Zenon
    <3> QED BY <2>1, <3>4, Zenon DEF Ladder
  <2>4. CASE ret # "err"
    BY <2>1, <2>4, Zenon DEF Ladder
  <2> QED BY <2>3, <2>4, Zenon
<1> QED BY <1>1, <1>2, <1>3, <1>4, <1>5, Zenon DEF CreateMap


\* A program: the BTF, the name, the limit; what is left is a log that did not fit
\* into the first temporary buffer.
LEMMA ProgLadder ==
  ASSUME Types, OneCreated, LInv, Acceptable,
         \/ First("prog", "prog_btf")
         \/ Rung("prog_btf", "prog_name", "btf" \in attrs /\ Failed({"EINVAL"}), {"btf"})
         \/ Rung("prog_name", "prog_rlimit", Name, {"name"})
         \/ Rlimit("prog_rlimit", "too_big")
         \/ TooBig
  PROVE  Ladder'
<1> USE DEF MapRungs, ProgRungs, LogLoop, Tried
<1>0. Ladder /\ Given /\ Logging
  BY Zenon DEF LInv
<1>1. CASE First("prog", "prog_btf")
  <2>1. /\ pc' = "prog_btf"
        /\ ret' = "ok" \/ (ret' = "err" /\ Objected')
    BY <1>1, RungEffect, Zenon DEF First
  <2> QED BY <2>1, Zenon DEF Ladder
<1>2. CASE Rung("prog_btf", "prog_name", "btf" \in attrs /\ Failed({"EINVAL"}), {"btf"})
  <2> DEFINE cond == "btf" \in attrs /\ Failed({"EINVAL"})
  <2>1. /\ pc = "prog_btf" /\ pc' = "prog_name" /\ UNCHANGED <<in, kern, raised, log_level>>
        /\ cond => /\ attrs' = attrs \ {"btf"}
                   /\ ret' = "ok" \/ (ret' = "err" /\ Objected')
        /\ ~cond => UNCHANGED <<attrs, ret, errno>> /\ (Objected => Objected')
    BY <1>2, RungEffect, Zenon
  <2>2. in.what = "prog"
    BY <1>0, <2>1, Zenon DEF Logging
  <2>3. CASE cond
    <3>1. ~Bad("btf")'
      BY <2>1, <2>3, Zenon DEF Bad
    <3> QED BY <2>1, <2>3, <3>1, Zenon DEF Ladder
  <2>4. CASE ~cond /\ ret = "err"
    <3>1. errno = Objection(attrs, raised, log_level, Room) /\ Objected
      BY <1>0, <2>1, <2>4, Obstacle, Zenon DEF Ladder
    <3>2. ~Bad("btf")
      <4> SUFFICES ASSUME Bad("btf") PROVE FALSE
        BY Zenon
      <4>1. ~Bad("name") /\ kern.says = "EINVAL"
        BY <1>0, <2>2, CallFacts, Zenon DEF Bad, Given, Acceptable
      <4>2. errno = "EINVAL"
        BY <2>2, <3>1, <4>1, Zenon DEF Objection, Bad
      <4> QED BY <2>4, <4>2, Zenon DEF Failed, Bad
    <3> QED BY <2>1, <2>4, <3>1, <3>2, Zenon DEF Ladder, Bad
  <2>5. CASE ~cond /\ ret # "err"
    BY <2>1, <2>5, Zenon DEF Ladder
  <2> QED BY <2>3, <2>4, <2>5, Zenon
<1>3. CASE Rung("prog_name", "prog_rlimit", Name, {"name"})
  <2>1. /\ pc = "prog_name" /\ pc' = "prog_rlimit" /\ UNCHANGED <<in, kern, raised, log_level>>
        /\ Name => /\ attrs' = attrs \ {"name"}
                   /\ ret' = "ok" \/ (ret' = "err" /\ Objected')
        /\ ~Name => UNCHANGED <<attrs, ret, errno>> /\ (Objected => Objected')
    BY <1>3, RungEffect, Zenon DEF Name
  <2>2. CASE ret = "err"
    <3>1. errno = Objection(attrs, raised, log_level, Room) /\ Objected /\ ~Bad("btf")
      BY <1>0, <2>1, <2>2, Obstacle, Zenon DEF Ladder
    <3>2. CASE Name
      <4>1. Clean'
        BY <2>1, <3>1, <3>2, Zenon DEF Clean, Bad
      <4> QED BY <2>1, <3>2, <4>1, Zenon DEF Ladder
    <3>3. CASE ~Name
      <4>1. ~Bad("name")
        BY <2>2, <3>1, <3>3, CallFacts, Zenon DEF Name, Failed, Objection, Bad
      <4>2. Clean'
        BY <2>1, <3>1, <3>3, <4>1, Zenon DEF Clean, Bad
      <4> QED BY <2>1, <3>1, <3>3, <4>2, Zenon DEF Ladder
    <3> QED BY <3>2, <3>3, Zenon
  <2>3. CASE ret # "err"
    BY <2>1, <2>3, Zenon DEF Name, Failed, Ladder
  <2> QED BY <2>2, <2>3, Zenon
<1>4. CASE Rlimit("prog_rlimit", "too_big")
  <2>1. /\ pc = "prog_rlimit" /\ UNCHANGED <<in, kern, log_level, attrs>>
        /\ pc' \in {"early", "too_big"}
        /\ \/ /\ ret = "err" /\ errno = "EPERM" /\ raised'
              /\ ret' = "ok" \/ (ret' = "err" /\ Objected')
           \/ /\ ~(ret = "err" /\ errno = "EPERM" /\ kern.low)
              /\ UNCHANGED <<ret, errno, raised>> /\ (Objected => Objected')
    BY <1>4, RlimitEffect, Zenon
  <2>2. CASE ret' # "err"
    BY <2>1, <2>2, Zenon DEF Ladder
  <2>3. CASE ret' = "err"
    <3>1. /\ ret = "err" /\ Objected' /\ Clean
          /\ errno = Objection(attrs, raised, log_level, Room)
      BY <1>0, <2>1, <2>3, Obstacle, Zenon DEF Ladder
    <3>2. Clean'
      BY <2>1, <3>1, Zenon DEF Clean, Bad
    <3>3. ~Short'
      <4>1. CASE raised'
        BY <4>1, Zenon DEF Short
      <4>2. CASE ~raised'
        <5>1. UNCHANGED raised /\ ~(errno = "EPERM" /\ kern.low)
          BY <2>1, <3>1, <4>2, Zenon
        <5>2. ~Short
          BY <3>1, <5>1, Zenon DEF Objection, Clean, Bad, Short
        <5> QED BY <2>1, <5>1, <5>2, Zenon DEF Short
      <4> QED BY <4>1, <4>2, Zenon
    <3> QED BY <2>1, <3>1, <3>2, <3>3, Zenon DEF Ladder
  <2> QED BY <2>2, <2>3, Zenon
<1>5. CASE TooBig
  <2>1. /\ pc = "too_big" /\ UNCHANGED <<in, kern, attrs, ret, errno, raised, log_level, size>>
        /\ pc' = IF Failed({"E2BIG"}) THEN "early" ELSE IF ret = "err" THEN "log" ELSE "done"
    BY <1>5, Zenon DEF TooBig, Skip, env
  <2>2. Objected => Objected'
    BY <2>1, Zenon DEF Objected, Answer, Verdict, Room
  <2>3. Clean /\ ~Short => Clean' /\ ~Short'
    BY <2>1, Zenon DEF Clean, Bad, Short
  <2> QED BY <1>0, <2>1, <2>2, <2>3, Zenon DEF Ladder
<1> QED BY <1>1, <1>2, <1>3, <1>4, <1>5, Zenon

\* The log loop: a size that did not hold the log is doubled, and does not wrap
\* around as long as one of the sizes still to come holds it.
LEMMA LogLadder ==
  ASSUME Types, OneCreated, LInv, Acceptable, Log \/ Malloc \/ Reload
  PROVE  Ladder'
<1> USE DEF MapRungs, ProgRungs, LogLoop, Tried
<1>0. Ladder /\ Given /\ Logging
  BY Zenon DEF LInv
<1>1. UNCHANGED <<in, kern>>
  BY Zenon DEF Log, Malloc, Reload, env
<1>2. SizeBits \in Nat /\ SizeBits > 0
  BY LoadRetryAssumption
<1>3. CASE Log
  <2>1. pc = "log" /\ ret = "err"
    BY <1>3, Zenon DEF Log, OneCreated, Attempting
  <2>2. Clean /\ ~Short /\ errno = Objection(attrs, raised, log_level, Room)
    BY <1>0, <2>1, Obstacle, Zenon DEF Ladder
  <2>3. errno # "ok"
    BY Zenon DEF Types, Errors
  <2>4. log_level > 0 /\ Room < kern.log
    BY <2>2, <2>3, Zenon DEF Objection, Clean, Bad, Short
  <2>5. in.what = "prog" /\ log_level <= in.log_level
    BY <1>0, <2>1, Zenon DEF Logging
  <2>6. in.user = 0
    <3>1. in.user > 0 => in.log_level = 0 \/ in.user >= kern.log
      BY <2>5, Zenon DEF Acceptable, LogFits
    <3> QED BY <2>4, <2>5, <3>1, CallFacts DEF Room
  <2>7. /\ pc' = "malloc" /\ size' = 1
        /\ UNCHANGED <<ret, errno, attrs, raised>>
    BY <1>3, <2>6 DEF Log
  <2>8. Growing'
    <3>1. 2^0 = 1 /\ 0 \in 0..(SizeBits - 1) /\ \A j \in 0..(0 - 1) : FALSE
      BY <1>2
    <3> QED BY <2>7, <3>1, Zenon DEF Growing
  <2>9. Clean' /\ ~Short'
    BY <1>1, <2>2, <2>7, Zenon DEF Clean, Bad, Short
  <2> QED BY <2>1, <2>7, <2>8, <2>9, Zenon DEF Ladder
<1>4. CASE Malloc
  <2>1. /\ pc = "malloc" /\ UNCHANGED <<ret, attrs, raised, size>>
        /\ pc' = "reload" \/ (pc' = "done" /\ errno' = "ENOMEM")
    BY <1>4, Zenon DEF Malloc
  <2>2. Clean /\ ~Short /\ Growing /\ ret = "err"
    BY <1>0, <2>1, Zenon DEF Ladder
  <2>3. Clean' /\ ~Short'
    BY <1>1, <2>1, <2>2, Zenon DEF Clean, Bad, Short
  <2>4. Growing'
    BY <1>1, <2>1, <2>2, Zenon DEF Growing
  <2> QED BY <2>1, <2>2, <2>3, <2>4, Zenon DEF Ladder
<1>5. CASE Reload
  <2>1. pc = "reload" /\ Syscall(attrs, raised, log_level, size)
    BY <1>5, Zenon DEF Reload
  <2>2. Clean /\ ~Short /\ Growing /\ in.user = 0 /\ log_level = 1 /\ in.what = "prog"
    BY <1>0, <2>1, Zenon DEF Ladder, Logging, OneCreated, Attempting
  <2>3. PICK i \in 0..(SizeBits - 1) : size = 2^i /\ \A j \in 0..(i - 1) : 2^j < kern.log
    BY <2>2, Zenon DEF Growing
  <2>4. i \in Nat /\ i + 1 \in Nat /\ kern.log \in Nat /\ size \in Nat
    BY <1>2, <2>3, CallFacts
  <2>5. size # 0
    <3>1. CASE i = 0
      <4>1. 2^0 = 1
        OBVIOUS
      <4> QED BY <2>3, <3>1, <4>1
    <3>2. CASE 0 < i
      <4>1. 0 \in Nat /\ 2^0 = 1
        OBVIOUS
      <4>2. 2^0 < 2^i
        BY <2>4, <3>2, <4>1, PowerLess, Zenon
      <4> QED BY <2>3, <2>4, <4>1, <4>2
    <3> QED BY <2>4, <3>1, <3>2
  <2>6. Answer(attrs, raised, log_level, size) = IF size < kern.log THEN "ENOSPC" ELSE "ok"
    <3>1. Answer(attrs, raised, log_level, size) = Objection(attrs, raised, log_level, size)
      BY <2>5, AnswerIsObjection, Zenon
    <3> QED BY <2>2, <3>1 DEF Objection, Clean, Bad, Short
  <2>7. CASE size < kern.log
    <3>1. ret' = "err" /\ errno' = "ENOSPC" /\ UNCHANGED <<attrs, raised>>
      BY <2>1, <2>6, <2>7, Zenon DEF Syscall, Answer
    <3>2. pc' = "malloc" /\ size' = Doubled
      BY <1>5, <3>1, Zenon DEF Reload
    <3>3. \A j \in 0..i : 2^j < kern.log
      <4> SUFFICES ASSUME NEW j \in 0..i PROVE 2^j < kern.log
        BY Zenon
      <4>1. j = i \/ j \in 0..(i - 1)
        BY <2>4
      <4> QED BY <2>3, <2>7, <4>1, Zenon
    <3>4. i + 1 <= SizeBits - 1
      <4> SUFFICES ASSUME i = SizeBits - 1 PROVE FALSE
        BY <1>2, <2>3
      <4>1. PICK n \in 0..(SizeBits - 1) : 2^n >= kern.log
        BY <2>2 DEF Acceptable, LogFits
      <4>2. 2^n < kern.log /\ n \in Nat
        BY <3>3, <4>1
      <4>3. 2^n \in Nat
        BY <4>2, PowerSet, Zenon
      <4> QED BY <2>4, <4>1, <4>2, <4>3
    <3>5. size' = 2^(i + 1)
      <4>1. PICK p : p = 2^(i + 1)
        BY Zenon
      <4>2. PICK m : m = 2^SizeBits
        BY Zenon
      <4>3. 2 * size = p
        <5>1. 2^(i + 1) = 2 * 2^i
          BY <2>4, PowerDouble, Zenon
        <5> QED BY <2>3, <4>1, <5>1, Zenon
      <4>4. p \in Nat /\ m \in Nat
        <5>1. 2^(i + 1) \in Nat /\ 2^SizeBits \in Nat
          BY <1>2, <2>4, PowerSet, Zenon
        <5> QED BY <4>1, <4>2, <5>1, Zenon
      <4>5. i + 1 < SizeBits
        BY <1>2, <2>4, <3>4
      <4>6. p < m
        BY <1>2, <2>4, <4>1, <4>2, <4>5, PowerLess, Zenon
      <4>7. p % m = p
        BY <4>4, <4>6
      <4>8. size' = p
        BY <3>2, <4>2, <4>3, <4>7, Zenon DEF Doubled
      <4> QED BY <4>1, <4>8, Zenon
    <3>6. Growing'
      <4>1. i + 1 \in 0..(SizeBits - 1) /\ (i + 1) - 1 = i
        BY <1>2, <2>4, <3>4
      <4>2. \A j \in 0..((i + 1) - 1) : 2^j < kern'.log
        BY <1>1, <3>3, <4>1, Zenon
      <4> QED BY <3>5, <4>1, <4>2, Zenon DEF Growing
    <3>7. Clean' /\ ~Short'
      BY <1>1, <2>2, <3>1, Zenon DEF Clean, Bad, Short
    <3> QED BY <3>1, <3>2, <3>6, <3>7, Zenon DEF Ladder
  <2>8. CASE ~(size < kern.log)
    <3>1. ret' = "ok"
      BY <2>1, <2>6, <2>8, Zenon DEF Syscall, Answer
    <3>2. pc' = "done"
      BY <1>5, <3>1, Zenon DEF Reload
    <3> QED BY <3>1, <3>2, Zenon DEF Ladder
  <2> QED BY <2>7, <2>8, Zenon
<1> QED BY <1>3, <1>4, <1>5, Zenon


\* Every step stays on the ladder.
LEMMA LadderStep ==
  ASSUME Types, OneCreated, LInv, [Next]_vars
  PROVE  LInv'
<1>1. Given' /\ Logging'
  BY LoggingStep, Zenon DEF LInv
<1>2. UNCHANGED <<in, kern>>
  BY Zenon DEF Next, CreateMap, LoadProg, First, LastRlimit, Rung, Rlimit, LogBuf, FindBtfId,
         TooBig, Log, Malloc, Reload, Result, vars, env
<1>3. SUFFICES ASSUME Acceptable PROVE Ladder'
  BY <1>1, <1>2, Zenon DEF LInv, Acceptable, LogFits
<1>4. CASE CreateMap
  BY <1>3, <1>4, MapLadder, Zenon
<1>5. CASE LogBuf \/ FindBtfId
  <2>1. pc' \in {"btf_id", "prog", "early"}
    BY <1>5, Zenon DEF LogBuf, FindBtfId
  <2> QED BY <2>1, Zenon DEF Ladder, Tried, MapRungs, ProgRungs, LogLoop
<1>6. CASE \/ First("prog", "prog_btf")
           \/ Rung("prog_btf", "prog_name", "btf" \in attrs /\ Failed({"EINVAL"}), {"btf"})
           \/ Rung("prog_name", "prog_rlimit", Name, {"name"})
           \/ Rlimit("prog_rlimit", "too_big")
           \/ TooBig
  BY <1>3, <1>6, ProgLadder, Zenon
<1>7. CASE Log \/ Malloc \/ Reload
  BY <1>3, <1>7, LogLadder, Zenon
<1>8. CASE Result
  <2>1. pc = "done" /\ pc' = "returned" /\ UNCHANGED <<ret, errno>>
    BY <1>8, Zenon DEF Result
  <2> QED BY <1>3, <2>1, Zenon DEF LInv, Ladder, Tried, MapRungs, ProgRungs, LogLoop
<1>9. CASE UNCHANGED vars
  <2>1. UNCHANGED <<in, kern, pc, ret, errno, attrs, raised, log_level, size>>
    BY <1>9, Zenon DEF vars
  <2>2. /\ Objected' = Objected /\ Growing' = Growing /\ Clean' = Clean /\ Short' = Short
        /\ Bad("name")' = Bad("name") /\ Bad("btf")' = Bad("btf")
    BY <2>1, Zenon DEF Objected, Answer, Verdict, Room, Growing, Clean, Bad, Short
  <2> QED BY <1>3, <2>1, <2>2, Zenon DEF LInv, Ladder
<1> QED BY <1>4, <1>5, <1>6, <1>7, <1>8, <1>9, Zenon DEF Next, LoadProg

\* Before the kernel is asked errno is fresh; a call that can succeed leaves early
\* only there.
Leaving ==
  /\ pc = "log_buf" => errno = "none"
  /\ pc = "btf_id" => errno \in {"none", "ENOMEM"}
  /\ Acceptable /\ pc = "early" => in.tracing /\ errno \in {"none", "ENOMEM"}

\* EPERM is the short limit, which the caller of a call that can succeed lets be
\* raised, so lines 356 and 896 do not end the call.
LEMMA RlimitStays ==
  ASSUME Types, LInv, Acceptable, NEW at, NEW next, Rlimit(at, next), at \in Tried
  PROVE  pc' = next
<1>1. SUFFICES ASSUME ret = "err", errno = "EPERM", ~in.allow_rlimit PROVE FALSE
  BY Zenon DEF Rlimit, Failed
<1>2. pc = at
  BY Zenon DEF Rlimit
<1>3. "EPERM" = Objection(attrs, raised, log_level, Room)
  BY <1>1, <1>2, Obstacle, Zenon
<1>4. ~kern.low
  BY <1>1, Zenon DEF Acceptable
<1>5. kern.says # "EPERM"
  BY CallFacts
<1> QED BY <1>3, <1>4, <1>5, Zenon DEF Objection

\* Nor does line 915: what was too big has been taken away.
LEMMA TooBigStays ==
  ASSUME Types, LInv, Acceptable, TooBig
  PROVE  pc' # "early"
<1>1. SUFFICES ASSUME ret = "err", errno = "E2BIG" PROVE FALSE
  BY Zenon DEF TooBig, Failed
<1>2. pc = "too_big"
  BY Zenon DEF TooBig
<1>3. "E2BIG" = Objection(attrs, raised, log_level, Room)
  BY <1>1, <1>2, Obstacle, Zenon DEF Tried, ProgRungs
<1>4. Clean /\ ~Short
  BY <1>1, <1>2, Zenon DEF LInv, Ladder
<1> QED BY <1>3, <1>4, Zenon DEF Objection, Clean, Bad, Short

\* A rung goes on to the next one.
LEMMA RungStays ==
  ASSUME NEW at, NEW next, NEW cond, NEW strip, Rung(at, next, cond, strip)
  PROVE  pc' = next
  BY Zenon DEF Rung

\* Every step leaves early as Leaving says.
LEMMA LeavingStep ==
  ASSUME Types, LInv, Leaving, [Next]_vars
  PROVE  Leaving'
<1>1. UNCHANGED <<in, kern>>
  BY Zenon DEF Next, CreateMap, LoadProg, First, LastRlimit, Rung, Rlimit, LogBuf, FindBtfId,
         TooBig, Log, Malloc, Reload, Result, vars, env
<1>2. Acceptable' = Acceptable
  BY <1>1, Zenon DEF Acceptable, LogFits
<1>3. CASE UNCHANGED vars
  BY <1>1, <1>2, <1>3, Zenon DEF Leaving, vars
<1>4. CASE LogBuf
  BY <1>4, Zenon DEF LogBuf, Leaving
<1>5. CASE FindBtfId
  BY <1>1, <1>5, Zenon DEF FindBtfId, Leaving
<1>6. ASSUME pc' \in (Tried \cup LogLoop \cup {"done", "returned"}) PROVE Leaving'
  BY <1>6, Zenon DEF Leaving, Tried, MapRungs, ProgRungs, LogLoop
<1>7. ASSUME NEW at, NEW next, Rlimit(at, next), at \in Tried,
             next \notin {"log_buf", "btf_id", "early"}
      PROVE  Leaving'
  <2>1. pc' \in {"early", next}
    BY <1>7, Zenon DEF Rlimit
  <2>2. Acceptable => pc' = next
    BY <1>7, RlimitStays, Zenon
  <2> QED BY <1>2, <1>7, <2>1, <2>2, Zenon DEF Leaving
<1>8. CASE CreateMap
  <2>1. CASE First("map", "map_rlimit")
    BY <1>6, <2>1, RungStays, Zenon DEF First, Tried, MapRungs
  <2>2. CASE Rung("map_btf", "map_name", "btf" \in attrs /\ Failed({"ENOTSUPP"}), {"btf"})
    BY <1>6, <2>2, RungStays, Zenon DEF Tried, MapRungs
  <2>3. CASE Rung("map_name", "map_last", Name, {"name"})
    BY <1>6, <2>3, RungStays, Zenon DEF Tried, MapRungs
  <2>4. "map_rlimit" \in Tried /\ "map_last" \in Tried
    BY DEF Tried, MapRungs
  <2>5. Rlimit("map_rlimit", "map_btf") \/ Rlimit("map_last", "done") => Leaving'
    BY <1>7, <2>4, Zenon
  <2> QED BY <1>8, <2>1, <2>2, <2>3, <2>5, Zenon DEF CreateMap, LastRlimit
<1>9. CASE TooBig
  <2>1. pc' \in {"early", "log", "done"} /\ (Acceptable => pc' # "early")
    BY <1>9, TooBigStays, Zenon DEF TooBig
  <2> QED BY <1>2, <2>1, Zenon DEF Leaving
<1>10. CASE Log \/ Malloc \/ Reload \/ Result
  <2>1. pc' \in {"done", "malloc", "reload", "returned"}
    BY <1>10, Zenon DEF Log, Malloc, Reload, Result
  <2> QED BY <1>6, <2>1, Zenon DEF LogLoop
<1>11. CASE LoadProg
  <2>1. CASE First("prog", "prog_btf")
    BY <1>6, <2>1, RungStays, Zenon DEF First, Tried, ProgRungs
  <2>2. CASE Rung("prog_btf", "prog_name", "btf" \in attrs /\ Failed({"EINVAL"}), {"btf"})
    BY <1>6, <2>2, RungStays, Zenon DEF Tried, ProgRungs
  <2>3. CASE Rung("prog_name", "prog_rlimit", Name, {"name"})
    BY <1>6, <2>3, RungStays, Zenon DEF Tried, ProgRungs
  <2>4. "prog_rlimit" \in Tried
    BY DEF Tried, ProgRungs
  <2>5. Rlimit("prog_rlimit", "too_big") => Leaving'
    BY <1>7, <2>4, Zenon
  <2> QED BY <1>4, <1>5, <1>9, <1>10, <1>11, <2>1, <2>2, <2>3, <2>5, Zenon DEF LoadProg
<1> QED BY <1>3, <1>8, <1>10, <1>11, Zenon DEF Next

\* Whatever the kernel does not know of the options, however short the limit and
\* however long the log, the order in which bcc_create_map_xattr and
\* bcc_prog_load_xattr retry lets a call that can succeed succeed, and no early return
\* cuts it short once the kernel was asked: for every width of the log buffer's size,
\* and every set of log lengths.
THEOREM LadderClimbed == Spec => []LadderSucceeds
<1> DEFINE All == Types /\ Flags /\ OneCreated /\ LInv /\ Leaving
<1>1. Init => All
  <2> SUFFICES ASSUME Init PROVE All
    BY Zenon
  <2>1. Types /\ Flags
    BY TypesInit, Zenon
  <2>2. OneCreated
    BY Zenon DEF Init, OneCreated, Attempting
  <2>3. Given
    BY Zenon DEF Init, Given
  <2>4. (pc = "map" /\ in.what = "map") \/ (pc = "log_buf" /\ in.what = "prog")
    BY CallFacts, <2>1, Zenon DEF Init
  <2>5. log_level = in.log_level /\ in.log_level \in Nat
    BY CallFacts, <2>1 DEF Init
  <2>6. Logging
    BY <2>4, <2>5 DEF Logging, MapRungs, ProgRungs, LogLoop
  <2>7. Ladder
    BY <2>4, Zenon DEF Ladder, Tried, MapRungs, ProgRungs, LogLoop
  <2>8. Leaving
    BY <2>4, Zenon DEF Init, Leaving
  <2> QED BY <2>1, <2>2, <2>3, <2>6, <2>7, <2>8, Zenon DEF LInv
<1>2. All /\ [Next]_vars => All'
  BY TypesStep, OneCreatedStep, LadderStep, LeavingStep, Zenon
<1>3. All => LadderSucceeds
  BY Zenon DEF LInv, Ladder, Leaving, LadderSucceeds, OneCreated
<1> QED BY <1>1, <1>2, <1>3, PTL DEF Spec

-----------------------------------------------------------------------------
(* The way down.                                                            *)

\* The size of the log buffer is a power of two, or has wrapped to zero.
Sized == size = 0 \/ \E n \in 0..(SizeBits - 1) : size = 2^n

\* Twice a power of two is the next one, or zero: there are fewer sizes left.
LEMMA DoubledLeft ==
  ASSUME NEW n \in 0..(SizeBits - 1), size = 2^n, NEW d, d = Doubled
  PROVE  /\ d = 0 \/ \E i \in 0..(SizeBits - 1) : d = 2^i
         /\ (IF d = 0 THEN 0 ELSE 2^SizeBits - d) < Fuel
<1>1. n \in Nat /\ n + 1 \in Nat /\ SizeBits \in Nat
  BY LoadRetryAssumption
<1>2. PICK p : p = 2^n
  BY Zenon
<1>3. PICK q : q = 2^(n + 1)
  BY Zenon
<1>4. PICK m : m = 2^SizeBits
  BY Zenon
<1>5. p \in Nat /\ q \in Nat /\ m \in Nat
  <2>1. 2^n \in Nat /\ 2^(n + 1) \in Nat /\ 2^SizeBits \in Nat
    BY <1>1, PowerSet, Zenon
  <2> QED BY <1>2, <1>3, <1>4, <2>1, Zenon
<1>6. q = 2 * p
  <2>1. 2^(n + 1) = 2 * 2^n
    BY <1>1, PowerDouble, Zenon
  <2> QED BY <1>2, <1>3, <2>1, Zenon
<1>7. p < q
  <2>1. n < n + 1
    BY <1>1
  <2> QED BY <1>1, <1>2, <1>3, <2>1, PowerLess, Zenon
<1>8. p < m
  <2>1. n < SizeBits
    BY <1>1
  <2> QED BY <1>1, <1>2, <1>4, <2>1, PowerLess, Zenon
<1>9. d = q % m
  BY <1>2, <1>4, <1>6, Zenon DEF Doubled
<1>10. Fuel = m - p
  <2>1. size # 0
    BY <1>2, <1>5, <1>6, <1>7
  <2> QED BY <1>2, <1>4, <2>1, Zenon DEF Fuel
<1>11. CASE n + 1 < SizeBits
  <2>1. q < m
    BY <1>1, <1>3, <1>4, <1>11, PowerLess, Zenon
  <2>2. d = q /\ d # 0
    BY <1>5, <1>7, <1>9, <2>1
  <2>3. m - q < m - p
    BY <1>5, <1>7, <2>1
  <2>4. n + 1 \in 0..(SizeBits - 1)
    BY <1>1, <1>11
  <2> QED BY <1>3, <1>4, <1>10, <2>2, <2>3, <2>4, Zenon
<1>12. CASE n + 1 = SizeBits
  <2>1. q = m
    BY <1>3, <1>4, <1>12, Zenon
  <2>2. d = 0
    BY <1>5, <1>8, <1>9, <2>1
  <2>3. 0 < m - p
    BY <1>5, <1>8
  <2> QED BY <1>10, <2>2, <2>3, Zenon
<1> QED BY <1>1, <1>11, <1>12

\* A round of the loop: a size of zero is refused and ends it, a larger one is doubled.
LEMMA ReloadLeft ==
  ASSUME Logging, Sized, Reload
  PROVE  /\ Sized'
         /\ pc' = "done" \/ (pc' = "malloc" /\ Fuel' < Fuel)
<1>1. pc = "reload" /\ log_level = 1 /\ Syscall(attrs, raised, log_level, size)
  BY Zenon DEF Reload, Logging, LogLoop
<1>2. CASE size = 0
  <2>1. errno' = "EINVAL"
    BY <1>1, <1>2 DEF Syscall
  <2>2. pc' = "done" /\ size' = size
    BY <2>1, Zenon DEF Reload
  <2> QED BY <1>2, <2>2, Zenon DEF Sized
<1>3. CASE pc' = "done" /\ size' = size
  BY <1>3, Zenon DEF Sized
<1>4. CASE size # 0 /\ pc' = "malloc" /\ size' = Doubled
  <2>1. PICK n \in 0..(SizeBits - 1) : size = 2^n
    BY <1>4, Zenon DEF Sized
  <2>2. /\ size' = 0 \/ \E i \in 0..(SizeBits - 1) : size' = 2^i
        /\ (IF size' = 0 THEN 0 ELSE 2^SizeBits - size') < Fuel
    BY <1>4, <2>1, DoubledLeft, Zenon
  <2>3. Fuel' < Fuel
    BY <2>2, Zenon DEF Fuel
  <2>4. Sized'
    BY <2>2, Zenon DEF Sized
  <2> QED BY <1>4, <2>3, <2>4, Zenon
<1> QED BY <1>2, <1>3, <1>4, Zenon DEF Reload

\* A rung of a ladder goes to the next one, or leaves early, with the size as it was.
LEMMA RungDown ==
  ASSUME NEW at, NEW next, NEW cond, NEW strip, Sized, Rung(at, next, cond, strip)
  PROVE  pc = at /\ pc' \in {next, "early"} /\ Sized'
<1>1. pc = at /\ pc' = next /\ size' = size
  BY Zenon DEF Rung
<1> QED BY <1>1, Zenon DEF Sized

\* So does the one that raises the memory limit.
LEMMA RlimitDown ==
  ASSUME NEW at, NEW next, Sized, Rlimit(at, next)
  PROVE  pc = at /\ pc' \in {next, "early"} /\ Sized'
<1>1. pc = at /\ pc' \in {next, "early"} /\ size' = size
  BY Zenon DEF Rlimit
<1> QED BY <1>1, Zenon DEF Sized

\* Every step but that of the loop goes to a rung further down.
LEMMA StepDown ==
  ASSUME Logging, Sized, Next
  PROVE  /\ Sized'
         /\ \/ Rank[pc'] < Rank[pc] /\ (pc = "malloc" => Fuel' = Fuel)
            \/ pc = "reload" /\ pc' = "malloc" /\ Fuel' < Fuel
<1> USE DEF Rank
<1>0. \E n \in 0..(SizeBits - 1) : 1 = 2^n
  <2>1. 0 \in 0..(SizeBits - 1) /\ 1 = 2^0
    BY LoadRetryAssumption
  <2> QED BY <2>1, Zenon
<1>1. CASE CreateMap
  <2>1. CASE First("map", "map_rlimit")
    <3>1. pc = "map" /\ pc' = "map_rlimit" /\ size' = size
      BY <2>1, Zenon DEF First, Rung
    <3> QED BY <3>1 DEF Sized
  <2>2. CASE Rlimit("map_rlimit", "map_btf")
    <3>1. pc = "map_rlimit" /\ pc' \in {"map_btf", "early"} /\ Sized'
      BY <2>2, RlimitDown, Zenon
    <3> QED BY <3>1
  <2>3. CASE Rung("map_btf", "map_name", "btf" \in attrs /\ Failed({"ENOTSUPP"}), {"btf"})
    <3>1. pc = "map_btf" /\ pc' \in {"map_name", "early"} /\ Sized'
      BY <2>3, RungDown, Zenon
    <3> QED BY <3>1
  <2>4. CASE Rung("map_name", "map_last", Name, {"name"})
    <3>1. pc = "map_name" /\ pc' \in {"map_last", "early"} /\ Sized'
      BY <2>4, RungDown, Zenon
    <3> QED BY <3>1
  <2>5. CASE LastRlimit("map_last", "done")
    <3>1. pc = "map_last" /\ pc' \in {"done", "early"} /\ Sized'
      BY <2>5, RlimitDown, Zenon DEF LastRlimit
    <3> QED BY <3>1
  <2> QED BY <1>1, <2>1, <2>2, <2>3, <2>4, <2>5, Zenon DEF CreateMap
<1>2. CASE First("prog", "prog_btf")
  <2>1. pc = "prog" /\ pc' = "prog_btf" /\ size' = size
    BY <1>2, Zenon DEF First, Rung
  <2> QED BY <2>1 DEF Sized
<1>3. CASE Rung("prog_btf", "prog_name", "btf" \in attrs /\ Failed({"EINVAL"}), {"btf"})
  <2>1. pc = "prog_btf" /\ pc' \in {"prog_name", "early"} /\ Sized'
    BY <1>3, RungDown, Zenon
  <2> QED BY <2>1
<1>4. CASE Rung("prog_name", "prog_rlimit", Name, {"name"})
  <2>1. pc = "prog_name" /\ pc' \in {"prog_rlimit", "early"} /\ Sized'
    BY <1>4, RungDown, Zenon
  <2> QED BY <2>1
<1>5. CASE Rlimit("prog_rlimit", "too_big")
  <2>1. pc = "prog_rlimit" /\ pc' \in {"too_big", "early"} /\ Sized'
    BY <1>5, RlimitDown, Zenon
  <2> QED BY <2>1
<1>6. CASE LogBuf
  <2>1. pc = "log_buf" /\ pc' = "btf_id" /\ size' \in {size, 1}
    BY <1>6, Zenon DEF LogBuf
  <2>2. Sized'
    <3>1. CASE size' = size
      BY <3>1, Zenon DEF Sized
    <3>2. CASE size' = 1
      BY <1>0, <3>2, Zenon DEF Sized
    <3> QED BY <2>1, <3>1, <3>2, Zenon
  <2> QED BY <2>1, <2>2
<1>7. CASE FindBtfId
  <2>1. pc = "btf_id" /\ pc' \in {"prog", "early"} /\ size' = size
    BY <1>7, Zenon DEF FindBtfId
  <2> QED BY <2>1 DEF Sized
<1>8. CASE TooBig
  <2>1. pc = "too_big" /\ pc' \in {"early", "log", "done"} /\ size' = size
    BY <1>8, Zenon DEF TooBig
  <2> QED BY <2>1 DEF Sized
<1>9. CASE Log
  <2>1. pc = "log" /\ pc' \in {"done", "malloc"} /\ size' \in {size, 1}
    BY <1>9, Zenon DEF Log
  <2>2. Sized'
    <3>1. CASE size' = size
      BY <3>1, Zenon DEF Sized
    <3>2. CASE size' = 1
      BY <1>0, <3>2, Zenon DEF Sized
    <3> QED BY <2>1, <3>1, <3>2, Zenon
  <2> QED BY <2>1, <2>2
<1>10. CASE Malloc
  <2>1. pc = "malloc" /\ pc' \in {"reload", "done"} /\ size' = size
    BY <1>10, Zenon DEF Malloc
  <2> QED BY <2>1 DEF Sized, Fuel
<1>11. CASE Reload
  <2>1. pc = "reload"
    BY <1>11, Zenon DEF Reload
  <2> QED BY <1>11, <2>1, ReloadLeft
<1>12. CASE Result
  <2>1. pc = "done" /\ pc' = "returned" /\ size' = size
    BY <1>12, Zenon DEF Result
  <2> QED BY <2>1 DEF Sized
<1> QED
  BY <1>1, <1>2, <1>3, <1>4, <1>5, <1>6, <1>7, <1>8, <1>9, <1>10, <1>11, <1>12, Zenon DEF Next, LoadProg

\* The retries come to an end, for every width of the log buffer's size and whatever
\* the kernel answers: each step of bcc_create_map_xattr and bcc_prog_load_xattr leads
\* further down the ladder, or leaves fewer sizes to try.
THEOREM WayDown == Spec => GoesDown
<1> DEFINE All == Types /\ Flags /\ Given /\ Logging /\ Sized
<1>1. Init => All
  <2> SUFFICES ASSUME Init PROVE All
    BY Zenon
  <2>1. Types /\ Flags /\ Given
    BY TypesInit, Zenon DEF Init, Given
  <2>2. (pc = "map" /\ in.what = "map") \/ (pc = "log_buf" /\ in.what = "prog")
    BY CallFacts, <2>1, Zenon DEF Init
  <2>3. log_level = in.log_level /\ in.log_level \in Nat
    BY CallFacts, <2>1 DEF Init
  <2>4. Logging
    BY <2>2, <2>3 DEF Logging, MapRungs, ProgRungs, LogLoop
  <2>5. Sized
    BY Zenon DEF Init, Sized
  <2> QED BY <2>1, <2>4, <2>5, Zenon
<1>2. All /\ [Next]_vars => All'
  <2> SUFFICES ASSUME All, [Next]_vars PROVE Sized'
    BY TypesStep, LoggingStep, Zenon
  <2>1. CASE UNCHANGED vars
    BY <2>1, Zenon DEF vars, Sized
  <2> QED BY <2>1, StepDown, Zenon
<1>3. All /\ [Next]_vars =>
        [\/ Rank[pc'] < Rank[pc] /\ (pc = "malloc" => Fuel' = Fuel)
         \/ pc = "reload" /\ pc' = "malloc" /\ Fuel' < Fuel]_vars
  BY StepDown, Zenon
<1> QED BY <1>1, <1>2, <1>3, PTL DEF Spec, GoesDown
=============================================================================
