----------------------------- MODULE LoadRetry ------------------------------
(***************************************************************************)
(* bcc_create_map_xattr and bcc_prog_load_xattr (src/cc/libbpf.c): one     *)
(* call, with the ladder of retries it goes through as the kernel rejects  *)
(* what it does not support, and the verifier log that is asked for after  *)
(* a failed load.  The kernel is external: Verdict says what its version   *)
(* and limits make of the attributes it is given.                          *)
(***************************************************************************)
EXTENDS Naturals, FiniteSets

CONSTANTS
  SizeBits,        \* width of tmp_log_buf_size, counted in units of LOG_BUF_SIZE
  LogSizes         \* verifier log lengths and user buffer sizes, in the same units

ASSUME LoadRetryAssumption == SizeBits \in Nat \ {0} /\ LogSizes \subseteq Nat

VARIABLES
  in,           \* the call: what is created, its attributes, the log arguments
  kern,         \* the kernel: what it supports, the limits, the program's fate
  pc,           \* the next rung
  ret,          \* "ok" or "err": the last result
  errno,
  attrs,        \* optional attributes still passed
  raised,       \* RLIMIT_MEMLOCK is unlimited
  log_level,
  bufs,         \* temporary log buffers allocated
  size,         \* tmp_log_buf_size
  btf_fd,       \* the module's BTF descriptor is open
  loaded        \* descriptors the kernel returned

vars == <<in, kern, pc, ret, errno, attrs, raised, log_level, bufs, size, btf_fd, loaded>>
env == <<in, kern>>

Errors == {"EPERM", "EINVAL", "E2BIG", "ENOSPC", "ENOTSUPP", "EACCES", "ENOMEM", "none"}

Inputs == [what : {"map", "prog"}, attrs : SUBSET {"name", "btf"}, allow_rlimit : BOOLEAN,
           log_level : {0, 1}, user : LogSizes, tracing : BOOLEAN]

\* Attributes the kernel does not know, and how it says so; memlock is short, and
\* can be raised; log is the length of the verifier's log.
Kernels == [unknown : SUBSET {"name", "btf"}, says : {"EINVAL", "E2BIG"},
            bpf : BOOLEAN, low : BOOLEAN, raise : BOOLEAN,
            fate : {"ok", "EINVAL", "EACCES", "E2BIG"}, log : LogSizes]

\* BTF is passed only if the kernel has loaded it, and such a kernel knows names.
Init ==
  /\ in \in Inputs /\ kern \in Kernels
  /\ "btf" \in in.attrs => "name" \notin kern.unknown
  /\ in.what = "map" => in.log_level = 0 /\ in.user = 0 /\ ~in.tracing
                        /\ kern.log = 0 /\ kern.fate # "E2BIG"
  /\ kern.unknown \subseteq in.attrs /\ (in.tracing => "name" \in in.attrs)
  /\ pc = IF in.what = "map" THEN "map" ELSE "log_buf"
  /\ ret = "err" /\ errno = "none" /\ attrs = in.attrs /\ raised = FALSE
  /\ log_level = in.log_level /\ bufs = 0 /\ size = 0 /\ btf_fd = FALSE /\ loaded = 0

\* What the kernel makes of a call (external): the first objection it has, in the
\* order in which it looks.
Verdict(as, limit, level, room) ==
  IF ~kern.bpf THEN "EPERM"
  ELSE IF "name" \in as \cap kern.unknown THEN kern.says
  ELSE IF in.what = "prog" /\ "btf" \in as \cap kern.unknown THEN kern.says
  ELSE IF kern.fate = "E2BIG" THEN "E2BIG"
  ELSE IF kern.low /\ ~limit THEN "EPERM"
  ELSE IF in.what = "map" /\ "btf" \in as \cap kern.unknown THEN "ENOTSUPP"
  ELSE IF level > 0 /\ room < kern.log THEN "ENOSPC"
  ELSE kern.fate

\* libbpf_bpf_prog_load refuses a log buffer without a size; otherwise the system
\* call.  errno keeps its value when it succeeds.
Syscall(as, limit, level, room) ==
  LET v == IF level > 0 /\ room = 0 THEN "EINVAL" ELSE Verdict(as, limit, level, room)
  IN  /\ ret' = IF v = "ok" THEN "ok" ELSE "err"
      /\ errno' = IF v = "ok" THEN errno ELSE v
      /\ loaded' = IF v = "ok" THEN loaded + 1 ELSE loaded
      /\ attrs' = as /\ raised' = limit /\ log_level' = level
Skip == UNCHANGED <<ret, errno, loaded, attrs, raised, log_level>>
Failed(errs) == ret = "err" /\ errno \in errs
Room == IF in.user > 0 THEN in.user ELSE size

\* A rung: under its condition the call is repeated, otherwise nothing happens.
Rung(at, next, cond, strip) ==
  /\ pc = at /\ pc' = next
  /\ IF cond THEN Syscall(attrs \ strip, raised, log_level, Room) ELSE Skip
  /\ UNCHANGED <<env, bufs, size, btf_fd>>

First(at, next) == Rung(at, next, TRUE, {})

\* EPERM: the limit is raised to unlimited, unless the caller forbids it.  A
\* setrlimit that fails leaves EPERM.
Rlimit(at, next) ==
  /\ pc = at
  /\ IF Failed({"EPERM"}) /\ ~in.allow_rlimit THEN pc' = "early" ELSE pc' = next
  /\ IF Failed({"EPERM"}) /\ in.allow_rlimit /\ kern.raise
       THEN Syscall(attrs, TRUE, log_level, Room) ELSE Skip
  /\ UNCHANGED <<env, bufs, size, btf_fd>>

-----------------------------------------------------------------------------
(* bcc_create_map_xattr.                                                    *)

NameMutant == "name" \in in.attrs /\ errno \in {"E2BIG", "EINVAL"}
Name == "name" \in in.attrs /\ Failed({"E2BIG", "EINVAL"})

LastRlimitMutant(at, next) == /\ pc = at /\ pc' = next
                              /\ UNCHANGED <<env, bufs, size, btf_fd>> /\ Skip
LastRlimit(at, next) == Rlimit(at, next)

CreateMap == \/ First("map", "map_rlimit")
             \/ Rlimit("map_rlimit", "map_btf")
             \/ Rung("map_btf", "map_name", "btf" \in attrs /\ Failed({"ENOTSUPP"}), {"btf"})
             \/ Rung("map_name", "map_last", Name, {"name"})
             \/ LastRlimit("map_last", "done")

-----------------------------------------------------------------------------
(* bcc_prog_load_xattr.                                                     *)

\* A temporary log buffer, when logging is asked for without a buffer.
LogBuf ==
  /\ pc = "log_buf" /\ pc' = "btf_id"
  /\ \/ /\ in.log_level > 0 /\ in.user = 0
        /\ \/ bufs' = 1 /\ size' = 1 /\ UNCHANGED <<log_level, errno>>
           \/ log_level' = 0 /\ size' = 1 /\ errno' = "ENOMEM" /\ UNCHANGED bufs
     \/ ~(in.log_level > 0 /\ in.user = 0) /\ UNCHANGED <<bufs, size, log_level, errno>>
  /\ UNCHANGED <<env, ret, attrs, raised, btf_fd, loaded>>

\* find_btf_id for tracing programs; the descriptor of a module's BTF stays open.
FindBtfId ==
  /\ pc = "btf_id"
  /\ \/ pc' = "prog" /\ UNCHANGED btf_fd
     \/ in.tracing /\ pc' = "prog" /\ btf_fd' = TRUE
     \/ in.tracing /\ pc' = "early" /\ UNCHANGED btf_fd
  /\ UNCHANGED <<env, ret, errno, attrs, raised, log_level, bufs, size, loaded>>

TooBig ==
  /\ pc = "too_big" /\ Skip
  /\ pc' = IF Failed({"E2BIG"}) THEN "early" ELSE IF ret = "err" THEN "log" ELSE "done"
  /\ UNCHANGED <<env, bufs, size, btf_fd>>

\* The load has failed.  With the user's buffer it is repeated once with logging
\* on; otherwise the temporary buffer starts over.
DropBufMutant == UNCHANGED bufs
DropBuf == bufs' = 0

Log ==
  /\ pc = "log"
  /\ \/ /\ in.user > 0 /\ pc' = "done"
        /\ IF log_level = 0 THEN Syscall(attrs, raised, 1, in.user) ELSE Skip
        /\ UNCHANGED <<bufs, size>>
     \/ /\ in.user = 0 /\ pc' = "malloc" /\ DropBuf /\ size' = 1
        /\ log_level' = 1
        /\ UNCHANGED <<ret, errno, loaded, attrs, raised>>
  /\ UNCHANGED <<env, btf_fd>>

FreeBufMutant == UNCHANGED bufs
FreeBuf == bufs' = bufs - 1

\* The loop: a buffer, the load, and twice the size when the log did not fit.
Malloc ==
  /\ pc = "malloc"
  /\ \/ bufs' = bufs + 1 /\ pc' = "reload" /\ UNCHANGED errno
     \/ UNCHANGED bufs /\ pc' = "done" /\ errno' = "ENOMEM"
  /\ UNCHANGED <<env, ret, attrs, raised, log_level, size, btf_fd, loaded>>

DoubledMutant == size
Doubled == (2 * size) % 2^SizeBits

Reload ==
  /\ pc = "reload"
  /\ Syscall(attrs, raised, log_level, size)
  /\ IF ret' = "err" /\ errno' = "ENOSPC"
       THEN pc' = "malloc" /\ FreeBuf /\ size' = Doubled
       ELSE pc' = "done" /\ UNCHANGED <<bufs, size>>
  /\ UNCHANGED <<env, btf_fd>>

LoadProg == \/ LogBuf \/ FindBtfId
            \/ First("prog", "prog_btf")
            \/ Rung("prog_btf", "prog_name", "btf" \in attrs /\ Failed({"EINVAL"}), {"btf"})
            \/ Rung("prog_name", "prog_rlimit", Name, {"name"})
            \/ Rlimit("prog_rlimit", "too_big")
            \/ TooBig \/ Log \/ Malloc \/ Reload

\* return_result.
Result ==
  /\ pc = "done" /\ pc' = "returned"
  /\ btf_fd' = FALSE /\ bufs' = IF bufs > 0 THEN bufs - 1 ELSE bufs
  /\ UNCHANGED <<env, ret, errno, attrs, raised, log_level, size, loaded>>

Next == CreateMap \/ LoadProg \/ Result

Spec == Init /\ [][Next]_vars

\* A call that has begun goes on: nothing in it waits for anybody.
FairSpec == Spec /\ WF_vars(Next)

-----------------------------------------------------------------------------
(* Properties.                                                              *)

Returned == pc \in {"early", "returned"}

\* The state is well formed; a temporary buffer is there when it is used.
TypeOK ==
  /\ in \in Inputs /\ kern \in Kernels /\ attrs \subseteq in.attrs
  /\ ret \in {"ok", "err"} /\ errno \in Errors /\ raised \in BOOLEAN /\ btf_fd \in BOOLEAN
  /\ log_level \in {0, 1} /\ size \in 0..(2^SizeBits - 1) /\ bufs \in 0..1
  /\ pc = "reload" => bufs = 1

\* Every retry asks whether the last attempt failed, not only for errno, which a
\* success leaves alone: what the kernel created is what is returned, never more.
CreatedIsReturned == Returned => loaded = IF ret = "ok" THEN 1 ELSE 0

\* The map or program is acceptable without its optional attributes and, where the
\* caller allows it, with more locked memory; the log fits where it is wanted.
LogFits == IF in.user > 0 THEN in.log_level = 0 \/ in.user >= kern.log
           ELSE \E n \in 0..(SizeBits - 1) : 2^n >= kern.log
Acceptable ==
  /\ kern.bpf /\ kern.fate = "ok" /\ (kern.low => in.allow_rlimit /\ kern.raise)
  /\ in.what = "prog" => LogFits /\ ("btf" \in kern.unknown => kern.says = "EINVAL")

\* The order of the rungs: whatever combination of unsupported name, unsupported BTF
\* and short memlock limit the first attempts meet, the call succeeds if it can.
\* It does not give up at an early return either, unless find_btf_id failed before the
\* kernel was asked.  (A kernel that says E2BIG for func_info and a failing malloc are
\* excepted.)
LadderSucceeds ==
  Acceptable => /\ pc = "returned" /\ errno # "ENOMEM" => ret = "ok"
                /\ pc = "early" => in.tracing /\ errno \in {"none", "ENOMEM"}

\* The temporary buffer and the BTF descriptor are released on the way out, once,
\* except on the three returns that bypass return_result.
ReleasedAtResult == pc = "returned" => bufs = 0 /\ ~btf_fd

\* How far a rung is from the end of the call, and a buffer from the wrap to zero.
Rank == [log_buf |-> 11, btf_id |-> 10, prog |-> 9, prog_btf |-> 8, prog_name |-> 7,
         prog_rlimit |-> 6, too_big |-> 5, log |-> 4, malloc |-> 3, reload |-> 2,
         map |-> 6, map_rlimit |-> 5, map_btf |-> 4, map_name |-> 3, map_last |-> 2,
         done |-> 1, returned |-> 0, early |-> 0]
Fuel == IF size = 0 THEN 0 ELSE 2^SizeBits - size

\* Every step goes down the ladder.  The one that goes back, for a larger log buffer,
\* has fewer sizes left before it, whatever the kernel answers, so that no call goes
\* round for ever.
GoesDown ==
  [][\/ Rank[pc'] < Rank[pc] /\ (pc = "malloc" => Fuel' = Fuel)
     \/ pc = "reload" /\ pc' = "malloc" /\ Fuel' < Fuel]_vars

\* The loop that doubles the log buffer ends even if no log ever fits, since the
\* size wraps to zero, which libbpf_bpf_prog_load refuses.
Terminates == <>Returned
=============================================================================
