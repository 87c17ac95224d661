------------------------------ MODULE Symbols -------------------------------
(***************************************************************************)
(* ProcSyms of src/cc/bcc_syms.cc: the symbol cache of one pid, as the     *)
(* process behind the pid executes other programs, loads libraries, exits  *)
(* and is replaced, and SymbolCache.resolve of src/python/bcc/__init__.py. *)
(* An image is what a process runs: the inode of its executable (exe), its *)
(* root and mount namespace (ns) and its modules.  A module is a record    *)
(* with its name, its type, the addresses [lo, hi) it is mapped at and its *)
(* symbols; the addresses of the perf map are the whole address space.     *)
(***************************************************************************)
EXTENDS Naturals, Sequences, FiniteSets, FiniteSetsExt, Functions, ProcStat

CONSTANTS
  Images(_),       \* Images(t): the images the process may have; t is the table of
                   \* one of its libraries
  SymbolTables,    \* the tables t: sequences of symbols sorted by start
  PerfMaps,        \* what /tmp/perf-<pid>.map may hold; <<>> if there is none
  Addresses,
  lazy_symbolize   \* of bcc_symbol_option: the names of an ELF file's symbols are read
                   \* when a symbol is first found, not with the table

\* std::sort at the end of load_sym_table; a name is a module of its own in
\* _add_module.
Symbol == [start : Nat, size : Nat]
IsTable(s) ==
  s \in Seq(Symbol) /\ \A i, j \in DOMAIN s : i <= j => s[i].start <= s[j].start
IsImage(p) ==
  /\ p.exe # Gone.exe
  /\ p.mods \in Seq([name : STRING \ {"perf", "none"}, type : {"so", "exec"}, lo : Nat, hi : Nat,
                     syms : Seq(Symbol), loaded : {FALSE}, named : {{}}])
  /\ \A i \in DOMAIN p.mods : IsTable(p.mods[i].syms)
  /\ \A i, j \in DOMAIN p.mods : p.mods[i].name = p.mods[j].name => i = j

ASSUME SymbolsAssumption ==
  /\ Addresses \subseteq Nat /\ lazy_symbolize \in BOOLEAN
  /\ \A s \in PerfMaps : IsTable(s)
  /\ \A t \in SymbolTables : \A p \in Images(t) : IsImage(p)

VARIABLES
  table,        \* the library's symbols
  proc,         \* the image, or Gone
  perf,         \* the perf map's symbols
  stat,         \* procstat_
  cache,        \* modules_: as mapped, with what load_sym_table has read; named are
                \* the indices of the symbols that have is_name_resolved
  call,         \* the call in progress: pc, the address asked for, the next module
                \* to look at and original_module
  res,          \* what the last resolve_addr left in sym, and of which process
  skewed        \* history: procstat_ was last brought up to date for another image
                \* than the one modules_ was read from

vars == <<table, proc, perf, stat, cache, call, res, skewed>>

Idle == [pc |-> "idle", addr |-> 0, next |-> 1, saved |-> "none"]
NoResult == [addr |-> 0, found |-> FALSE, module |-> "none", offset |-> 0, start |-> 0, asked |-> Gone]

-----------------------------------------------------------------------------
(* Operators.                                                               *)

\* find_addr walks back from upper_bound over the symbols that start at or before
\* the offset.  A symbol that contains the offset ends the walk, and so does one that
\* ends before the last of them starts.  The set of the index, or the empty set.
Below(syms, off) == {i \in DOMAIN syms : syms[i].start <= off}
End(s) == s.start + s.size
Hit(s, off) == off < End(s)
BreaksMutant(limit, s) == limit >= s.start
Breaks(limit, s) == limit > End(s)
PassesMutant(syms, off, i, n) ==
  \A j \in Below(syms, off) : j > i => ~Breaks(syms[n].start, syms[j])
Passes(syms, off, i, n) ==
  \A j \in Below(syms, off) : j > i => ~Hit(syms[j], off) /\ ~Breaks(syms[n].start, syms[j])
Walk(syms, off) ==
  {i \in Below(syms, off) :
     /\ Hit(syms[i], off)
     /\ \E n \in Below(syms, off) : /\ \A j \in Below(syms, off) : j <= n
                                    /\ Passes(syms, off, i, n)}

\* It has found the symbol if its name is known or, str, bcc_elf_symbol_str reads it
\* now.  The name is then kept; if it cannot be read the walk does not go on.
find_addr(m, off, str) == {i \in Walk(m.syms, off) : i \in m.named \/ str}

contains(m, addr) == m.lo <= addr /\ addr < m.hi
Offset(m, addr) == IF m.type = "so" THEN addr - m.lo ELSE addr

\* load_sym_table, once for a module; an unreadable file leaves it empty.
IsLazy(m) == lazy_symbolize /\ m.type # "perf"
LoadedMutant(m, ok) ==
  [m EXCEPT !.loaded = TRUE,
            !.syms = IF ~ok THEN @ ELSE IF m.type = "perf" THEN @ \o perf ELSE @ \o table]
Loaded(m, ok) ==
  IF m.loaded THEN m
  ELSE LET syms == IF ~ok THEN <<>> ELSE IF m.type = "perf" THEN perf ELSE m.syms
       IN  [m EXCEPT !.loaded = TRUE, !.syms = syms, !.named = IF IsLazy(m) THEN {} ELSE DOMAIN syms]

\* A module is looked at if it is mapped at the address; after one without the
\* symbol only the perf map is.
Skips(m) == ~contains(m, call.addr) \/ (call.saved # "none" /\ m.type # "perf")
Found(m, str) == find_addr(m, Offset(m, call.addr), str)
Try(m, str) ==
  LET off == Offset(m, call.addr)
  IN  IF Found(m, str) # {}
        THEN LET s == m.syms[Min(Found(m, str))]
             IN  [res EXCEPT !.found = TRUE, !.module = m.name, !.start = s.start,
                             !.offset = off - s.start]
        ELSE [res EXCEPT !.module = m.name, !.offset = off]

\* The module afterwards: is_name_resolved of the symbol that was found.
Searched(m, str) == [m EXCEPT !.named = @ \cup Found(m, str)]

\* load_modules: /proc/<pid>/maps, then the perf map if it can be read.
PerfModule == [name |-> "perf", type |-> "perf", lo |-> 0, hi |-> Max(Addresses) + 1,
               syms |-> <<>>, loaded |-> FALSE, named |-> {}]
load_modules(p) ==
  IF p = Gone THEN <<>>
  ELSE p.mods \o (IF perf = <<>> THEN <<>> ELSE <<PerfModule>>)
Read(p) == [of |-> p, mods |-> load_modules(p)]

-----------------------------------------------------------------------------
(* The process (external).                                                  *)

Init ==
  /\ table \in SymbolTables /\ perf \in PerfMaps
  /\ proc \in Images(table)
  /\ stat = Remember(proc) /\ cache = Read(Gone) /\ call = [Idle EXCEPT !.pc = "new"]
  /\ res = NoResult /\ skewed = FALSE

Become(p) ==
  /\ p # proc /\ proc' = p
  /\ UNCHANGED <<table, perf, stat, cache, call, res, skewed>>

\* A just-in-time compiler appends to the perf map.
IsPrefix(s, t) == Len(s) <= Len(t) /\ \A i \in 1..Len(s) : s[i] = t[i]
Emit(s) ==
  /\ s # perf /\ perf # <<>> /\ IsPrefix(perf, s) /\ perf' = s
  /\ UNCHANGED <<table, proc, stat, cache, call, res, skewed>>

-----------------------------------------------------------------------------
(* The cache.                                                               *)

Same == UNCHANGED <<table, proc, perf>>
At(pc) == call.pc = pc /\ Same
Go(pc) == call' = [call EXCEPT !.pc = pc]

\* The constructor has looked at the process; now it reads the modules.
LoadNew ==
  /\ At("new") /\ call' = Idle /\ cache' = Read(proc)
  /\ skewed' = (proc = Gone \/ stat # Remember(proc)) /\ UNCHANGED <<stat, res>>

\* resolve_addr: is_stale, and refresh if it is.
resolve_addr(addr, junk) ==
  /\ At("idle") /\ UNCHANGED <<cache, skewed>>
  /\ call' = [Idle EXCEPT !.pc = IF is_stale(stat, proc, junk) THEN "load" ELSE "search", !.addr = addr]
  /\ stat' = AfterStale(stat, proc)
  /\ res' = [NoResult EXCEPT !.asked = proc, !.addr = addr]

\* refresh: clear, load_modules, then the inode of reset.  bcc_symcache_refresh
\* calls it too, without asking for the root.
refresh == At("idle") /\ Go("load_only") /\ res' = NoResult /\ UNCHANGED <<stat, cache, skewed>>

Load ==
  /\ call.pc \in {"load", "load_only"} /\ Same /\ cache' = Read(proc)
  /\ Go(IF call.pc = "load" THEN "reset" ELSE "reset_only")
  /\ UNCHANGED <<stat, res, skewed>>

ResetMutant(st, p) == st
Reset(st, p) == reset(st, p)

Finish ==
  /\ call.pc \in {"reset", "reset_only"} /\ Same
  /\ stat' = Reset(stat, proc) /\ Go(IF call.pc = "reset" THEN "search" ELSE "idle")
  /\ skewed' = (cache.of # proc \/ (proc # Gone /\ stat.ns # proc.ns))
  /\ UNCHANGED <<cache, res>>

\* A turn of the loop over the modules.  A table is read when it is first needed:
\* ok says whether its file can be read, str whether a name of it can.
Turn(ok, str) ==
  /\ At("search") /\ call.next <= Len(cache.mods)
  /\ LET m == cache.mods[call.next]
         l == Loaded(m, ok)
     IN  \/ /\ Skips(m) /\ call' = [call EXCEPT !.next = @ + 1]
            /\ UNCHANGED <<cache, res>>
         \/ /\ ~Skips(m) /\ cache' = [cache EXCEPT !.mods[call.next] = Searched(l, str)]
            /\ res' = Try(l, str)
            /\ call' = IF Found(l, str) # {} THEN Idle
                       ELSE [call EXCEPT !.next = @ + 1, !.saved = IF m.type = "perf" THEN @ ELSE m.name]
  /\ UNCHANGED <<stat, skewed>>

\* After the last module: the name of the module is kept, the offset is not.
GiveUp ==
  /\ At("search") /\ call.next > Len(cache.mods) /\ call' = Idle
  /\ res' = [res EXCEPT !.module = IF call.saved # "none" THEN call.saved ELSE @]
  /\ UNCHANGED <<stat, cache, skewed>>

\* SymbolCache.resolve of the Python front end, for a symbol that was not found.
PyResult == IF res.module # "none" /\ res.offset # 0
              THEN [module |-> res.module, offset |-> res.offset]
              ELSE [module |-> "none", offset |-> res.addr]

Next ==
  \/ \E p \in Images(table) \cup {Gone} : Become(p)
  \/ \E s \in PerfMaps : Emit(s)
  \/ LoadNew \/ refresh \/ Load \/ Finish \/ GiveUp
  \/ \E addr \in Addresses, junk \in BOOLEAN : resolve_addr(addr, junk)
  \/ \E ok, str \in BOOLEAN : Turn(ok, str)

Spec == Init /\ [][Next]_vars

-----------------------------------------------------------------------------
(* Properties.                                                              *)

Module(name) == CHOOSE m \in Range(cache.mods) : m.name = name

\* The state is well formed; the cached tables are the files' tables, or empty, and
\* the perf map's is what the file held at some time; a name kept is one of a symbol.
TypeOK ==
  /\ table \in SymbolTables /\ perf \in PerfMaps
  /\ call.pc \in {"new", "idle", "load", "load_only", "reset", "reset_only", "search"}
  /\ \A m \in Range(cache.mods) : m.named \subseteq DOMAIN m.syms
  /\ \A m \in Range(cache.mods) :
       m.loaded /\ m.syms # <<>> =>
         IF m.type = "perf" THEN IsPrefix(m.syms, perf)
         ELSE \E f \in Range(cache.of.mods) : f.name = m.name /\ f.syms = m.syms

Resolved == call.pc = "idle" /\ res.asked # NoResult.asked

\* A symbol that is returned contains the address, with the right offset into it and
\* its name at hand, and no symbol that starts later contains the address.
HitIsInnermost ==
  Resolved /\ res.found =>
    LET m == Module(res.module)
        off == Offset(m, res.addr)
    IN  /\ contains(m, res.addr) /\ off = res.start + res.offset
        /\ \E k \in m.named : m.syms[k].start = res.start /\ Hit(m.syms[k], off)
        /\ \A s \in Range(m.syms) : s.start <= off /\ Hit(s, off) => s.start <= res.start

\* The early end of the walk misses no symbol around which at most one other
\* begins before the address: a function, or one with one function nested in it.
\* The first module mapped at the address is the one that is searched.  The exception
\* is a symbol of an ELF file at which the walk ends and whose name could not be read
\* (nor was read by an earlier call: a name is read once until the next refresh).
Nameless(m, off) == IsLazy(m) /\ \E k \in Walk(m.syms, off) : k \notin m.named
NestingIsSeen ==
  Resolved /\ ~res.found =>
    \A i \in DOMAIN cache.mods :
      LET m == cache.mods[i]
          off == Offset(m, res.addr)
          first == \A j \in 1..(i - 1) : ~contains(cache.mods[j], res.addr)
      IN  contains(m, res.addr) /\ first /\ ~Nameless(m, off) =>
            \A k \in Below(m.syms, off) : Hit(m.syms[k], off) =>
              \E j1, j2 \in Below(m.syms, off) : k < j1 /\ j1 < j2

\* A process whose executable and root both differ from those of the image the cache
\* was read from is noticed, over any history of executions, exits and reuses of
\* the pid: unless the process changed between reading the modules and the inode,
\* or a refresh was asked for that does not look at the root.
NewImageIsNoticed ==
  Resolved /\ ~skewed /\ res.asked # Gone /\ cache.of # Gone =>
    res.asked.exe = cache.of.exe \/ res.asked.ns = cache.of.ns

\* "If the symbol cannot be found but we know which module it is in, return the
\* module name and the offset from the beginning of the module": the docstring of
\* SymbolCache.resolve.
UnknownHasModuleOffset ==
  Resolved /\ ~res.found /\ PyResult.module # "none" =>
    PyResult.offset = Offset(Module(PyResult.module), res.addr)
=============================================================================
