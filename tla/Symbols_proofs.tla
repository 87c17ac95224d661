--------------------------- MODULE Symbols_proofs ---------------------------
(***************************************************************************)
(* What find_addr returns, for every table of symbols and every offset;    *)
(* that a new image is noticed; and what resolve_addr answers, for every   *)
(* set of images, tables, perf maps and addresses.                         *)
(***************************************************************************)
EXTENDS Symbols, TLAPS

-----------------------------------------------------------------------------
(* Facts about sequences.                                                    *)

\* A sequence is a function on the numbers up to its length.
LEMMA LenProperties ==
  ASSUME NEW S, NEW s \in Seq(S)
  PROVE  Len(s) \in Nat /\ s \in [1..Len(s) -> S] /\ DOMAIN s = 1..Len(s)
OBVIOUS

\* Its elements are of the set it is over.
LEMMA ElementOfSeq ==
  ASSUME NEW S, NEW s \in Seq(S), NEW n \in 1..Len(s)
  PROVE  s[n] \in S
OBVIOUS

\* A sequence over a set is one over a larger set.
LEMMA SeqMonotonic ==
  ASSUME NEW S, NEW T, S \subseteq T, NEW s \in Seq(S)
  PROVE  s \in Seq(T)
OBVIOUS

\* The empty sequence is over every set.
LEMMA EmptySeq ==
  ASSUME NEW S
  PROVE  <<>> \in Seq(S) /\ Len(<<>>) = 0
OBVIOUS

\* One element replaced.
LEMMA ExceptSeq ==
  ASSUME NEW S, NEW s \in Seq(S), NEW n \in 1..Len(s), NEW e \in S
  PROVE  /\ [s EXCEPT ![n] = e] \in Seq(S) /\ Len([s EXCEPT ![n] = e]) = Len(s)
         /\ \A j \in 1..Len(s) : [s EXCEPT ![n] = e][j] = IF j = n THEN e ELSE s[j]
OBVIOUS

\* One sequence after the other.
LEMMA ConcatProperties ==
  ASSUME NEW S, NEW s \in Seq(S), NEW t \in Seq(S)
  PROVE  /\ s \o t \in Seq(S) /\ Len(s \o t) = Len(s) + Len(t)
         /\ \A i \in 1..(Len(s) + Len(t)) :
              (s \o t)[i] = IF i <= Len(s) THEN s[i] ELSE t[i - Len(s)]
OBVIOUS

-----------------------------------------------------------------------------
(* The walk of find_addr.                                                    *)

\* A table as a function.
LEMMA TableIsFunction ==
  ASSUME NEW syms, IsTable(syms)
  PROVE  \E N \in Nat : syms \in [1..N -> [start : Nat, size : Nat]]
BY LenProperties, Zenon DEF IsTable, Symbol

\* The walk of find_addr ends with at most one symbol, which contains the offset,
\* and no symbol further down the table that starts before the offset does.
LEMMA WalkEndsAtTheLast ==
  ASSUME NEW syms, IsTable(syms), NEW off \in Nat, NEW i \in Walk(syms, off)
  PROVE  /\ Hit(syms[i], off) /\ syms[i].start <= off
         /\ \A k \in Below(syms, off) : Hit(syms[k], off) => k <= i
         /\ Walk(syms, off) = {i}
<1> PICK N \in Nat : syms \in [1..N -> [start : Nat, size : Nat]]
  BY TableIsFunction, Zenon
<1>1. i \in Below(syms, off) /\ Hit(syms[i], off)
  BY Zenon DEF Walk
<1>2. ASSUME NEW a \in Walk(syms, off), NEW k \in Below(syms, off), Hit(syms[k], off)
      PROVE  k <= a
  <2>1. a \in 1..N /\ k \in 1..N
    BY <1>2, Zenon DEF Walk, Below
  <2>2. ~(k > a)
    BY <1>2, Zenon DEF Walk, Passes
  <2> QED BY <2>1, <2>2
<1>3. ASSUME NEW a \in Walk(syms, off)
      PROVE  a = i
  <2>1. a \in Below(syms, off) /\ Hit(syms[a], off)
    BY <1>3, Zenon DEF Walk
  <2>2. a <= i /\ i <= a
    BY <1>1, <1>2, <2>1, Zenon
  <2>3. a \in 1..N /\ i \in 1..N
    BY <1>1, <2>1, Zenon DEF Below
  <2> QED BY <2>2, <2>3
<1> QED BY <1>1, <1>2, <1>3, Zenon DEF Below

\* Ending the walk early passes no symbol that contains the offset and after which
\* at most one other starts before the offset.
LEMMA NestedOnceEndsTheWalk ==
  ASSUME NEW syms, IsTable(syms), NEW off \in Nat,
         NEW k \in Below(syms, off), Hit(syms[k], off),
         ~ \E j1, j2 \in Below(syms, off) : k < j1 /\ j1 < j2
  PROVE  Walk(syms, off) # {}
<1> PICK N \in Nat : syms \in [1..N -> [start : Nat, size : Nat]]
  BY TableIsFunction, Zenon
<1> DEFINE B == Below(syms, off)
<1>0. B \subseteq 1..N
  BY Zenon DEF Below
<1>1. CASE \A j \in B : j <= k
  <2>1. Passes(syms, off, k, k)
    BY <1>0, <1>1 DEF Passes
  <2> QED BY <1>1, <2>1, Zenon DEF Walk
<1>2. CASE \E n \in B : n > k
  <2>1. PICK n \in B : n > k
    BY <1>2, Zenon
  <2>2. \A j \in B : j > k => j = n
    BY <1>0, <2>1
  <2>3. \A j \in B : j <= n
    BY <1>0, <2>1, <2>2
  <2>4. CASE Hit(syms[n], off)
    <3>1. Passes(syms, off, n, n)
      BY <1>0, <2>3 DEF Passes
    <3> QED BY <2>3, <2>4, <3>1, Zenon DEF Walk
  <2>5. CASE ~Hit(syms[n], off)
    <3>1. ~Breaks(syms[n].start, syms[n])
      BY <1>0 DEF Breaks, End
    <3>2. Passes(syms, off, k, n)
      BY <2>2, <2>5, <3>1, Zenon DEF Passes
    <3> QED BY <2>3, <3>2, Zenon DEF Walk
  <2> QED BY <2>4, <2>5, Zenon
<1> QED BY <1>0, <1>1, <1>2

\* find_addr returns at most one symbol, whose name is known or can be read.  It
\* contains the offset, and no symbol further down the table that starts before the
\* offset does.
THEOREM HitIsTheLast ==
  ASSUME NEW m, IsTable(m.syms), NEW off \in Nat, NEW str \in BOOLEAN, NEW i \in find_addr(m, off, str)
  PROVE  /\ Hit(m.syms[i], off) /\ m.syms[i].start <= off /\ (i \in m.named \/ str)
         /\ \A k \in Below(m.syms, off) : Hit(m.syms[k], off) => k <= i
         /\ find_addr(m, off, str) = {i}
<1>1. i \in Walk(m.syms, off) /\ (i \in m.named \/ str) /\ find_addr(m, off, str) \subseteq Walk(m.syms, off)
  BY Zenon DEF find_addr
<1>2. /\ Hit(m.syms[i], off) /\ m.syms[i].start <= off /\ Walk(m.syms, off) = {i}
      /\ \A k \in Below(m.syms, off) : Hit(m.syms[k], off) => k <= i
  BY <1>1, WalkEndsAtTheLast, Zenon
<1> QED BY <1>1, <1>2, Zenon

\* Nesting to depth one is found whatever the sizes, zero and overlapping ones
\* included: when find_addr returns nothing although a symbol contains the offset
\* after which at most one other starts before the offset, then it is because the
\* walk ended at a symbol whose name no call has read and this one could not read.
THEOREM NestedOnceIsFound ==
  ASSUME NEW m, IsTable(m.syms), NEW off \in Nat, NEW str \in BOOLEAN,
         NEW k \in Below(m.syms, off), Hit(m.syms[k], off),
         ~ \E j1, j2 \in Below(m.syms, off) : k < j1 /\ j1 < j2,
         find_addr(m, off, str) = {}
  PROVE  /\ ~str
         /\ \E n \in DOMAIN m.syms : /\ Walk(m.syms, off) = {n} /\ n \notin m.named
                                     /\ Hit(m.syms[n], off) /\ m.syms[n].start <= off
<1>1. Walk(m.syms, off) # {}
  BY NestedOnceEndsTheWalk, Zenon
<1>2. PICK n : n \in Walk(m.syms, off)
  BY <1>1, Zenon
<1>3. n \in DOMAIN m.syms
  BY <1>2, Zenon DEF Walk, Below
<1>4. Walk(m.syms, off) = {n} /\ Hit(m.syms[n], off) /\ m.syms[n].start <= off
  BY <1>2, WalkEndsAtTheLast, Zenon
<1>5. ~str /\ n \notin m.named
  BY <1>2, Zenon DEF find_addr
<1> QED BY <1>3, <1>4, <1>5, Zenon

-----------------------------------------------------------------------------
\* What an image is, and that it is not Gone.
LEMMA ImageFacts ==
  ASSUME NEW t \in SymbolTables, NEW p \in Images(t)
  PROVE  IsImage(p) /\ p.exe # Gone.exe /\ p # Gone
<1>1. IsImage(p)
  BY SymbolsAssumption, Zenon
<1>2. p.exe # Gone.exe
  BY <1>1, Zenon DEF IsImage
<1> QED BY <1>1, <1>2, Zenon

\* The fields of the records, and images only.
Shape ==
  /\ table \in SymbolTables /\ proc \in Images(table) \cup {Gone}
  /\ stat = [exe |-> stat.exe, ns |-> stat.ns]
  /\ "pc" \in DOMAIN call /\ "of" \in DOMAIN cache /\ "asked" \in DOMAIN res

\* Between calls procstat_ describes the image the modules were read from.
StatOfCache ==
  call.pc \in {"idle", "search"} /\ ~skewed /\ cache.of # Gone =>
    stat.exe = cache.of.exe /\ stat.ns = cache.of.ns

\* While the modules are read again procstat_ has the root of the process that
\* was found to be another one.
StatOfAsked == call.pc \in {"load", "reset"} => stat.ns = res.asked.ns

\* Nothing has been asked when no resolve is in progress.
NotAsked == call.pc \in {"new", "load_only", "reset_only"} => res.asked = Gone

\* The property, from the answer of is_stale on.
Noticed ==
  call.pc \in {"idle", "search"} /\ ~skewed /\ res.asked # Gone /\ cache.of # Gone =>
    res.asked.exe = cache.of.exe \/ res.asked.ns = cache.of.ns

SInv == Shape /\ StatOfCache /\ StatOfAsked /\ NotAsked /\ Noticed

\* The first state.
LEMMA SInvInit == Init => SInv
<1> SUFFICES ASSUME Init PROVE SInv
  BY Zenon
<1>1. Shape
  BY Zenon DEF Init, Shape, Remember, Idle, Read, NoResult
<1>2. call.pc = "new"
  BY Zenon DEF Init, Idle
<1>3. res.asked = Gone
  BY Zenon DEF Init, NoResult
<1> QED BY <1>1, <1>2, <1>3, Zenon DEF SInv, StatOfCache, StatOfAsked, NotAsked, Noticed

\* The process changes: the cache does not.
LEMMA BecomeKeeps ==
  ASSUME SInv, NEW p \in Images(table) \cup {Gone}, Become(p)
  PROVE  SInv'
BY Zenon DEF SInv, Shape, StatOfCache, StatOfAsked, NotAsked, Noticed, Become

\* The constructor's load: not skewed only if the process is still the one that
\* was remembered.
LEMMA LoadNewKeeps == ASSUME SInv, LoadNew PROVE SInv'
<1>1. call'.pc = "idle" /\ cache'.of = proc /\ "of" \in DOMAIN cache' /\ "pc" \in DOMAIN call'
  BY Zenon DEF LoadNew, Idle, Read
<1>2. UNCHANGED <<stat, res, table, proc>> /\ call.pc = "new"
  BY Zenon DEF LoadNew, At, Same
<1>3. Shape'
  BY <1>1, <1>2, Zenon DEF SInv, Shape
<1>4. ~skewed' => stat = Remember(proc)
  BY Zenon DEF LoadNew
<1>5. StatOfCache'
  BY <1>1, <1>2, <1>4 DEF StatOfCache, Remember
<1>6. StatOfAsked' /\ NotAsked'
  BY <1>1, Zenon DEF StatOfAsked, NotAsked
<1>7. Noticed'
  BY <1>2, Zenon DEF SInv, NotAsked, Noticed
<1> QED BY <1>3, <1>5, <1>6, <1>7, Zenon DEF SInv

\* is_stale answers true for a process that differs in both, and changes what is
\* remembered only then.
LEMMA ResolveKeeps ==
  ASSUME SInv, NEW addr \in Addresses, NEW junk \in BOOLEAN, resolve_addr(addr, junk)
  PROVE  SInv'
<1> DEFINE stale == is_stale(stat, proc, junk)
<1>1. /\ call.pc = "idle" /\ UNCHANGED <<table, proc, cache, skewed>>
      /\ call'.pc = (IF stale THEN "load" ELSE "search") /\ "pc" \in DOMAIN call'
      /\ stat' = AfterStale(stat, proc)
      /\ res'.asked = proc /\ "asked" \in DOMAIN res'
  BY Zenon DEF resolve_addr, At, Same, NoResult, Idle
<1>2. /\ stat'.exe = stat.exe
      /\ stat'.ns = IF AskRoot(stat, proc) THEN proc.ns ELSE stat.ns
      /\ stat' = [exe |-> stat'.exe, ns |-> stat'.ns]
  BY <1>1, Zenon DEF SInv, Shape, AfterStale
<1>3. Shape'
  BY <1>1, <1>2, Zenon DEF SInv, Shape
<1>4. stale => AskRoot(stat, proc)
  BY Zenon DEF is_stale
<1>5. ~stale => stat'.ns = stat.ns
  BY <1>2, Zenon DEF is_stale
<1>6. proc # Gone => proc.exe # Gone.exe
  BY ImageFacts, Zenon DEF SInv, Shape
<1>7. ~stale /\ proc # Gone => proc.exe = stat.exe \/ proc.ns = stat.ns
  BY <1>6, Zenon DEF is_stale, AskRoot
<1> HIDE DEF stale
<1>8. StatOfCache'
  BY <1>1, <1>2, <1>5, Zenon DEF SInv, StatOfCache
<1>9. StatOfAsked' /\ NotAsked'
  BY <1>1, <1>2, <1>4, Zenon DEF StatOfAsked, NotAsked
<1>10. Noticed'
  BY <1>1, <1>7, Zenon DEF SInv, StatOfCache, Noticed
<1> QED BY <1>3, <1>8, <1>9, <1>10, Zenon DEF SInv

\* A refresh that was asked for begins.
LEMMA RefreshKeeps == ASSUME SInv, refresh PROVE SInv'
<1>1. call'.pc = "load_only" /\ "pc" \in DOMAIN call' /\ res'.asked = Gone /\ "asked" \in DOMAIN res'
  BY Zenon DEF refresh, Go, NoResult, SInv, Shape
<1>2. UNCHANGED <<table, proc, stat, cache>>
  BY Zenon DEF refresh, At, Same
<1> QED BY <1>1, <1>2, Zenon DEF SInv, Shape, StatOfCache, StatOfAsked, NotAsked, Noticed

\* The modules are read again.
LEMMA LoadKeeps == ASSUME SInv, Load PROVE SInv'
<1>1. /\ \/ call.pc = "load" /\ call'.pc = "reset"
         \/ call.pc = "load_only" /\ call'.pc = "reset_only"
      /\ "pc" \in DOMAIN call' /\ "of" \in DOMAIN cache'
  BY Zenon DEF Load, Go, Read, SInv, Shape
<1>2. UNCHANGED <<table, proc, stat, res>>
  BY Zenon DEF Load, Same
<1> QED BY <1>1, <1>2, Zenon DEF SInv, Shape, StatOfCache, StatOfAsked, NotAsked, Noticed

\* reset: not skewed only if modules, inode and root are of one image.
LEMMA FinishKeeps == ASSUME SInv, Finish PROVE SInv'
<1>1. /\ \/ call.pc = "reset" /\ call'.pc = "search"
         \/ call.pc = "reset_only" /\ call'.pc = "idle"
      /\ "pc" \in DOMAIN call'
  BY Zenon DEF Finish, Go, SInv, Shape
<1>2. UNCHANGED <<table, proc, cache, res>> /\ stat' = reset(stat, proc)
  BY Zenon DEF Finish, Same, Reset
<1>3. /\ stat'.ns = stat.ns /\ stat' = [exe |-> stat'.exe, ns |-> stat'.ns]
      /\ proc.exe # Gone.exe => stat'.exe = proc.exe
  BY <1>2, Zenon DEF SInv, Shape, reset
<1>4. proc # Gone => proc.exe # Gone.exe
  BY ImageFacts, Zenon DEF SInv, Shape
<1>5. ~skewed' => cache.of = proc /\ (proc # Gone => stat.ns = proc.ns)
  BY Zenon DEF Finish
<1>6. Shape'
  BY <1>1, <1>2, <1>3, Zenon DEF SInv, Shape
<1>7. StatOfCache'
  BY <1>2, <1>3, <1>4, <1>5, Zenon DEF StatOfCache
<1>8. StatOfAsked' /\ NotAsked'
  BY <1>1, Zenon DEF StatOfAsked, NotAsked
<1>9. Noticed'
  BY <1>1, <1>2, <1>5, Zenon DEF SInv, StatOfAsked, NotAsked, Noticed
<1> QED BY <1>6, <1>7, <1>8, <1>9, Zenon DEF SInv

\* A turn of the search changes neither the image nor what is remembered.
LEMMA TurnKeeps == ASSUME SInv, NEW ok \in BOOLEAN, NEW str \in BOOLEAN, Turn(ok, str) PROVE SInv'
<1>1. call.pc = "search" /\ call'.pc \in {"search", "idle"} /\ "pc" \in DOMAIN call'
  <2>1. call.pc = "search" /\ "pc" \in DOMAIN call
    BY Zenon DEF Turn, At, SInv, Shape
  <2>2. PICK saved : call' \in {Idle, [call EXCEPT !.next = @ + 1],
                               [call EXCEPT !.next = @ + 1, !.saved = saved]}
    BY Zenon DEF Turn
  <2>3. CASE call' = Idle
    BY <2>1, <2>3, Zenon DEF Idle
  <2>4. CASE call' = [call EXCEPT !.next = @ + 1]
    BY <2>1, <2>4, Zenon
  <2>5. CASE call' = [call EXCEPT !.next = @ + 1, !.saved = saved]
    BY <2>1, <2>5, Zenon
  <2> QED BY <2>2, <2>3, <2>4, <2>5, Zenon
<1>2. UNCHANGED <<table, proc, stat, skewed>>
  BY Zenon DEF Turn, At, Same
<1>3. cache'.of = cache.of /\ "of" \in DOMAIN cache'
  BY Zenon DEF Turn, SInv, Shape
<1>4. res'.asked = res.asked /\ "asked" \in DOMAIN res'
  BY Zenon DEF Turn, Try, SInv, Shape
<1> QED BY <1>1, <1>2, <1>3, <1>4, Zenon DEF SInv, Shape, StatOfCache, StatOfAsked, NotAsked, Noticed

\* Nor does its end.
LEMMA GiveUpKeeps == ASSUME SInv, GiveUp PROVE SInv'
<1>1. call.pc = "search" /\ call'.pc = "idle" /\ "pc" \in DOMAIN call'
  BY Zenon DEF GiveUp, At, Idle
<1>2. UNCHANGED <<table, proc, stat, cache, skewed>>
  BY Zenon DEF GiveUp, At, Same
<1>3. res'.asked = res.asked /\ "asked" \in DOMAIN res'
  BY Zenon DEF GiveUp, SInv, Shape
<1> QED BY <1>1, <1>2, <1>3, Zenon DEF SInv, Shape, StatOfCache, StatOfAsked, NotAsked, Noticed

\* For every set of images, tables and perf maps: a process that differs in its
\* executable and its root from the one the cache describes is noticed.
THEOREM Staleness == Spec => []NewImageIsNoticed
<1>1. SInv /\ [Next]_vars => SInv'
  <2> SUFFICES ASSUME SInv, [Next]_vars PROVE SInv'
    BY Zenon
  <2>1. CASE \E p \in Images(table) \cup {Gone} : Become(p)
    BY <2>1, BecomeKeeps, Zenon
  <2>2. CASE \E s \in PerfMaps : Emit(s)
    BY <2>2 DEF Emit, SInv, Shape, StatOfCache, StatOfAsked, NotAsked, Noticed
  <2>3. CASE LoadNew
    BY <2>3, LoadNewKeeps, Zenon
  <2>4. CASE refresh
    BY <2>4, RefreshKeeps, Zenon
  <2>5. CASE Load
    BY <2>5, LoadKeeps, Zenon
  <2>6. CASE Finish
    BY <2>6, FinishKeeps, Zenon
  <2>7. CASE \E addr \in Addresses, junk \in BOOLEAN : resolve_addr(addr, junk)
    BY <2>7, ResolveKeeps, Zenon
  <2>8. CASE \E ok, str \in BOOLEAN : Turn(ok, str)
    BY <2>8, TurnKeeps, Zenon
  <2>10. CASE GiveUp
    BY <2>10, GiveUpKeeps, Zenon
  <2>9. CASE UNCHANGED vars
    BY <2>9, Zenon DEF vars, SInv, Shape, StatOfCache, StatOfAsked, NotAsked, Noticed
  <2> QED BY <2>1, <2>2, <2>3, <2>4, <2>5, <2>6, <2>7, <2>8, <2>9, <2>10, Zenon DEF Next
<1>2. SInv => NewImageIsNoticed
  BY Zenon DEF SInv, Noticed, NewImageIsNoticed, Resolved
<1> QED BY <1>1, <1>2, SInvInit, PTL DEF Spec

-----------------------------------------------------------------------------
(* The search.                                                              *)

Names == STRING \cup {"perf", "none"}
Rec == [name : Names \ {"none"}, type : {"so", "exec", "perf"}, lo : Nat,
        hi : Nat \cup {Max(Addresses) + 1}, syms : Seq(Symbol), loaded : BOOLEAN, named : SUBSET Nat]

\* What a module in the cache has as its table: the file's, also before it is
\* loaded, or nothing; and of the perf map what it once held.
Sourced(m) ==
  IF m.type = "perf" THEN IsPrefix(m.syms, perf)
  ELSE m.syms = <<>> \/ \E f \in Range(cache.of.mods) : f.name = m.name /\ f.syms = m.syms

\* Names are those of symbols, and all are known of a table that is not lazy.
NamesKept(m) ==
  m.named \subseteq DOMAIN m.syms /\ (m.loaded /\ ~IsLazy(m) => m.named = DOMAIN m.syms)

\* The modules: sorted tables, distinct names.
Cached ==
  /\ cache = [of |-> cache.of, mods |-> cache.mods] /\ cache.mods \in Seq(Rec)
  /\ \A i \in DOMAIN cache.mods :
       IsTable(cache.mods[i].syms) /\ Sourced(cache.mods[i]) /\ NamesKept(cache.mods[i])
  /\ \A i, j \in DOMAIN cache.mods : cache.mods[i].name = cache.mods[j].name => i = j

\* The call and its result.
Calls == [pc : {"new", "idle", "load", "load_only", "reset", "reset_only", "search"},
          addr : Nat, next : Nat \ {0}, saved : Names]
Results == [addr : Nat, found : BOOLEAN, module : Names, offset : Int, start : Nat,
            asked : (UNION {Images(t) : t \in SymbolTables}) \cup {Gone}]
Asked ==
  /\ table \in SymbolTables /\ perf \in PerfMaps /\ proc \in Images(table) \cup {Gone}
  /\ call \in Calls /\ res \in Results
  /\ call.pc \in {"load", "reset"} => call.next = 1 /\ call.saved = "none"
  /\ call.pc \in {"load", "reset", "search"} => ~res.found /\ res.addr = call.addr
  /\ call.pc \in {"new", "load_only", "reset_only"} => res.asked = Gone

\* The walk over m ends without a symbol, or at one whose name is not known.
NoName(m, off) == \A k \in Walk(m.syms, off) : IsLazy(m) /\ k \notin m.named

\* The first of the modules before the n-th that is mapped at the address has no
\* symbol for it, or none with a name.
First(i) == \A j \in 1..(i - 1) : ~contains(cache.mods[j], res.addr)
Missed(n) ==
  \A i \in DOMAIN cache.mods :
    i < n /\ contains(cache.mods[i], res.addr) /\ First(i) =>
      NoName(cache.mods[i], Offset(cache.mods[i], res.addr))

\* The module and the symbol that were found.
Hits ==
  \E i \in DOMAIN cache.mods :
    LET m == cache.mods[i]
        off == Offset(m, res.addr)
    IN  /\ m.name = res.module /\ contains(m, res.addr)
        /\ \E k \in Walk(m.syms, off) \cap m.named :
             res.start = m.syms[k].start /\ res.offset = off - res.start

\* A turn: a module is passed over for a name only after one mapped at the address.
Looking ==
  call.pc = "search" =>
    /\ Missed(call.next)
    /\ call.saved # "none" =>
         \E i \in DOMAIN cache.mods : i < call.next /\ contains(cache.mods[i], res.addr)

\* The answer.
Answered ==
  Resolved => IF res.found THEN Hits ELSE Missed(Len(cache.mods) + 1)

VInv == Cached /\ Asked /\ Looking /\ Answered


\* A prefix, element by element.
LEMMA PrefixMeans ==
  ASSUME NEW S, NEW s \in Seq(S), NEW t \in Seq(S)
  PROVE  IsPrefix(s, t) <=> Len(s) <= Len(t) /\ \A i \in 1..Len(s) : s[i] = t[i]
BY Zenon DEF IsPrefix

\* A prefix of what a growing file held is one of what it holds.
LEMMA PrefixTransitive ==
  ASSUME NEW S, NEW s \in Seq(S), NEW t \in Seq(S), NEW u \in Seq(S), IsPrefix(s, t), IsPrefix(t, u)
  PROVE  IsPrefix(s, u)
<1>1. Len(s) \in Nat /\ Len(t) \in Nat /\ Len(u) \in Nat
  BY LenProperties, Zenon
<1>2. Len(s) <= Len(t) /\ \A i \in 1..Len(s) : s[i] = t[i]
  BY PrefixMeans
<1>3. Len(t) <= Len(u) /\ \A i \in 1..Len(t) : t[i] = u[i]
  BY PrefixMeans
<1>4. Len(s) <= Len(u) /\ \A i \in 1..Len(s) : s[i] = u[i]
  BY <1>1, <1>2, <1>3
<1> QED BY <1>4, PrefixMeans, Zenon

\* The empty sequence, and the sequence itself.
LEMMA PrefixTrivial ==
  ASSUME NEW S, NEW t \in Seq(S)
  PROVE  IsPrefix(<<>>, t) /\ IsPrefix(t, t)
<1>1. Len(t) \in Nat
  BY LenProperties, Zenon
<1>2. <<>> \in Seq(S) /\ Len(<<>>) = 0
  BY EmptySeq, Zenon
<1>3. IsPrefix(<<>>, t)
  <2> PICK e : e = <<>>
    BY Zenon
  <2>1. e \in Seq(S) /\ Len(e) = 0
    BY <1>2, Zenon
  <2>2. Len(e) <= Len(t) /\ \A i \in 1..Len(e) : e[i] = t[i]
    BY <1>1, <2>1
  <2>3. IsPrefix(e, t)
    BY <2>1, <2>2, PrefixMeans, Zenon
  <2> QED BY <2>3, Zenon
<1>4. IsPrefix(t, t)
  BY <1>1, PrefixMeans
<1> QED BY <1>3, <1>4, Zenon

\* An empty table is one.
LEMMA EmptyTable == IsTable(<<>>)
<1>1. <<>> \in Seq(Symbol)
  BY EmptySeq, Zenon
<1>2. DOMAIN <<>> = {}
  OBVIOUS
<1> QED BY <1>1, <1>2, Zenon DEF IsTable

\* Loading its table keeps a module what and where it is, and its table a table.
LEMMA LoadedKeeps ==
  ASSUME Asked, NEW m \in Rec, IsTable(m.syms), Sourced(m), NamesKept(m), NEW ok \in BOOLEAN
  PROVE  LET l == Loaded(m, ok)
         IN  /\ l \in Rec /\ IsTable(l.syms) /\ Sourced(l) /\ NamesKept(l) /\ l.loaded
             /\ l.name = m.name /\ l.type = m.type /\ l.lo = m.lo /\ l.hi = m.hi
<1>1. CASE m.loaded
  BY <1>1, Zenon DEF Loaded
<1>2. CASE ~m.loaded
  <2> DEFINE s == IF ~ok THEN <<>> ELSE IF m.type = "perf" THEN perf ELSE m.syms
  <2> PICK l : l = Loaded(m, ok)
    BY Zenon
  <2> DEFINE nn == IF IsLazy(m) THEN {} ELSE DOMAIN s
  <2>1. l = [m EXCEPT !.loaded = TRUE, !.syms = s, !.named = nn]
    BY <1>2, Zenon DEF Loaded
  <2>2. IsTable(perf)
    BY SymbolsAssumption, Zenon DEF Asked
  <2>3. IsTable(s)
    BY <2>2, EmptyTable, Zenon
  <2>4. s \in Seq(Symbol) /\ perf \in Seq(Symbol)
    BY <2>2, <2>3, Zenon DEF IsTable
  <2>5. IF m.type = "perf" THEN s \in {<<>>, perf} ELSE s \in {<<>>, m.syms}
    BY Zenon
  <2> HIDE DEF s
  <2>9. nn \in SUBSET Nat
    <3>1. DOMAIN s = 1..Len(s) /\ Len(s) \in Nat
      BY <2>4, LenProperties, Zenon
    <3>2. DOMAIN s \subseteq Nat
      BY ONLY <3>1
    <3> QED BY <3>2, Zenon
  <2>10. nn \subseteq DOMAIN s /\ (~IsLazy(m) => nn = DOMAIN s)
    BY Zenon
  <2> HIDE DEF nn
  <2>6. /\ l \in Rec /\ l.syms = s /\ l.named = nn /\ l.loaded
        /\ l.name = m.name /\ l.type = m.type /\ l.lo = m.lo /\ l.hi = m.hi
    BY <2>1, <2>4, <2>9, Zenon DEF Rec
  <2>11. NamesKept(l)
    BY <2>6, <2>10, Zenon DEF NamesKept, IsLazy
  <2>7. CASE m.type = "perf"
    <3>1. IsPrefix(s, perf)
      BY <2>4, <2>5, <2>7, PrefixTrivial, Zenon
    <3> QED BY <2>3, <2>6, <2>7, <2>11, <3>1, Zenon DEF Sourced
  <2>8. CASE m.type # "perf"
    <3>1. Sourced(l)
      BY <2>5, <2>6, <2>8, Zenon DEF Sourced
    <3> QED BY <2>3, <2>6, <2>11, <3>1, Zenon
  <2> QED BY <2>7, <2>8, Zenon
<1> QED BY <1>1, <1>2, Zenon

\* So does keeping the name of the symbol that was found.
LEMMA SearchedKeeps ==
  ASSUME NEW l \in Rec, IsTable(l.syms), Sourced(l), NamesKept(l), l.loaded, NEW str \in BOOLEAN,
         NEW r, r = Searched(l, str)
  PROVE  /\ r \in Rec /\ r.syms = l.syms /\ Sourced(r) /\ NamesKept(r) /\ r.loaded
         /\ r.name = l.name /\ r.type = l.type /\ r.lo = l.lo /\ r.hi = l.hi
         /\ r.named = l.named \cup Found(l, str)
<1> PICK nn : nn = l.named \cup Found(l, str)
  BY Zenon
<1>1. r = [l EXCEPT !.named = nn]
  BY Zenon DEF Searched
<1>2. Found(l, str) \subseteq DOMAIN l.syms
  BY Zenon DEF Found, find_addr, Walk, Below
<1>3. DOMAIN l.syms \subseteq Nat
  <2>1. DOMAIN l.syms = 1..Len(l.syms) /\ Len(l.syms) \in Nat
    BY LenProperties, Zenon DEF IsTable
  <2> QED BY ONLY <2>1
<1>4. nn \subseteq DOMAIN l.syms /\ (l.named = DOMAIN l.syms => nn = DOMAIN l.syms)
  BY <1>2, Zenon DEF NamesKept
<1>5. nn \in SUBSET Nat
  BY <1>3, <1>4, Zenon
<1>6. /\ r \in Rec /\ r.syms = l.syms /\ r.named = nn /\ r.loaded = l.loaded
      /\ r.name = l.name /\ r.type = l.type /\ r.lo = l.lo /\ r.hi = l.hi
  BY ONLY l \in Rec, <1>1, <1>5, Zenon DEF Rec
<1>7. Sourced(r)
  BY <1>6, Zenon DEF Sourced
<1>8. NamesKept(r)
  BY <1>4, <1>6, Zenon DEF NamesKept, IsLazy
<1> QED BY <1>6, <1>7, <1>8, Zenon


\* What load_modules reads: the modules of the process, none loaded yet, and the
\* perf map with nothing in it.
LEMMA ReadCached == ASSUME Asked, cache' = Read(proc), perf' = perf PROVE Cached'
<1>1. CASE proc = Gone
  <2>1. cache' = [of |-> proc, mods |-> <<>>]
    BY <1>1, Zenon DEF Read, load_modules
  <2>2. cache'.mods = <<>> /\ cache' = [of |-> cache'.of, mods |-> cache'.mods]
    BY <2>1
  <2>3. DOMAIN cache'.mods = {} /\ cache'.mods \in Seq(Rec)
    BY <2>2, EmptySeq
  <2> QED BY <2>2, <2>3, Zenon DEF Cached
<1>2. CASE proc # Gone
  <2> DEFINE tail == IF perf = <<>> THEN <<>> ELSE <<PerfModule>>
  <2> PICK ms : ms = proc.mods
    BY Zenon
  <2>1. cache' = [of |-> proc, mods |-> ms \o tail]
    BY <1>2, Zenon DEF Read, load_modules
  <2>2. IsImage(proc)
    BY <1>2, ImageFacts, Zenon DEF Asked
  <2>3. /\ ms \in Seq([name : STRING \ {"perf", "none"}, type : {"so", "exec"}, lo : Nat, hi : Nat,
                       syms : Seq(Symbol), loaded : {FALSE}, named : {{}}])
        /\ \A i \in DOMAIN ms : IsTable(ms[i].syms)
        /\ \A i, j \in DOMAIN ms : ms[i].name = ms[j].name => i = j
    BY <2>2, Zenon DEF IsImage
  <2>4. /\ [name : STRING \ {"perf", "none"}, type : {"so", "exec"}, lo : Nat, hi : Nat,
            syms : Seq(Symbol), loaded : {FALSE}, named : {{}}] \subseteq Rec
    BY Zenon DEF Rec, Names
  <2>5. /\ ms \in Seq(Rec) /\ Len(ms) \in Nat /\ DOMAIN ms = 1..Len(ms)
        /\ \A i \in 1..Len(ms) :
             ms[i].name # "perf" /\ ms[i].type # "perf" /\ ~ms[i].loaded /\ ms[i].named = {}
    <3> DEFINE R == [name : STRING \ {"perf", "none"}, type : {"so", "exec"}, lo : Nat, hi : Nat,
                     syms : Seq(Symbol), loaded : {FALSE}, named : {{}}]
    <3>0. \A r \in R : r.name # "perf" /\ r.type # "perf" /\ ~r.loaded /\ r.named = {}
      BY Zenon
    <3>1. ms \in Seq(R) /\ R \subseteq Rec
      BY <2>3, <2>4, Zenon
    <3> HIDE DEF R
    <3>2. ms \in Seq(Rec)
      BY <3>1, SeqMonotonic, Zenon
    <3>3. Len(ms) \in Nat /\ DOMAIN ms = 1..Len(ms)
      BY <3>1, LenProperties, Zenon
    <3>4. \A i \in 1..Len(ms) : ms[i] \in R
      BY <3>1, ElementOfSeq, Zenon
    <3> QED BY <3>0, <3>2, <3>3, <3>4, Zenon
  <2>6. /\ PerfModule \in Rec /\ PerfModule.name = "perf" /\ PerfModule.type = "perf"
        /\ PerfModule.syms = <<>> /\ ~PerfModule.loaded /\ PerfModule.named = {}
    <3>1. <<>> \in Seq(Symbol)
      BY EmptySeq, Zenon
    <3> PICK e : e = <<>>
      BY Zenon
    <3> PICK h : h = Max(Addresses) + 1
      BY Zenon
    <3>2. PerfModule = [name |-> "perf", type |-> "perf", lo |-> 0, hi |-> h, syms |-> e, loaded |-> FALSE,
                       named |-> {}]
      BY Zenon DEF PerfModule
    <3>3. e \in Seq(Symbol) /\ h \in Nat \cup {Max(Addresses) + 1}
      BY <3>1, Zenon
    <3>4. "perf" \in Names \ {"none"}
      BY Zenon DEF Names
    <3> HIDE DEF PerfModule
    <3>5. PerfModule \in Rec
      BY <3>2, <3>3, <3>4, Zenon DEF Rec
    <3> QED BY <3>2, <3>5, Zenon
  <2>7. /\ tail \in Seq(Rec) /\ Len(tail) \in {0, 1}
        /\ \A i \in 1..Len(tail) : i = 1 /\ tail[i] = PerfModule
    BY <2>6
  <2> HIDE DEF tail
  <2> PICK all : all = ms \o tail
    BY Zenon
  <2>8. /\ all \in Seq(Rec) /\ Len(all) = Len(ms) + Len(tail)
        /\ \A i \in 1..(Len(ms) + Len(tail)) :
             all[i] = IF i <= Len(ms) THEN ms[i] ELSE tail[i - Len(ms)]
    BY <2>5, <2>7, ConcatProperties
  <2>9. DOMAIN all = 1..Len(all) /\ Len(all) \in Nat
    BY <2>8, LenProperties, Zenon
  <2>10. \A i \in DOMAIN all :
           \/ i \in DOMAIN ms /\ all[i] = ms[i]
           \/ i = Len(ms) + 1 /\ all[i] = PerfModule
    BY <2>5, <2>7, <2>8, <2>9
  <2>11. /\ cache' = [of |-> cache'.of, mods |-> cache'.mods]
         /\ cache'.mods = all /\ cache'.of = proc
    BY <2>1
  <2>12. IsTable(<<>>) /\ IsPrefix(<<>>, perf)
    BY EmptyTable, PrefixTrivial, SymbolsAssumption, Zenon DEF Asked, IsTable
  <2>13. \A i \in DOMAIN all : IsTable(all[i].syms)
    BY <2>3, <2>6, <2>10, <2>12, Zenon
  <2>14. \A i \in DOMAIN ms : \E f \in Range(proc.mods) : f.name = ms[i].name /\ f.syms = ms[i].syms
    BY Zenon DEF Range
  <2>15. \A i \in DOMAIN all : Sourced(all[i])'
    <3> TAKE i \in DOMAIN all
    <3>1. CASE i \in DOMAIN ms /\ all[i] = ms[i]
      <4>1. all[i].type # "perf"
        BY <2>5, <3>1, Zenon
      <4> QED BY <2>11, <2>14, <3>1, <4>1 DEF Sourced
    <3>2. CASE all[i] = PerfModule
      BY <2>6, <2>12, <3>2, Zenon DEF Sourced
    <3> QED BY <2>10, <3>1, <3>2, Zenon
  <2>20. \A i \in DOMAIN all : NamesKept(all[i])
    BY <2>5, <2>6, <2>10, Zenon DEF NamesKept
  <2>16. \A i, j \in DOMAIN all : all[i].name = all[j].name => i = j
    <3> TAKE i, j \in DOMAIN all
    <3>1. CASE i \in DOMAIN ms /\ j \in DOMAIN ms
      BY <2>3, <2>5, <2>10, <3>1
    <3>2. CASE i \notin DOMAIN ms /\ j \notin DOMAIN ms
      BY <2>10, <3>2, Zenon
    <3>3. CASE i \in DOMAIN ms /\ j \notin DOMAIN ms
      BY <2>5, <2>6, <2>10, <3>3
    <3>4. CASE i \notin DOMAIN ms /\ j \in DOMAIN ms
      BY <2>5, <2>6, <2>10, <3>4
    <3> QED BY <3>1, <3>2, <3>3, <3>4, Zenon
  <2>17. cache'.mods \in Seq(Rec)
    BY <2>8, <2>11, Zenon
  <2>18. \A i \in DOMAIN cache'.mods :
           IsTable(cache'.mods[i].syms) /\ Sourced(cache.mods[i])' /\ NamesKept(cache'.mods[i])
    <3> TAKE i \in DOMAIN cache'.mods
    <3>1. i \in DOMAIN all /\ cache'.mods[i] = all[i]
      BY <2>11, Zenon
    <3>2. IsTable(all[i].syms) /\ Sourced(all[i])' /\ NamesKept(all[i])
      BY <2>13, <2>15, <2>20, <3>1, Zenon
    <3>3. Sourced(cache.mods[i])'
      BY <3>1, <3>2, Zenon DEF Sourced
    <3> QED BY <3>1, <3>2, <3>3, Zenon
  <2>19. \A i, j \in DOMAIN cache'.mods : cache'.mods[i].name = cache'.mods[j].name => i = j
    BY <2>11, <2>16, Zenon
  <2> QED BY <2>11, <2>17, <2>18, <2>19, Zenon DEF Cached
<1> QED BY <1>1, <1>2, Zenon


\* The result before the search.
LEMMA FreshResult ==
  ASSUME NEW addr \in Nat, NEW p \in (UNION {Images(t) : t \in SymbolTables}) \cup {Gone}
  PROVE  [addr |-> addr, found |-> FALSE, module |-> "none", offset |-> 0, start |-> 0, asked |-> p]
           \in Results
<1>1. "none" \in Names /\ 0 \in Nat /\ 0 \in Int
  BY DEF Names
<1>2. FALSE \in BOOLEAN
  BY Zenon
<1> QED BY <1>1, <1>2, Zenon DEF Results

\* Steps that leave the modules and the perf map alone.
LEMMA CachedSame == ASSUME Cached, UNCHANGED <<cache, perf>> PROVE Cached'
BY Zenon DEF Cached, Sourced

\* No module has been looked at when the search begins.
LEMMA NoneMissed == ASSUME Cached PROVE Missed(1)
<1>1. DOMAIN cache.mods = 1..Len(cache.mods) /\ Len(cache.mods) \in Nat
  BY LenProperties, Zenon DEF Cached
<1> QED BY <1>1 DEF Missed

\* The first state.
LEMMA VInvInit == Init => VInv
<1> SUFFICES ASSUME Init PROVE VInv
  BY Zenon
<1>1. cache = [of |-> Gone, mods |-> <<>>]
  BY Zenon DEF Init, Read, load_modules
<1>2. cache.mods = <<>> /\ cache = [of |-> cache.of, mods |-> cache.mods]
  BY <1>1, Zenon
<1>3. DOMAIN cache.mods = {} /\ cache.mods \in Seq(Rec)
  BY <1>2, EmptySeq
<1>4. Cached
  BY <1>2, <1>3, Zenon DEF Cached
<1>5. call.pc = "new"
  BY Zenon DEF Init, Idle
<1>6. Asked
  <2>1. call \in Calls
    BY DEF Init, Idle, Names, Calls
  <2>2. res \in Results /\ res.asked = Gone
    <3>1. 0 \in Nat /\ res = NoResult /\ Gone \in (UNION {Images(t) : t \in SymbolTables}) \cup {Gone}
      BY Zenon DEF Init
    <3>2. NoResult \in Results
      BY <3>1, FreshResult, Zenon DEF NoResult
    <3> QED BY <3>1, <3>2, Zenon DEF NoResult
  <2> QED BY <1>5, <2>1, <2>2, Zenon DEF Init, Asked
<1> QED BY <1>4, <1>5, <1>6, Zenon DEF VInv, Looking, Answered, Resolved

\* The process changes.
LEMMA VBecome ==
  ASSUME VInv, NEW p \in Images(table) \cup {Gone}, Become(p)
  PROVE  VInv'
<1>1. UNCHANGED <<table, perf, cache, call, res>> /\ proc' = p
  BY Zenon DEF Become
<1>2. Cached'
  BY <1>1, CachedSame, Zenon DEF VInv
<1>3. Asked'
  BY <1>1, Zenon DEF VInv, Asked
<1>4. Looking' /\ Answered'
  BY <1>1, Zenon DEF VInv, Looking, Answered, Missed, First, Hits, Resolved
<1> QED BY <1>2, <1>3, <1>4, Zenon DEF VInv

\* The perf map grows: what was read of it is still a prefix.
LEMMA VEmit == ASSUME VInv, NEW s \in PerfMaps, Emit(s) PROVE VInv'
<1>1. UNCHANGED <<table, proc, cache, call, res>> /\ perf' = s /\ IsPrefix(perf, s)
  BY Zenon DEF Emit
<1>2. perf \in Seq(Symbol) /\ s \in Seq(Symbol)
  BY SymbolsAssumption, Zenon DEF VInv, Asked, IsTable
<1>3. ASSUME NEW i \in DOMAIN cache.mods
      PROVE  Sourced(cache.mods[i])'
  <2>1. Sourced(cache.mods[i]) /\ cache.mods[i].syms \in Seq(Symbol)
    BY Zenon DEF VInv, Cached, IsTable
  <2>2. CASE cache.mods[i].type = "perf"
    <3>1. IsPrefix(cache.mods[i].syms, perf)
      BY <2>1, <2>2, Zenon DEF Sourced
    <3>2. IsPrefix(cache.mods[i].syms, s)
      BY <1>1, <1>2, <2>1, <3>1, PrefixTransitive, Zenon
    <3> QED BY <1>1, <2>2, <3>2, Zenon DEF Sourced
  <2>3. CASE cache.mods[i].type # "perf"
    BY <1>1, <2>1, <2>3, Zenon DEF Sourced
  <2> QED BY <2>2, <2>3, Zenon
<1>4. Cached'
  BY <1>1, <1>3, Zenon DEF VInv, Cached
<1>5. Asked'
  BY <1>1, Zenon DEF VInv, Asked
<1>6. Looking' /\ Answered'
  BY <1>1, Zenon DEF VInv, Looking, Answered, Missed, First, Hits, Resolved
<1> QED BY <1>4, <1>5, <1>6, Zenon DEF VInv

\* The constructor reads the modules.
LEMMA VLoadNew == ASSUME VInv, LoadNew PROVE VInv'
<1>1. UNCHANGED <<table, proc, perf, res>> /\ call.pc = "new" /\ call' = Idle /\ cache' = Read(proc)
  BY Zenon DEF LoadNew, At, Same
<1>2. Cached'
  BY <1>1, ReadCached, Zenon DEF VInv
<1>3. Asked' /\ call'.pc = "idle"
  <2>1. call' \in Calls /\ call'.pc = "idle"
    BY <1>1 DEF Idle, Names, Calls
  <2> QED BY <1>1, <2>1, Zenon DEF VInv, Asked
<1>4. res'.asked = Gone
  BY <1>1, Zenon DEF VInv, Asked
<1> QED BY <1>2, <1>3, <1>4, Zenon DEF VInv, Looking, Answered, Resolved, NoResult

\* A call begins: no module has been looked at.
LEMMA VResolve ==
  ASSUME VInv, NEW addr \in Addresses, NEW junk \in BOOLEAN, resolve_addr(addr, junk)
  PROVE  VInv'
<1>1. /\ UNCHANGED <<table, proc, perf, cache>>
      /\ call' = [pc |-> call'.pc, addr |-> addr, next |-> 1, saved |-> "none"]
      /\ call'.pc \in {"load", "search"}
  BY Zenon DEF resolve_addr, At, Same, Idle
<1>2. res' = [addr |-> addr, found |-> FALSE, module |-> "none", offset |-> 0, start |-> 0, asked |-> proc]
  BY Zenon DEF resolve_addr, NoResult
<1>3. Cached'
  BY <1>1, CachedSame, Zenon DEF VInv
<1>4. addr \in Nat
  BY SymbolsAssumption, Zenon
<1>5. proc \in (UNION {Images(t) : t \in SymbolTables}) \cup {Gone}
  BY Zenon DEF VInv, Asked
<1>6. Asked'
  <2>1. res' \in Results /\ ~res'.found /\ res'.addr = addr
    BY <1>2, <1>4, <1>5, FreshResult, Zenon
  <2>2. call' \in Calls /\ call'.addr = addr /\ call'.next = 1 /\ call'.saved = "none"
    BY <1>1, <1>4 DEF Calls, Names
  <2> QED BY <1>1, <2>1, <2>2, Zenon DEF VInv, Asked
<1>7. Missed(1)'
  BY <1>3, NoneMissed, PTL
<1>8. Looking'
  BY <1>1, <1>7 DEF Looking
<1>9. Answered'
  BY <1>1, Zenon DEF Answered, Resolved
<1> QED BY <1>3, <1>6, <1>8, <1>9, Zenon DEF VInv

\* A refresh that was asked for begins.
LEMMA VRefresh == ASSUME VInv, refresh PROVE VInv'
<1>1. UNCHANGED <<table, proc, perf, cache>> /\ call' = [call EXCEPT !.pc = "load_only"] /\ res' = NoResult
  BY Zenon DEF refresh, At, Same, Go
<1>2. Cached'
  BY <1>1, CachedSame, Zenon DEF VInv
<1>3. Asked' /\ call'.pc = "load_only"
  <2>1. res' \in Results /\ res'.asked = Gone
    <3>1. 0 \in Nat /\ Gone \in (UNION {Images(t) : t \in SymbolTables}) \cup {Gone}
      BY Zenon
    <3>2. NoResult \in Results
      BY <3>1, FreshResult, Zenon DEF NoResult
    <3> QED BY <1>1, <3>2, Zenon DEF NoResult
  <2>2. call' \in Calls /\ call'.pc = "load_only"
    BY <1>1, Zenon DEF VInv, Asked, Calls
  <2> QED BY <1>1, <2>1, <2>2, Zenon DEF VInv, Asked
<1> QED BY <1>2, <1>3, Zenon DEF VInv, Looking, Answered, Resolved

\* The modules are read again, before the search has begun.
LEMMA VLoad == ASSUME VInv, Load PROVE VInv'
<1>1. /\ UNCHANGED <<table, proc, perf, res>> /\ cache' = Read(proc) /\ call.pc \in {"load", "load_only"}
      /\ call' = [call EXCEPT !.pc = IF call.pc = "load" THEN "reset" ELSE "reset_only"]
  BY Zenon DEF Load, Same, Go
<1>2. Cached'
  BY <1>1, ReadCached, Zenon DEF VInv
<1>3. Asked' /\ call'.pc \in {"reset", "reset_only"}
  BY <1>1, Zenon DEF VInv, Asked, Calls
<1> QED BY <1>2, <1>3, Zenon DEF VInv, Looking, Answered, Resolved

\* procstat_ is brought up to date, and the search begins.
LEMMA VFinish == ASSUME VInv, Finish PROVE VInv'
<1>1. /\ UNCHANGED <<table, proc, perf, cache, res>> /\ call.pc \in {"reset", "reset_only"}
      /\ call' = [call EXCEPT !.pc = IF call.pc = "reset" THEN "search" ELSE "idle"]
  BY Zenon DEF Finish, Same, Go
<1>2. Cached'
  BY <1>1, CachedSame, Zenon DEF VInv
<1>3. Asked'
  BY <1>1, Zenon DEF VInv, Asked, Calls
<1>4. \/ call.pc = "reset" /\ call'.pc = "search" /\ call'.next = 1 /\ call'.saved = "none"
      \/ call'.pc = "idle" /\ res'.asked = Gone
  BY <1>1, Zenon DEF VInv, Asked, Calls
<1>5. Missed(1)'
  BY <1>2, NoneMissed, PTL
<1>6. Looking' /\ Answered'
  BY <1>4, <1>5, Zenon DEF Looking, Answered, Resolved, NoResult
<1> QED BY <1>2, <1>3, <1>6, Zenon DEF VInv

\* Every module has been looked at.
LEMMA VGiveUp == ASSUME VInv, GiveUp PROVE VInv'
<1>1. /\ UNCHANGED <<table, proc, perf, cache>> /\ call' = Idle
      /\ call.pc = "search" /\ call.next > Len(cache.mods)
      /\ res' = [res EXCEPT !.module = IF call.saved # "none" THEN call.saved ELSE @]
  BY Zenon DEF GiveUp, At, Same
<1>2. Cached'
  BY <1>1, CachedSame, Zenon DEF VInv
<1>3. Asked' /\ call'.pc = "idle" /\ ~res'.found /\ res'.addr = res.addr
  <2>1. call' \in Calls /\ call'.pc = "idle"
    BY <1>1 DEF Idle, Names, Calls
  <2>2. res \in Results /\ call.saved \in Names /\ ~res.found
    BY <1>1, Zenon DEF VInv, Asked, Calls
  <2>3. PICK n \in Names : res' = [res EXCEPT !.module = n]
    BY <1>1, <2>2, Zenon DEF Results
  <2>4. res' \in Results /\ res'.found = res.found /\ res'.addr = res.addr
    BY <2>2, <2>3, Zenon DEF Results
  <2> QED BY <1>1, <2>1, <2>2, <2>4, Zenon DEF VInv, Asked
<1>4. DOMAIN cache.mods = 1..Len(cache.mods) /\ Len(cache.mods) \in Nat /\ call.next \in Nat
  BY LenProperties, Zenon DEF VInv, Cached, Asked, Calls
<1>5. Missed(call.next)
  BY <1>1, Zenon DEF VInv, Looking
<1>6. Missed(Len(cache.mods) + 1)
  <2>1. \A i \in DOMAIN cache.mods : i < call.next
    BY <1>1, <1>4
  <2> QED BY <1>5, <2>1, Zenon DEF Missed
<1>7. Missed(Len(cache.mods) + 1)'
  BY <1>1, <1>3, <1>6, Zenon DEF Missed, First
<1> QED BY <1>2, <1>3, <1>7, Zenon DEF VInv, Looking, Answered


\* The module at hand, in a turn.
LEMMA TurnFacts ==
  ASSUME VInv, NEW ok \in BOOLEAN, NEW str \in BOOLEAN, Turn(ok, str)
  PROVE  /\ call.next \in 1..Len(cache.mods) /\ DOMAIN cache.mods = 1..Len(cache.mods)
         /\ Len(cache.mods) \in Nat /\ cache.mods[call.next] \in Rec
         /\ IsTable(cache.mods[call.next].syms) /\ Sourced(cache.mods[call.next])
         /\ NamesKept(cache.mods[call.next])
         /\ call.pc = "search" /\ UNCHANGED <<table, proc, perf, stat>>
         /\ call \in Calls /\ res \in Results /\ ~res.found /\ res.addr = call.addr
<1>1. call.pc = "search" /\ UNCHANGED <<table, proc, perf, stat>> /\ call.next <= Len(cache.mods)
  BY Zenon DEF Turn, At, Same
<1>2. call \in Calls /\ res \in Results /\ ~res.found /\ res.addr = call.addr
  BY <1>1, Zenon DEF VInv, Asked
<1>3. DOMAIN cache.mods = 1..Len(cache.mods) /\ Len(cache.mods) \in Nat
  BY LenProperties, Zenon DEF VInv, Cached
<1>4. call.next \in 1..Len(cache.mods)
  BY <1>1, <1>2, <1>3 DEF Calls
<1>5. cache.mods[call.next] \in Rec
  BY <1>4, ElementOfSeq, Zenon DEF VInv, Cached
<1>6. /\ IsTable(cache.mods[call.next].syms) /\ Sourced(cache.mods[call.next])
      /\ NamesKept(cache.mods[call.next])
  BY <1>3, <1>4, Zenon DEF VInv, Cached
<1> QED BY <1>1, <1>2, <1>3, <1>4, <1>5, <1>6, Zenon

\* A module is passed over: it is not mapped at the address, or not the first.
LEMMA VSkip ==
  ASSUME VInv, NEW ok \in BOOLEAN, NEW str \in BOOLEAN, Turn(ok, str), Skips(cache.mods[call.next]),
         call' = [call EXCEPT !.next = @ + 1], UNCHANGED <<cache, res>>
  PROVE  VInv'
<1>0. /\ call.next \in 1..Len(cache.mods) /\ DOMAIN cache.mods = 1..Len(cache.mods)
      /\ Len(cache.mods) \in Nat /\ call.pc = "search" /\ UNCHANGED <<table, proc, perf>>
      /\ call \in Calls /\ res \in Results /\ ~res.found /\ res.addr = call.addr
  BY TurnFacts, Zenon
<1>1. Cached'
  BY <1>0, CachedSame, Zenon DEF VInv
<1>2. /\ call' \in Calls /\ call'.pc = "search" /\ call'.next = call.next + 1
      /\ call'.saved = call.saved /\ call'.addr = call.addr
  BY <1>0 DEF Calls
<1>3. Asked'
  BY <1>0, <1>2, Zenon DEF VInv, Asked
<1>4. Missed(call.next) /\ (call.saved # "none" =>
        \E i \in DOMAIN cache.mods : i < call.next /\ contains(cache.mods[i], res.addr))
  BY <1>0, Zenon DEF VInv, Looking
<1>5. ~(contains(cache.mods[call.next], res.addr) /\ First(call.next))
  <2> SUFFICES ASSUME contains(cache.mods[call.next], res.addr), First(call.next) PROVE FALSE
    BY Zenon
  <2>1. call.saved # "none"
    BY <1>0, Zenon DEF Skips
  <2>2. PICK i \in DOMAIN cache.mods : i < call.next /\ contains(cache.mods[i], res.addr)
    BY <1>4, <2>1, Zenon
  <2>3. i \in 1..(call.next - 1)
    BY <1>0, <2>2
  <2> QED BY <2>2, <2>3, Zenon DEF First
<1>6. Missed(call.next + 1)
  <2>1. \A i \in DOMAIN cache.mods : i < call.next + 1 => i < call.next \/ i = call.next
    BY <1>0
  <2> QED BY <1>4, <1>5, <2>1, Zenon DEF Missed
<1>8. Looking'
  <2>1. (Missed(call.next))'
    <3> PICK n : n = call.next + 1
      BY Zenon
    <3>1. Missed(n)'
      BY <1>6, Zenon DEF Missed, First
    <3> QED BY <1>2, <3>1, Zenon DEF Missed
  <2>2. call.saved # "none" =>
          \E i \in DOMAIN cache.mods : i < call.next + 1 /\ contains(cache.mods[i], res.addr)
    <3>1. \A i \in DOMAIN cache.mods : i < call.next => i < call.next + 1
      BY <1>0
    <3> QED BY <1>4, <3>1, Zenon
  <2> QED BY <1>2, <2>1, <2>2, Zenon DEF Looking
<1> QED BY <1>1, <1>2, <1>3, <1>8, Zenon DEF VInv, Answered, Resolved

\* A module is searched: its table is loaded, the name that was found is kept, and it
\* stays what and where it is.
LEMMA VLoaded ==
  ASSUME VInv, NEW ok \in BOOLEAN, NEW str \in BOOLEAN, Turn(ok, str),
         NEW l, l = Searched(Loaded(cache.mods[call.next], ok), str),
         cache' = [cache EXCEPT !.mods[call.next] = l]
  PROVE  /\ Cached' /\ DOMAIN cache'.mods = DOMAIN cache.mods
         /\ cache'.mods[call.next] = l
         /\ \A i \in DOMAIN cache.mods : i # call.next => cache'.mods[i] = cache.mods[i]
         /\ \A i \in DOMAIN cache.mods : \A a : contains(cache'.mods[i], a) <=> contains(cache.mods[i], a)
<1> PICK n : n = call.next
  BY Zenon
<1> PICK ms : ms = cache.mods
  BY Zenon
<1>0. /\ n \in 1..Len(ms) /\ DOMAIN ms = 1..Len(ms) /\ Len(ms) \in Nat /\ ms[n] \in Rec
      /\ IsTable(ms[n].syms) /\ Sourced(ms[n]) /\ NamesKept(ms[n]) /\ perf' = perf
  BY TurnFacts, Zenon
<1>1. /\ l \in Rec /\ IsTable(l.syms) /\ Sourced(l) /\ NamesKept(l)
      /\ l.name = ms[n].name /\ l.type = ms[n].type /\ l.lo = ms[n].lo /\ l.hi = ms[n].hi
  <2> PICK t : t = Loaded(ms[n], ok)
    BY Zenon
  <2>1. /\ t \in Rec /\ IsTable(t.syms) /\ Sourced(t) /\ NamesKept(t) /\ t.loaded
        /\ t.name = ms[n].name /\ t.type = ms[n].type /\ t.lo = ms[n].lo /\ t.hi = ms[n].hi
    BY <1>0, LoadedKeeps, Zenon DEF VInv
  <2>2. l = Searched(t, str)
    BY Zenon
  <2>3. /\ l \in Rec /\ l.syms = t.syms /\ Sourced(l) /\ NamesKept(l)
        /\ l.name = t.name /\ l.type = t.type /\ l.lo = t.lo /\ l.hi = t.hi
    BY ONLY <2>1, <2>2, str \in BOOLEAN, SearchedKeeps, Zenon
  <2> QED BY ONLY <2>1, <2>3, Zenon
<1>2. /\ ms \in Seq(Rec) /\ \A i \in DOMAIN ms : IsTable(ms[i].syms) /\ Sourced(ms[i]) /\ NamesKept(ms[i])
      /\ \A i, j \in DOMAIN ms : ms[i].name = ms[j].name => i = j
      /\ cache = [of |-> cache.of, mods |-> ms]
  BY Zenon DEF VInv, Cached
<1> PICK new : new = [ms EXCEPT ![n] = l]
  BY Zenon
<1>3. cache' = [of |-> cache.of, mods |-> new]
  BY <1>2, Zenon
<1>4. cache'.mods = new /\ cache'.of = cache.of /\ cache' = [of |-> cache'.of, mods |-> cache'.mods]
  BY <1>3, Zenon
<1>5. /\ new \in Seq(Rec) /\ Len(new) = Len(ms)
      /\ \A j \in 1..Len(ms) : new[j] = IF j = n THEN l ELSE ms[j]
  BY <1>0, <1>1, <1>2, ExceptSeq
<1>6. DOMAIN new = DOMAIN ms
  BY <1>0, <1>5, LenProperties, Zenon
<1>7. \A i \in DOMAIN ms : /\ IsTable(new[i].syms) /\ Sourced(new[i]) /\ NamesKept(new[i])
                           /\ new[i].name = ms[i].name
                           /\ new[i].lo = ms[i].lo /\ new[i].hi = ms[i].hi
  BY <1>0, <1>1, <1>2, <1>5, Zenon
<1>8. \A i \in DOMAIN ms : Sourced(cache.mods[i])'
  BY ONLY <1>0, <1>4, <1>7 DEF Sourced
<1>9. Cached'
  BY <1>2, <1>4, <1>5, <1>6, <1>7, <1>8 DEF Cached
<1>10. \A i \in DOMAIN ms : \A a : contains(new[i], a) <=> contains(ms[i], a)
  BY <1>7, Zenon DEF contains
<1> QED BY <1>0, <1>4, <1>5, <1>6, <1>9, <1>10, Zenon


\* Where the address lies in a module mapped at it.
LEMMA OffsetType ==
  ASSUME NEW m \in Rec, NEW a \in Nat, contains(m, a)
  PROVE  Offset(m, a) \in Nat
<1>1. m.lo \in Nat /\ m.lo <= a
  BY Zenon DEF Rec, contains
<1> QED BY <1>1 DEF Offset

\* A module that is searched is mapped at the address.
LEMMA LoadedFacts ==
  ASSUME VInv, NEW ok \in BOOLEAN, NEW str \in BOOLEAN, Turn(ok, str),
         NEW m, m = cache.mods[call.next], ~Skips(m), NEW l, l = Loaded(m, ok)
  PROVE  /\ l \in Rec /\ IsTable(l.syms) /\ Sourced(l) /\ NamesKept(l) /\ l.loaded
         /\ res.addr \in Nat /\ contains(l, res.addr)
         /\ Offset(l, res.addr) \in Nat /\ l.name \in Names
         /\ Found(l, str) = find_addr(l, Offset(l, res.addr), str)
<1>1. /\ m \in Rec /\ IsTable(m.syms) /\ Sourced(m) /\ NamesKept(m)
      /\ res \in Results /\ res.addr = call.addr
  BY TurnFacts, Zenon
<1>2. /\ l \in Rec /\ IsTable(l.syms) /\ Sourced(l) /\ NamesKept(l) /\ l.loaded
      /\ l.lo = m.lo /\ l.hi = m.hi
  BY <1>1, LoadedKeeps, Zenon DEF VInv
<1>3. res.addr \in Nat /\ contains(m, res.addr)
  BY <1>1, Zenon DEF Skips, Results
<1>4. contains(l, res.addr)
  BY ONLY <1>2, <1>3, Zenon DEF contains
<1>5. Offset(l, res.addr) \in Nat
  BY ONLY <1>2, <1>3, <1>4, OffsetType, Zenon
<1>6. l.name \in Names
  BY ONLY <1>2, Zenon DEF Rec
<1>7. Found(l, str) = find_addr(l, Offset(l, res.addr), str)
  BY ONLY <1>1, Zenon DEF Found
<1> QED BY ONLY <1>2, <1>3, <1>4, <1>5, <1>6, <1>7, Zenon

\* What the search finds is one symbol of the table.
LEMMA FoundSymbol ==
  ASSUME NEW l, IsTable(l.syms), NEW off \in Nat, NEW str \in BOOLEAN, NEW k \in find_addr(l, off, str)
  PROVE  /\ find_addr(l, off, str) = {k} /\ Min({k}) = k /\ k \in Walk(l.syms, off)
         /\ l.syms[k].start \in Nat /\ off - l.syms[k].start \in Int
<1> PICK syms : syms = l.syms
  BY Zenon
<1>1. find_addr(l, off, str) = {k}
  BY HitIsTheLast, Zenon
<1>9. k \in Walk(syms, off)
  BY Zenon DEF find_addr
<1>2. k \in DOMAIN syms
  BY <1>9, Zenon DEF Walk, Below
<1>3. syms \in Seq(Symbol)
  BY Zenon DEF IsTable
<1>4. DOMAIN syms = 1..Len(syms) /\ Len(syms) \in Nat
  BY <1>3, LenProperties, Zenon
<1>5. syms[k] \in Symbol
  BY <1>2, <1>3, <1>4, ElementOfSeq, Zenon
<1>6. syms[k].start \in Nat
  BY <1>5, Zenon DEF Symbol
<1>7. k \in Int
  BY <1>2, <1>4
<1>8. Min({k}) = k
  BY ONLY <1>7 DEF Min
<1>10. off - syms[k].start \in Int
  BY ONLY off \in Nat, <1>6
<1> QED BY <1>1, <1>6, <1>8, <1>9, <1>10, Zenon

\* The result of a search that finds a symbol.
LEMMA HitResult ==
  ASSUME res \in Results, NEW l, NEW str, NEW k, NEW off,
         Found(l, str) = {k}, Min({k}) = k, off = Offset(l, res.addr), res.addr = call.addr,
         l.name \in Names, l.syms[k].start \in Nat, off - l.syms[k].start \in Int, res' = Try(l, str)
  PROVE  /\ res' \in Results /\ res'.found /\ res'.addr = res.addr /\ res'.module = l.name
         /\ res'.start = l.syms[k].start /\ res'.offset = off - l.syms[k].start
<1>1. PICK st, o : st = l.syms[k].start /\ o = off - st
  BY Zenon
<1>2. Found(l, str) # {}
  BY Zenon
<1>3. res' = [res EXCEPT !.found = TRUE, !.module = l.name, !.start = st, !.offset = o]
  BY <1>1, <1>2, Zenon DEF Try
<1>4. st \in Nat /\ o \in Int /\ TRUE \in BOOLEAN
  BY <1>1, Zenon
<1>5. /\ res' \in Results /\ res'.found /\ res'.addr = res.addr /\ res'.module = l.name
      /\ res'.start = st /\ res'.offset = o
  BY ONLY res \in Results, l.name \in Names, <1>3, <1>4, Zenon DEF Results
<1> QED BY <1>1, <1>5, Zenon

\* The symbol is found.
LEMMA VHit ==
  ASSUME VInv, NEW ok \in BOOLEAN, NEW str \in BOOLEAN, Turn(ok, str),
         NEW m, m = cache.mods[call.next], ~Skips(m), NEW l, l = Loaded(m, ok), Found(l, str) # {},
         NEW r, r = Searched(l, str), Cached', DOMAIN cache'.mods = DOMAIN cache.mods,
         cache'.mods[call.next] = r, res' = Try(l, str), call' = Idle
  PROVE  VInv'
<1>0. /\ call.next \in DOMAIN cache.mods /\ UNCHANGED <<table, proc, perf>>
      /\ res \in Results /\ res.addr = call.addr
  BY TurnFacts, Zenon
<1>1. PICK off : off = Offset(l, res.addr)
  BY Zenon
<1>2. /\ IsTable(l.syms) /\ off \in Nat /\ contains(l, res.addr) /\ l.name \in Names
      /\ Found(l, str) = find_addr(l, off, str)
  BY <1>1, LoadedFacts, Zenon
<1>10. /\ r.syms = l.syms /\ r.name = l.name /\ r.type = l.type /\ r.lo = l.lo /\ r.hi = l.hi
       /\ r.named = l.named \cup Found(l, str)
  <2>1. l \in Rec /\ IsTable(l.syms) /\ Sourced(l) /\ NamesKept(l) /\ l.loaded
    BY LoadedFacts, Zenon
  <2> QED BY ONLY <2>1, r = Searched(l, str), str \in BOOLEAN, SearchedKeeps
<1>3. PICK k : k \in find_addr(l, off, str)
  BY <1>2, Zenon
<1>4. /\ find_addr(l, off, str) = {k} /\ Min({k}) = k /\ k \in Walk(l.syms, off)
      /\ l.syms[k].start \in Nat /\ off - l.syms[k].start \in Int
  BY ONLY <1>2, <1>3, str \in BOOLEAN, FoundSymbol, Zenon
<1>5. /\ res' \in Results /\ res'.found /\ res'.addr = res.addr /\ res'.module = l.name
      /\ res'.start = l.syms[k].start /\ res'.offset = off - l.syms[k].start
  BY ONLY <1>0, <1>1, <1>2, <1>4, res' = Try(l, str), HitResult
<1>6. call' \in Calls /\ call'.pc = "idle"
  BY ONLY call' = Idle DEF Idle, Calls, Names
<1>7. Asked'
  BY ONLY VInv, <1>0, <1>5, <1>6, Zenon DEF VInv, Asked
<1>8. Hits'
  <2>1. PICK n : n = call.next /\ n \in DOMAIN cache'.mods /\ cache'.mods[n] = r
    BY ONLY <1>0, DOMAIN cache'.mods = DOMAIN cache.mods, cache'.mods[call.next] = r, Zenon
  <2>4. contains(r, res.addr) /\ Offset(r, res.addr) = off
    BY ONLY <1>1, <1>2, <1>10, Zenon DEF contains, Offset
  <2>2. /\ cache'.mods[n].name = res'.module /\ contains(cache'.mods[n], res'.addr)
        /\ Offset(cache'.mods[n], res'.addr) = off
    BY ONLY <1>5, <1>10, <2>1, <2>4, Zenon
  <2>3. /\ k \in Walk(cache'.mods[n].syms, off) \cap cache'.mods[n].named
        /\ res'.start = cache'.mods[n].syms[k].start /\ res'.offset = off - res'.start
    BY ONLY <1>2, <1>3, <1>4, <1>5, <1>10, <2>1, Zenon
  <2> QED BY ONLY <2>1, <2>2, <2>3, Zenon DEF Hits
<1>9. Looking' /\ Answered'
  BY ONLY <1>5, <1>6, <1>8, Zenon DEF Looking, Answered
<1> QED BY ONLY Cached', <1>7, <1>9, Zenon DEF VInv

\* A module with no symbol for the address joins those the search is past.
LEMMA MissedOn ==
  ASSUME NEW n \in 1..Len(cache.mods), Len(cache.mods) \in Nat,
         DOMAIN cache.mods = 1..Len(cache.mods), DOMAIN cache'.mods = DOMAIN cache.mods,
         \A i \in DOMAIN cache.mods : i # n => cache'.mods[i] = cache.mods[i],
         \A i \in DOMAIN cache.mods : \A b : contains(cache'.mods[i], b) <=> contains(cache.mods[i], b),
         res'.addr = res.addr, Missed(n), call'.next = n + 1,
         NoName(cache'.mods[n], Offset(cache'.mods[n], res.addr))
  PROVE  Missed(call.next)'
<1>1. \A i \in DOMAIN cache.mods : i < n + 1 /\ i # n => i < n
  OBVIOUS
<1>2. \A i \in DOMAIN cache.mods : \A j \in 1..(i - 1) : j \in DOMAIN cache.mods
  OBVIOUS
<1>3. \A i \in DOMAIN cache.mods : First(i)' <=> First(i)
  BY <1>2, Zenon DEF First
<1>4. ASSUME NEW i \in DOMAIN cache.mods, i < n + 1, i # n,
             contains(cache'.mods[i], res.addr), First(i)'
      PROVE  NoName(cache'.mods[i], Offset(cache'.mods[i], res.addr))
  <2>1. i < n
    BY <1>1, <1>4, Zenon
  <2>2. cache'.mods[i] = cache.mods[i] /\ First(i)
    BY <1>3, <1>4, Zenon
  <2> QED BY <1>4, <2>1, <2>2, Zenon DEF Missed
<1> QED BY <1>4, Zenon DEF Missed

\* The module has no symbol for the address.
LEMMA VMiss ==
  ASSUME VInv, NEW ok \in BOOLEAN, NEW str \in BOOLEAN, Turn(ok, str),
         NEW m, m = cache.mods[call.next], ~Skips(m), NEW l, l = Loaded(m, ok), Found(l, str) = {},
         NEW r, r = Searched(l, str), Cached', DOMAIN cache'.mods = DOMAIN cache.mods,
         cache'.mods[call.next] = r,
         \A i \in DOMAIN cache.mods : i # call.next => cache'.mods[i] = cache.mods[i],
         \A i \in DOMAIN cache.mods : \A b : contains(cache'.mods[i], b) <=> contains(cache.mods[i], b),
         res' = Try(l, str), call' \in Calls, call'.pc = "search", call'.next = call.next + 1,
         call'.addr = call.addr
  PROVE  VInv'
<1>0. /\ call.next \in 1..Len(cache.mods) /\ DOMAIN cache.mods = 1..Len(cache.mods)
      /\ Len(cache.mods) \in Nat /\ call.pc = "search" /\ UNCHANGED <<table, proc, perf>>
      /\ res \in Results /\ ~res.found /\ res.addr = call.addr
  BY TurnFacts, Zenon
<1>1. PICK off : off = Offset(l, res.addr)
  BY Zenon
<1>2. /\ l \in Rec /\ IsTable(l.syms) /\ Sourced(l) /\ NamesKept(l) /\ l.loaded
      /\ off \in Nat /\ contains(l, res.addr) /\ l.name \in Names /\ find_addr(l, off, str) = {}
  BY <1>1, LoadedFacts, Zenon
<1>9. /\ r.syms = l.syms /\ r.type = l.type /\ r.lo = l.lo /\ r.hi = l.hi
      /\ r.named = l.named \cup Found(l, str)
  BY ONLY <1>2, r = Searched(l, str), str \in BOOLEAN, SearchedKeeps
<1>10. contains(r, res.addr) /\ Offset(r, res.addr) = off
  BY ONLY <1>1, <1>2, <1>9, Zenon DEF contains, Offset
<1>11. NoName(r, off)
  <2>1. ASSUME NEW k \in Walk(l.syms, off) PROVE k \notin l.named /\ IsLazy(l)
    <3>1. k \in DOMAIN l.syms
      BY <2>1, Zenon DEF Walk, Below
    <3>2. k \notin l.named
      BY <1>2, <2>1, Zenon DEF find_addr
    <3> QED BY <1>2, <3>1, <3>2, Zenon DEF NamesKept
  <2>2. r.named = l.named /\ (IsLazy(l) => IsLazy(r))
    BY ONLY <1>9, Found(l, str) = {}, Zenon DEF IsLazy
  <2> QED BY ONLY <1>9, <2>1, <2>2, Zenon DEF NoName
<1>3. /\ res' \in Results /\ res'.addr = res.addr /\ res'.found = res.found /\ res'.asked = res.asked
  <2>1. res' = [res EXCEPT !.module = l.name, !.offset = off]
    BY ONLY <1>0, <1>1, res' = Try(l, str), Found(l, str) = {}, Zenon DEF Try
  <2>2. off \in Int
    BY ONLY <1>2
  <2> QED BY ONLY <1>0, <1>2, <2>1, <2>2, Zenon DEF Results
<1>4. Asked'
  BY ONLY VInv, <1>0, <1>3, call' \in Calls, call'.pc = "search", call'.addr = call.addr, Zenon
     DEF VInv, Asked
<1>5. Missed(call.next)
  BY ONLY VInv, <1>0, Zenon DEF VInv, Looking
<1>6. (Missed(call.next))'
  <2>1. NoName(cache'.mods[call.next], Offset(cache'.mods[call.next], res.addr))
    BY ONLY <1>10, <1>11, cache'.mods[call.next] = r, Zenon
  <2> QED BY <1>0, <1>3, <1>5, <2>1, MissedOn, Zenon
<1>7. Looking'
  <2>1. call.next < call'.next
    BY ONLY <1>0, call'.next = call.next + 1
  <2>2. call.next \in DOMAIN cache'.mods /\ contains(cache'.mods[call.next], res'.addr)
    BY ONLY <1>0, <1>3, <1>10, DOMAIN cache'.mods = DOMAIN cache.mods, cache'.mods[call.next] = r, Zenon
  <2> QED BY ONLY <1>6, <2>1, <2>2, Zenon DEF Looking
<1>8. Answered'
  BY ONLY call'.pc = "search", Zenon DEF Answered, Resolved
<1> QED BY ONLY Cached', <1>4, <1>7, <1>8, Zenon DEF VInv

\* The call after a module without the symbol.
LEMMA CallGoesOn ==
  ASSUME VInv, NEW ok \in BOOLEAN, NEW str \in BOOLEAN, Turn(ok, str), NEW m, m = cache.mods[call.next],
         call' = [call EXCEPT !.next = @ + 1, !.saved = IF m.type = "perf" THEN @ ELSE m.name]
  PROVE  /\ call' \in Calls /\ call'.pc = "search" /\ call'.next = call.next + 1
         /\ call'.addr = call.addr
<1>1. m \in Rec /\ call \in Calls /\ call.pc = "search"
  BY TurnFacts, Zenon
<1>2. m.name \in Names /\ call.saved \in Names
  BY <1>1, Zenon DEF Calls, Rec
<1>3. PICK s \in Names : call' = [call EXCEPT !.next = call.next + 1, !.saved = s]
  BY <1>2, Zenon
<1>4. call.next + 1 \in Nat \ {0}
  BY <1>1 DEF Calls
<1> QED BY <1>1, <1>3, <1>4, Zenon DEF Calls

\* A turn of the search.
LEMMA VTurn == ASSUME VInv, NEW ok \in BOOLEAN, NEW str \in BOOLEAN, Turn(ok, str) PROVE VInv'
<1> PICK m : m = cache.mods[call.next]
  BY Zenon
<1> PICK l : l = Loaded(m, ok)
  BY Zenon
<1> PICK r : r = Searched(l, str)
  BY Zenon
<1>1. CASE Skips(m) /\ call' = [call EXCEPT !.next = @ + 1] /\ UNCHANGED <<cache, res>>
  BY <1>1, VSkip, Zenon
<1>2. CASE /\ ~Skips(m) /\ cache' = [cache EXCEPT !.mods[call.next] = r] /\ res' = Try(l, str)
           /\ Found(l, str) # {} /\ call' = Idle
  <2>1. Cached' /\ DOMAIN cache'.mods = DOMAIN cache.mods /\ cache'.mods[call.next] = r
    BY <1>2, VLoaded, Zenon
  <2> QED BY <1>2, <2>1, VHit, Zenon
<1>3. CASE /\ ~Skips(m) /\ cache' = [cache EXCEPT !.mods[call.next] = r] /\ res' = Try(l, str)
           /\ Found(l, str) = {}
           /\ call' = [call EXCEPT !.next = @ + 1, !.saved = IF m.type = "perf" THEN @ ELSE m.name]
  <2>1. /\ Cached' /\ DOMAIN cache'.mods = DOMAIN cache.mods /\ cache'.mods[call.next] = r
        /\ \A i \in DOMAIN cache.mods : i # call.next => cache'.mods[i] = cache.mods[i]
        /\ \A i \in DOMAIN cache.mods : \A b : contains(cache'.mods[i], b) <=> contains(cache.mods[i], b)
    BY <1>3, VLoaded, Zenon
  <2>2. /\ call' \in Calls /\ call'.pc = "search" /\ call'.next = call.next + 1
        /\ call'.addr = call.addr
    BY <1>3, CallGoesOn, Zenon
  <2> QED BY <1>3, <2>1, <2>2, VMiss, Zenon
<1> QED BY <1>1, <1>2, <1>3, Zenon DEF Turn

\* The invariant, over every step.
LEMMA VInvHolds == Spec => []VInv
<1>1. VInv /\ [Next]_vars => VInv'
  <2> SUFFICES ASSUME VInv, [Next]_vars PROVE VInv'
    BY Zenon
  <2>1. CASE \E p \in Images(table) \cup {Gone} : Become(p)
    BY <2>1, VBecome, Zenon
  <2>2. CASE \E s \in PerfMaps : Emit(s)
    BY <2>2, VEmit, Zenon
  <2>3. CASE LoadNew
    BY <2>3, VLoadNew, Zenon
  <2>4. CASE refresh
    BY <2>4, VRefresh, Zenon
  <2>5. CASE Load
    BY <2>5, VLoad, Zenon
  <2>6. CASE Finish
    BY <2>6, VFinish, Zenon
  <2>7. CASE \E addr \in Addresses, junk \in BOOLEAN : resolve_addr(addr, junk)
    BY <2>7, VResolve, Zenon
  <2>8. CASE \E ok, str \in BOOLEAN : Turn(ok, str)
    BY <2>8, VTurn, Zenon
  <2>9. CASE GiveUp
    BY <2>9, VGiveUp, Zenon
  <2>10. CASE UNCHANGED vars
    <3>1. UNCHANGED <<table, proc, perf, cache, call, res>>
      BY <2>10, Zenon DEF vars
    <3>2. Cached'
      BY <3>1, CachedSame, Zenon DEF VInv
    <3>3. Asked' /\ Looking' /\ Answered'
      BY <3>1, Zenon DEF VInv, Asked, Looking, Answered, Missed, First, Hits, Resolved
    <3> QED BY <3>2, <3>3, Zenon DEF VInv
  <2> QED BY <2>1, <2>2, <2>3, <2>4, <2>5, <2>6, <2>7, <2>8, <2>9, <2>10, Zenon DEF Next
<1> QED BY <1>1, VInvInit, PTL DEF Spec

\* For every set of images and perf maps the cached tables are the files' tables or
\* empty, and the perf map's is a prefix of what the file holds.
THEOREM TypeOKHolds == Spec => []TypeOK
<1>1. VInv => TypeOK
  <2> SUFFICES ASSUME VInv PROVE TypeOK
    BY Zenon
  <2>1. table \in SymbolTables /\ perf \in PerfMaps
    BY Zenon DEF VInv, Asked
  <2>2. call.pc \in {"new", "idle", "load", "load_only", "reset", "reset_only", "search"}
    BY Zenon DEF VInv, Asked, Calls
  <2>3. \A m \in Range(cache.mods) : Sourced(m) /\ NamesKept(m)
    BY Zenon DEF VInv, Cached, Range
  <2>4. \A m \in Range(cache.mods) : m.named \subseteq DOMAIN m.syms
    BY <2>3, Zenon DEF NamesKept
  <2> QED BY <2>1, <2>2, <2>3, <2>4, Zenon DEF TypeOK, Sourced
<1> QED BY <1>1, VInvHolds, PTL

\* For every set of images and perf maps, however the process, its modules and its
\* perf map change during the searches: a symbol that is returned contains the
\* address, with the right offset and a name that has been read, and no symbol of the
\* module that starts later contains the address.
THEOREM HitIsInnermostHolds == Spec => []HitIsInnermost
<1>1. VInv => HitIsInnermost
  <2> SUFFICES ASSUME VInv, Resolved, res.found
               PROVE  LET m == Module(res.module)
                          off == Offset(m, res.addr)
                      IN  /\ contains(m, res.addr) /\ off = res.start + res.offset
                          /\ \E k \in m.named : m.syms[k].start = res.start /\ Hit(m.syms[k], off)
                          /\ \A s \in Range(m.syms) : s.start <= off /\ Hit(s, off) => s.start <= res.start
    BY Zenon DEF HitIsInnermost
  <2>1. Hits
    BY Zenon DEF VInv, Answered
  <2>2. PICK i \in DOMAIN cache.mods :
          /\ cache.mods[i].name = res.module /\ contains(cache.mods[i], res.addr)
          /\ \E k \in Walk(cache.mods[i].syms, Offset(cache.mods[i], res.addr)) \cap cache.mods[i].named :
               /\ res.start = cache.mods[i].syms[k].start
               /\ res.offset = Offset(cache.mods[i], res.addr) - res.start
    BY <2>1, Zenon DEF Hits
  <2> PICK m : m = cache.mods[i]
    BY Zenon
  <2>3. m \in Range(cache.mods) /\ m.name = res.module
    BY <2>2, Zenon DEF Range
  <2>4. \A f \in Range(cache.mods) : f.name = res.module => f = m
    BY <2>2, Zenon DEF VInv, Cached, Range
  <2>5. Module(res.module) = m
    BY <2>3, <2>4, Zenon DEF Module
  <2> PICK off : off = Offset(m, res.addr)
    BY Zenon
  <2>6. m \in Rec /\ IsTable(m.syms) /\ res.addr \in Nat
    <3>1. cache.mods \in Seq(Rec) /\ IsTable(m.syms) /\ res.addr \in Nat
      BY Zenon DEF VInv, Cached, Asked, Results
    <3>2. i \in 1..Len(cache.mods)
      BY <3>1, LenProperties, Zenon
    <3> QED BY <3>1, <3>2, ElementOfSeq, Zenon
  <2>7. off \in Nat
    BY <2>2, <2>6, OffsetType, Zenon
  <2>8. PICK k \in Walk(m.syms, off) \cap m.named :
          res.start = m.syms[k].start /\ res.offset = off - res.start
    BY <2>2, Zenon
  <2>9. /\ Hit(m.syms[k], off) /\ m.syms[k].start <= off
        /\ \A j \in Below(m.syms, off) : Hit(m.syms[j], off) => j <= k
    BY <2>6, <2>7, <2>8, WalkEndsAtTheLast, Zenon
  <2>10. k \in DOMAIN m.syms
    BY <2>8, Zenon DEF Walk, Below
  <2>11. m.syms[k].start \in Nat
    <3>1. m.syms \in Seq(Symbol)
      BY <2>6, Zenon DEF IsTable
    <3>2. m.syms[k] \in Symbol
      BY <2>10, <3>1, LenProperties, ElementOfSeq, Zenon
    <3> QED BY <3>2, Zenon DEF Symbol
  <2>12. off = res.start + res.offset
    BY <2>7, <2>8, <2>11
  <2>13. \E j \in m.named : m.syms[j].start = res.start /\ Hit(m.syms[j], off)
    BY <2>8, <2>9, Zenon
  <2>14. ASSUME NEW s \in Range(m.syms), s.start <= off, Hit(s, off)
         PROVE  s.start <= res.start
    <3>1. PICK j \in DOMAIN m.syms : s = m.syms[j]
      BY Zenon DEF Range
    <3>2. j \in Below(m.syms, off)
      BY <2>14, <3>1, Zenon DEF Below
    <3>3. j <= k
      BY <2>9, <2>14, <3>1, <3>2, Zenon
    <3> QED BY <2>6, <2>8, <2>10, <3>1, <3>3, Zenon DEF IsTable
  <2> QED BY <2>2, <2>5, <2>12, <2>13, <2>14, Zenon
<1> QED BY <1>1, VInvHolds, PTL

\* For every set of images and perf maps, whichever files and names can be read: when
\* nothing is found, every symbol around the address in the first module mapped at it
\* has two others that start after it and at or before the address, unless the walk
\* ends at a symbol of an ELF file whose name no call has read since the last refresh.
THEOREM NestingIsSeenHolds == Spec => []NestingIsSeen
<1>1. VInv => NestingIsSeen
  <2> SUFFICES ASSUME VInv, Resolved, ~res.found, NEW i \in DOMAIN cache.mods, NEW m, m = cache.mods[i],
                      NEW off, off = Offset(m, res.addr), contains(m, res.addr),
                      \A j \in 1..(i - 1) : ~contains(cache.mods[j], res.addr), ~Nameless(m, off),
                      NEW k \in Below(m.syms, off), Hit(m.syms[k], off)
               PROVE  \E j1, j2 \in Below(m.syms, off) : k < j1 /\ j1 < j2
    BY Zenon DEF NestingIsSeen
  <2>1. Missed(Len(cache.mods) + 1)
    BY Zenon DEF VInv, Answered
  <2>2. DOMAIN cache.mods = 1..Len(cache.mods) /\ Len(cache.mods) \in Nat
    BY LenProperties, Zenon DEF VInv, Cached
  <2>3. i < Len(cache.mods) + 1
    BY <2>2
  <2>4. Walk(m.syms, off) = {}
    <3>1. NoName(m, off)
      BY <2>1, <2>3, Zenon DEF Missed, First
    <3> QED BY <3>1, Zenon DEF NoName, Nameless
  <2>5. m \in Rec /\ IsTable(m.syms) /\ res.addr \in Nat
    BY <2>2, ElementOfSeq, Zenon DEF VInv, Cached, Asked, Results
  <2>6. off \in Nat
    BY <2>5, OffsetType, Zenon
  <2> QED BY <2>4, <2>5, <2>6, NestedOnceEndsTheWalk, Zenon
<1> QED BY <1>1, VInvHolds, PTL
=============================================================================
