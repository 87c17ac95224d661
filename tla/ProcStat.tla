------------------------------ MODULE ProcStat ------------------------------
(***************************************************************************)
(* ProcStat of src/cc/bcc_syms.cc: whether the process with a given pid is *)
(* still the one it was.  A process is a record with the inode of its      *)
(* executable (exe) and its root and mount namespace (ns); Gone stands for *)
(* a pid that nobody has.  The USDT context and the symbol cache of a      *)
(* process both rely on it.                                                *)
(***************************************************************************)

Gone == [exe |-> "none", ns |-> "none"]

\* The constructor and reset: what is remembered of a process.
Remember(p) == [exe |-> p.exe, ns |-> p.ns]
reset(stat, p) == IF p.exe = Gone.exe THEN stat ELSE [stat EXCEPT !.exe = p.exe]

\* refresh_root is only reached for another executable; the process is stale if
\* its root also changed.  The link is read without a terminating zero, so an
\* unchanged root may compare as changed: junk says whether it does.
AskRoot(stat, p) == p.exe # Gone.exe /\ p.exe # stat.exe
is_stale(stat, p, junk) == AskRoot(stat, p) /\ (p.ns # stat.ns \/ junk)
AfterStale(stat, p) == IF AskRoot(stat, p) THEN [stat EXCEPT !.ns = p.ns] ELSE stat
=============================================================================
