---------------------------- MODULE MCPerfReader ----------------------------
(* Instances of PerfReader for TLC. *)
EXTENDS PerfReader, TLC

CONSTANTS t1, t2, t3

MCThreads2 == {t1, t2}
MCThreads3 == {t1, t2, t3}
MCFreer == {t3}
MCSizes == {2, 3}
=============================================================================
