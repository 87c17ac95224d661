------------------------------ MODULE MCProbes ------------------------------
(* Instances of Probes for TLC. *)
EXTENDS Probes, TLC

CONSTANTS f1, f2, k1, u1, t1, r1, p1

MCFuncs == {f1, f2}
MCOneFunc == {f1}
MCKprobes == {k1}
MCUprobes == {u1}
MCTracepoints == {t1}
MCRaw == {r1}
MCPerfEvents == {p1}
NoEvents == {}
AllFaults == {"load", "pmu", "create", "open", "set_bpf", "detach"}
FuncSymmetry == Permutations(MCFuncs)
=============================================================================
