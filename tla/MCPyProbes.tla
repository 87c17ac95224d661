----------------------------- MODULE MCPyProbes -----------------------------
(* Instances of PyProbes for TLC. *)
EXTENDS PyProbes, TLC

Symmetric == Permutations(Bs) \cup Permutations(Fns)
=============================================================================
