----------------------------- MODULE MCSymbols ------------------------------
(* Instances of Symbols for TLC: a program, the same with another library    *)
(* loaded, another program under the same root, and one under another.       *)
EXTENDS Symbols

S(start, size) == [start |-> start, size |-> size]
\* Adjacent, nested once and twice, side by side in one, aliases, without size.
Shapes == {<<S(0, 2), S(2, 3)>>, <<S(0, 5), S(1, 1)>>,
           <<S(0, 6), S(1, 4), S(2, 1)>>, <<S(0, 5), S(1, 1), S(3, 1)>>,
           <<S(1, 0), S(1, 3)>>, <<S(1, 3), S(1, 0)>>, <<S(0, 5), S(1, 3), S(4, 0)>>}
Lib(name, lo, syms) == [name |-> name, type |-> "so", lo |-> lo, hi |-> lo + 6, syms |-> syms,
                        loaded |-> FALSE, named |-> {}]
One == <<S(1, 2)>>
ImagesOf(t) ==
  { [exe |-> "e1", ns |-> "n1", mods |-> <<Lib("lib", 2, t)>>],
    [exe |-> "e1", ns |-> "n1", mods |-> <<Lib("lib", 2, t), Lib("more", 8, One)>>],
    [exe |-> "e2", ns |-> "n1", mods |-> <<Lib("other", 2, One)>>],
    [exe |-> "e3", ns |-> "n2", mods |-> <<Lib("other", 2, One)>>] }
Jitted == {<<>>, <<S(9, 1)>>, <<S(9, 1), S(10, 1)>>}
=============================================================================
