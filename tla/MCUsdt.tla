------------------------------- MODULE MCUsdt -------------------------------
(* Instances of Usdt for TLC. *)
EXTENDS Usdt

Traced == [id |-> 1, exe |-> "app", ns |-> "host"]

\* The process, its restart, another program, and one in another container.
Successors == {Traced, [id |-> 2, exe |-> "app", ns |-> "host"],
               [id |-> 3, exe |-> "sh", ns |-> "host"],
               [id |-> 4, exe |-> "sh", ns |-> "box"]}
=============================================================================
