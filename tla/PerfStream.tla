----------------------------- MODULE PerfStream -----------------------------
(***************************************************************************)
(* What a perf buffer promises its user (perf_reader.c with the raw and    *)
(* lost callbacks).  BPF programs emit samples 1, 2, 3, ...; the callbacks *)
(* see them in that order, and every gap is announced by a lost callback   *)
(* that carries exactly the number of samples missing from the stream.     *)
(***************************************************************************)
EXTENDS Naturals

VARIABLES emitted,  \* samples handed to bpf_perf_event_output so far
          position, \* samples the user knows about: delivered or reported lost
          called    \* the last callback and its argument

streamVars == <<emitted, position, called>>

NoCall == [cb |-> "none", arg |-> 0]

StreamInit == emitted = 0 /\ position = 0 /\ called = NoCall

Emit == emitted' = emitted + 1 /\ UNCHANGED <<position, called>>

\* The raw callback is called with sample position + 1.
DeliverNext ==
  /\ position < emitted
  /\ position' = position + 1
  /\ called' = [cb |-> "raw", arg |-> position + 1]
  /\ UNCHANGED emitted

\* The lost callback is called with n: the next n samples will never come.
ReportLost ==
  \E n \in 1..(emitted - position) :
    /\ position' = position + n
    /\ called' = [cb |-> "lost", arg |-> n]
    /\ UNCHANGED emitted

StreamNext == Emit \/ DeliverNext \/ ReportLost

StreamSpec == StreamInit /\ [][StreamNext]_streamVars
=============================================================================
