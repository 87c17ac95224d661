---------------------------- MODULE MCPerfBuffer ----------------------------
(* Instances of PerfBuffer for TLC. *)
EXTENDS PerfBuffer

AllFaults == {"page_cnt", "epoll_create", "open", "update", "epoll_ctl", "remove"}
=============================================================================
