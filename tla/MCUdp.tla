------------------------------- MODULE MCUdp -------------------------------
(* Small instances of UdpServer for TLC. *)
EXTENDS UdpServer

CONSTANTS d1, d2, d3, a1, a2

\* Two clients; d1 and d2 have a handler, d3 has none.
Senders == [d \in Datagrams |-> IF d = d2 THEN a2 ELSE a1]
KindsOf == [d \in Datagrams |-> IF d = d3 THEN "unknown" ELSE "route"]
=============================================================================
