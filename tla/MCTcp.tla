------------------------------- MODULE MCTcp -------------------------------
(* Small instances of TcpServer for TLC. *)
EXTENDS TcpServer

CONSTANTS c1, c2
=============================================================================
