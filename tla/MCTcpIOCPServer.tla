-------------------------- MODULE MCTcpIOCPServer --------------------------
(* TcpIOCPServer for TLC.                                                   *)
EXTENDS TcpIOCPServer, TLC

Symmetry == Permutations(Workers) \cup Permutations(Sockets)
============================================================================
