-------------------------- MODULE MCClientManager --------------------------
(* ClientManager for TLC: three threads, any of which accepts and closes.  *)
EXTENDS ClientManager, TLC

Symmetry == Permutations(Threads) \cup Permutations(Sockets)
============================================================================
