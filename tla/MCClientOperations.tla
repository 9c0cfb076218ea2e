------------------------- MODULE MCClientOperations ------------------------
(* ClientOperations for TLC: a worker and another thread, which post, dequeue *)
(* and close the operations of two stubs in any order.                      *)
EXTENDS ClientOperations, TLC

Symmetry == Permutations(Clients)
============================================================================
