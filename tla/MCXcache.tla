------------------------------ MODULE MCXcache ------------------------------
EXTENDS Xcache, TLC

(* Threads, names and nodes are told apart by nothing but equality.        *)
Symmetry == Permutations(Threads) \cup Permutations(Names) \cup Permutations(Nodes)
=============================================================================
