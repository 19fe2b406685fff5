---------------------------- MODULE MCXcacheHeap -----------------------------
EXTENDS XcacheHeap, TLC

Symmetry == Permutations(Names) \cup Permutations(Nodes)
=============================================================================
