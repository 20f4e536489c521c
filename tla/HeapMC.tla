------------------------------- MODULE HeapMC -------------------------------
(* Heap with six tags: the tree's third level is reached and left again,   *)
(* one parent there having a single child, and the array grows twice.      *)
EXTENDS Heap

MCTags == 0 .. 5
=============================================================================
