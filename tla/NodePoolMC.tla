----------------------------- MODULE NodePoolMC -----------------------------
(***************************************************************************)
(* NodePool on a small instance: blocks of two structures.                 *)
(***************************************************************************)
EXTENDS NodePool, TLC

CONSTANTS MaxNodes,   \* bound on the structures ever allocated
          MaxTags     \* bound on newNodeKeyPtr

Bounded == nodeCount <= MaxNodes /\ newNodeKeyPtr <= MaxTags
ThreadSymmetry == Permutations(Thread)
=============================================================================
