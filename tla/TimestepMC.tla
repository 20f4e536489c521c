------------------------------ MODULE TimestepMC ------------------------------
(***************************************************************************)
(* Three domains in a row with a node each: the node of a neighbour is a   *)
(* primary ghost, that of the far domain a secondary one.                  *)
(***************************************************************************)
EXTENDS Timestep

MCDomain == 0 .. 2
MCNode == {"a", "b", "c"}
MCNodeDomain == [n \in MCNode |-> CASE n = "a" -> 0 [] n = "b" -> 1 [] n = "c" -> 2]
MCPrimary == [d \in MCDomain |-> IF d = 1 THEN {"a", "c"} ELSE {"b"}]
MCSecondary == [d \in MCDomain |-> CASE d = 0 -> {"c"} [] d = 1 -> {} [] d = 2 -> {"a"}]
(* No proposal yet, one below maxDT, and one above it. *)
MCProposals == {0, 2, 8}
=============================================================================
