----------------------------- MODULE SubcyclingMC -----------------------------
(* Two domains, each with a pair of segments.  The first has one node, and *)
(* of the two of the second one is its primary and the other its secondary *)
(* ghost; its pair has all three and moves at the first rejected try.  The *)
(* pair of the second domain lies there and is further apart.              *)
EXTENDS Subcycling, TLC

MCDomain == {1, 2}
MCNode == {"m", "n", "o"}
MCPair == {"p", "q"}
MCNodeDomain == ("m" :> 1) @@ ("n" :> 2) @@ ("o" :> 2)
MCPrimary == (1 :> {"n"}) @@ (2 :> {"m"})
MCSecondary == (1 :> {"o"}) @@ (2 :> {})
MCPairDomain == ("p" :> 1) @@ ("q" :> 2)
MCEnds == ("p" :> {"m", "n", "o"}) @@ ("q" :> {"n", "o"})
MCReach == ("p" :> 1) @@ ("q" :> 2)
MCProposals == {1, 8}
=============================================================================
