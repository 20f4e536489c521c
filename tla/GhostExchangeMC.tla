--------------------------- MODULE GhostExchangeMC ---------------------------
(* A ring of five cells on four domains; cell 2 is shared by the first two. *)
(* The chain p q x w v runs through all cells; y hangs on x.  The first    *)
(* domain has no neighbour that owns cell 4, and asks for x twice: from    *)
(* the owner of q and from the owner of w.  The indices leave holes below  *)
(* none, one or both nodes of a domain, in either order of the nodes.      *)
EXTENDS GhostExchange

MCDomain == 1 .. 4
MCCell   == 1 .. 5
MCNear   == {p \in MCCell \X MCCell : (p[1] - p[2]) % 5 \in {1, 4}}
MCNativeCells == <<{1, 2}, {2, 3}, {4}, {5}>>
MCNode   == {"p", "q", "x", "y", "w", "v"}
MCOwner  == [p |-> 1, v |-> 1, q |-> 2, x |-> 3, y |-> 3, w |-> 4]
MCCellOf == [p |-> 2, v |-> 1, q |-> 3, x |-> 4, y |-> 4, w |-> 5]
MCLink   == {{"p", "q"}, {"q", "x"}, {"x", "w"}, {"w", "v"}, {"x", "y"}}
MCIndices ==
  {[p |-> a[1], v |-> a[2], q |-> b[1], w |-> b[2], x |-> c[1], y |-> c[2]] :
     a \in {<<0, 1>>, <<1, 2>>}, b \in {<<0, 1>>, <<2, 0>>},
     c \in {<<0, 1>>, <<0, 2>>, <<2, 0>>, <<2, 1>>}}
=============================================================================
