----------------------------- MODULE MigrationMC -----------------------------
(* Three domains in a row and a chain of three nodes: from three placements *)
(* to any placement a decomposition can give, and on to two others.  The   *)
(* first two domains have their messages buffered, the third has not.       *)
EXTENDS Migration, TLC

MCDomain   == 1 .. 3
MCAdjacent == {<<1, 2>>, <<2, 1>>, <<2, 3>>, <<3, 2>>}
TwoEager   == {1, 2}
MCNode     == {"a", "b", "c"}
MCLink     == {{"a", "b"}, {"b", "c"}}
Place(x, y, z) == ("a" :> x) @@ ("b" :> y) @@ ("c" :> z)
Placements == {Place(x, y, z) : x, y, z \in MCDomain}
Connected(p) == /\ p["a"] - p["b"] \in -1 .. 1 /\ p["b"] - p["c"] \in -1 .. 1
MCSchedules ==
  {<<p, q, r>> : p \in {Place(1, 1, 2), Place(1, 2, 3), Place(3, 3, 3)},
                 q \in {p \in Placements : Connected(p)},
                 r \in {Place(2, 1, 1), Place(3, 2, 1)}}
=============================================================================
