--------------------------- MODULE RemeshThreadsMC ---------------------------
EXTENDS RemeshThreads

(* A network from its links, each a set of two nodes.                      *)
Links(E) == [n \in UNION E |-> {m \in UNION E : {n, m} \in E /\ m # n}]
Plain == [net |-> << >>, remote |-> {}, owned |-> {},
          pinned |-> {}, corner |-> {}, coarsen |-> {}, refine |-> {}]

(* A line between two ghosts with a corner: merging the corner 5 removes   *)
(* its neighbour and so changes an arm of a node of another entry.         *)
Line == [Plain EXCEPT
  !.net = Links({{1, 2}, {2, 3}, {3, 4}, {4, 5}, {5, 6}, {6, 7}}),
  !.remote = {1, 7}, !.owned = {1}, !.corner = {5},
  !.coarsen = 2 .. 6, !.refine = {<<2, 3>>, <<4, 3>>}]

(* Two triangles at opposite nodes of a square: double links, and nodes    *)
(* that lose all their arms.                                               *)
Triangles == [Plain EXCEPT
  !.net = Links({{1, 2}, {2, 3}, {1, 3}, {3, 4}, {4, 5}, {5, 6}, {6, 3},
                 {5, 7}, {7, 8}, {5, 8}}),
  !.corner = {2, 7}, !.coarsen = {1, 2, 7, 8}, !.refine = {<<3, 4>>, <<4, 3>>}]

(* A junction of ghosts and pinned nodes around a loop to be refined.      *)
Junction == [Plain EXCEPT
  !.net = Links({{1, 2}, {2, 3}, {3, 1}, {3, 4}, {4, 5}}),
  !.remote = {5}, !.owned = {5}, !.pinned = {1}, !.coarsen = {4, 2},
  !.refine = {<<2, 3>>, <<3, 2>>, <<2, 1>>, <<3, 4>>, <<4, 5>>}]

(* A closed loop of three nodes, all segments to be refined.               *)
Loop == [Plain EXCEPT
  !.net = Links({{1, 2}, {2, 3}, {1, 3}}),
  !.refine = {<<1, 2>>, <<2, 1>>, <<2, 3>>, <<3, 2>>, <<3, 1>>, <<1, 3>>}]

MCSetups == {Line, Triangles, Junction, Loop}
LoopOnly == {Loop}
=============================================================================
