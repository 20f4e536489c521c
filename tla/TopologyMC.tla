----------------------------- MODULE TopologyMC -----------------------------
(***************************************************************************)
(* Small networks for Topology.  A network is built from its segments      *)
(* <<n, m, b>>: b is the Burgers vector of the arm of n.                   *)
(***************************************************************************)
EXTENDS Topology

Net(segments) ==
  LET nodes == {s[1] : s \in segments} \cup {s[2] : s \in segments}
      armSet(n) == {[to |-> s[2], b |-> s[3]] : s \in {t \in segments : t[1] = n}}
                   \cup {[to |-> s[1], b |-> -s[3]] : s \in {t \in segments : t[2] = n}}
      order(a, b) == OrderNodes(a.to, b.to) < 0
      sorted(S) == CHOOSE f \in [1 .. Cardinality(S) -> S] :
                     \A i, j \in DOMAIN f : i < j => order(f[i], f[j])
  IN [n \in nodes |-> sorted(armSet(n))]

Ring(nodes) == Net({<<nodes[i], nodes[(i % Len(nodes)) + 1], 1>> : i \in DOMAIN nodes})

A0 == <<0, 0>>
A1 == <<0, 1>>
A2 == <<0, 2>>
A3 == <<0, 3>>
A4 == <<0, 4>>
B0 == <<1, 0>>
B1 == <<1, 1>>
C0 == <<2, 0>>
C1 == <<2, 1>>
D0 == <<3, 0>>

Setup(domains, c, net, kinds, n) ==
  [domains |-> domains, cycle |-> c, net |-> net, kinds |-> kinds, ops |-> n]
Collisions == {"separate", "collide", "hinge"}
Remeshing == {"coarsen", "refine"}
AllKinds == Collisions \cup Remeshing

(* A loop of four nodes over two domains.                                  *)
Pair44 == Ring(<<A0, A1, B0, B1>>)
(* A junction with four arms: two loops through A0.                        *)
Cross == Net({<<A0, A1, 1>>, <<A1, B0, 1>>, <<B0, A0, 1>>,
              <<A0, B1, 1>>, <<B1, A2, 1>>, <<A2, A0, 1>>})
(* Most of a loop in one domain: some coarsenings are told to nobody.      *)
Loop7 == Ring(<<A0, A1, A2, A3, A4, B0, B1>>)
(* Two arrangements of a loop of five nodes over three domains.            *)
Loops3D == {Ring(<<A0, A1, B0, B1, C0>>), Ring(<<A0, B0, A1, C0, B1>>)}

MCSetups ==
  {Setup({0, 1}, 0, Pair44, AllKinds, 2)}
  \cup {Setup({0, 1}, c, Cross, Collisions, 2) : c \in {0, 1}}
  \cup {Setup({0, 1}, c, Loop7, Remeshing, 3) : c \in {0, 1}}
  \cup {Setup({0, 1, 2}, c, net, AllKinds, 1) : c \in {0, 1}, net \in Loops3D}

(* Two nodes joined by three lines, each with a node of its own domain.    *)
Theta == Net({<<C0, A0, 1>>, <<A0, D0, 1>>, <<C0, B0, 1>>, <<B0, D0, 1>>,
              <<C0, C1, -2>>, <<C1, D0, -2>>})
TripleSetups == {Setup(0 .. 3, 1, Theta, Remeshing, 1)}
=============================================================================
