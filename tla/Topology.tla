------------------------------- MODULE Topology -------------------------------
(***************************************************************************)
(* The topological operations of one timestep and how the domains keep     *)
(* their views of the dislocation network consistent: Topology.cc,         *)
(* Util.cc, RemoveNode.cc, FixRemesh.cc, ProximityCollision.cc, Remesh.cc, *)
(* RemeshRule_2.cc and the order of their calls in ParadisStep.cc.         *)
(*                                                                         *)
(* view[d] is what domain d knows: the tags in its nodeKeys and in those   *)
(* of its remote domains, each with the node's list of arms.  An arm is a  *)
(* record [to |-> tag, b |-> Burgers vector], the vector an integer.  A    *)
(* segment is two arms, one at each end, with opposite Burgers vectors.    *)
(*                                                                         *)
(* Every domain changes its view by operations, logs those that others     *)
(* must know of (the opList), sends the log to all its neighbours          *)
(* (CommSendRemesh) and replays theirs (FixRemesh); twice per timestep.    *)
(* Geometry decides which operation is tried: here any may be.  Left out:  *)
(* positions, forces, glide planes, the constraints (nodes are             *)
(* unconstrained), cross slip, and the operations of surfaces.             *)
(*                                                                         *)
(* Mutants (see the README): ZeroArmKept, FirstKept, BurgOfFirst,          *)
(* SplitLinkUnsigned, AnyDeletable, NoDoubleLinkCheck, BothRemote,         *)
(* OpsReversed, UndoneAsRemesh; and EndsOwn of SegOwnership.               *)
(***************************************************************************)
EXTENDS SegOwnership, Sequences, FiniteSets, TLC
LOCAL INSTANCE SequencesExt

CONSTANT Setups  \* what a timestep may start from, records of
                 \*   domains: a set of integers, all pairs are neighbours,
                 \*   cycle: home->cycle, net: function from tags to arm lists,
                 \*   kinds: the operations that domains may try,
                 \*   ops: how many a domain tries before each exchange

ASSUME SetupsAssumption ==
  \A s \in Setups :
    /\ s.domains \subseteq Nat /\ s.cycle \in Nat /\ s.ops \in Nat
    /\ \A n \in DOMAIN s.net :
         /\ n[1] \in s.domains
         /\ \A i \in DOMAIN s.net[n] : s.net[n][i].to \in DOMAIN s.net \ {n}

VARIABLES
  setup,      \* stays as it is
  view,       \* view[d][tag]: the arms of the node, as d knows them
  opList,     \* operations logged since the last ClearOpList
  sent,       \* sent[d]: the operation lists d has sent, oldest first
  stage,
  ops,        \* operations tried since the last exchange
  exempt,     \* tags d has flagged NO_COLLISIONS or NO_MESH_COARSEN
  coarsened,  \* tags of the committed entries of the coarsen list
  shortSegs,  \* segments the mesh coarsening made, as pairs of tags
  refined,    \* tags created by the mesh refinement
  aborted     \* Fatal was called

(* FoldLeft and SetToSortSeq of SequencesExt enumerate the subsets of the  *)
(* domain and all functions onto it: too many for lists of operations.     *)
Fold(op(_, _), base, list) ==
  LET upTo[i \in 0 .. Len(list)] ==
        IF i = 0 THEN base ELSE op(upTo[i - 1], list[i])
  IN upTo[Len(list)]

Ascending(S) ==
  [k \in 1 .. Cardinality(S) |->
     CHOOSE x \in S : Cardinality({y \in S : y <= x}) = k]

Domain == setup.domains
cycle  == setup.cycle

localVars == <<coarsened, shortSegs, refined>>
vars == <<setup, view, opList, sent, stage, ops, exempt, localVars, aborted>>
-----------------------------------------------------------------------------
(* Views and arms.                                                         *)
ArmsTo(v, n, m) == SelectSeq(v[n], LAMBDA a : a.to = m)
FirstArmTo(v, n, m) ==
  CHOOSE i \in DOMAIN v[n] : /\ v[n][i].to = m
                             /\ \A j \in 1 .. i - 1 : v[n][j].to # m
Linked(v, n, m) == n \in DOMAIN v /\ \E i \in DOMAIN v[n] : v[n][i].to = m
Without(v, n) == [m \in DOMAIN v \ {n} |-> v[m]]
NativeIn(v, d) == {n \in DOMAIN v : n[1] = d}
FreeTag(v, d) == <<d, CHOOSE i \in 0 .. Cardinality(NativeIn(v, d)) :
                        <<d, i>> \notin DOMAIN v
                        /\ \A j \in 0 .. i - 1 : <<d, j>> \in DOMAIN v>>

(* The first arm of n to m is redirected to k.                             *)
ChangeConnection(v, n, m, k) ==
  IF Linked(v, n, m) THEN [v EXCEPT ![n][FirstArmTo(v, n, m)].to = k] ELSE v

(* The arms of n to m are removed or, if b is not zero, become one arm.    *)
FirstKept(arms, i, m) == arms
OthersRemoved(arms, i, m) ==
  SubSeq(arms, 1, i) \o SelectSeq(SubSeq(arms, i + 1, Len(arms)),
                                  LAMBDA a : a.to # m)
ZeroArmKept(v, n, m, b) ==
  IF ~Linked(v, n, m) THEN v
  ELSE [v EXCEPT ![n] =
          OthersRemoved([@ EXCEPT ![FirstArmTo(v, n, m)].b = b], FirstArmTo(v, n, m), m)]
ChangeArmBurg(v, n, m, b) ==
  IF ~Linked(v, n, m) THEN v
  ELSE IF b = 0
       THEN [v EXCEPT ![n] = SelectSeq(@, LAMBDA a : a.to # m)]
       ELSE LET i == FirstArmTo(v, n, m) IN
            [v EXCEPT ![n] = OthersRemoved([@ EXCEPT ![i].b = b], i, m)]

InsertArm(v, n, m, b) ==
  IF n \in DOMAIN v THEN [v EXCEPT ![n] = Append(@, [to |-> m, b |-> b])]
  ELSE v

(* A node without arms is freed by its owner; a ghost that still has two   *)
(* arms is cut out of its line; any other ghost is left alone.             *)
RemoveNode(d, v, n) ==
  IF n \in DOMAIN v /\ n[1] = d /\ v[n] = <<>> THEN Without(v, n)
  ELSE IF n \in DOMAIN v /\ n[1] # d /\ Len(v[n]) = 2
  THEN LET p == v[n][1].to
           q == v[n][2].to
       IN Without(ChangeConnection(ChangeConnection(v, p, n, q), q, n, p), n)
  ELSE v

(* What an operation does to the view of domain d.                         *)
Apply(d, v, op) ==
  CASE op.type = "conn"   -> ChangeConnection(v, op.n, op.m, op.k)
    [] op.type = "burg"   -> ChangeArmBurg(v, op.n, op.m, op.b)
    [] op.type = "insert" -> InsertArm(v, op.n, op.m, op.b)
    [] op.type = "split"  -> (op.n :> <<>>) @@ v
    [] op.type = "remove" -> RemoveNode(d, v, op.n)
Conn(n, m, k)   == [type |-> "conn", n |-> n, m |-> m, k |-> k]
Burg(n, m, b)   == [type |-> "burg", n |-> n, m |-> m, b |-> b]
Insert(n, m, b) == [type |-> "insert", n |-> n, m |-> m, b |-> b]
Split(n)        == [type |-> "split", n |-> n]
Removal(n)      == [type |-> "remove", n |-> n]

(* A domain at work: its view v, its log, whether the log is kept          *)
(* (globalOp), its exempt nodes, and whether it has called Fatal: a        *)
(* neighbour is unknown, or a native node with arms is removed.            *)
Working(d, globalOp) ==
  [d |-> d, v |-> view[d], log |-> opList[d], globalOp |-> globalOp,
   exempt |-> exempt[d], fatal |-> FALSE]
Do(st, op) ==
  [st EXCEPT !.v = Apply(st.d, @, op),
             !.log = IF st.globalOp THEN Append(@, op) ELSE @,
             !.exempt = IF op.type = "split" THEN @ \ {op.n} ELSE @,
             !.fatal = \/ @
                       \/ op.type = "remove" /\ op.n[1] = st.d
                          /\ st.v[op.n] # <<>>]
DoAll(st, list) == Fold(Do, st, list)
NeedNode(st, n) == [st EXCEPT !.fatal = @ \/ n \notin DOMAIN st.v]
Owns(st, class, n) == DomainOwnsSeg(class, cycle, st.d, n[1])
-----------------------------------------------------------------------------
(* RemoveDoubleLinks: two arms of n to one neighbour x annihilate or       *)
(* become one, at both ends.                                               *)
BurgOfFirst(v, n, x) == ArmsTo(v, n, x)[1].b
BurgSum(v, n, x) == ArmsTo(v, n, x)[1].b + ArmsTo(v, n, x)[2].b

Collapse(st, n, x) ==
  LET b  == BurgSum(st.v, n, x)
      s  == DoAll(NeedNode(st, x), <<Burg(n, x, b), Burg(x, n, -b)>>)
      orphan == b = 0 /\ x[1] = st.d /\ x \in DOMAIN s.v /\ s.v[x] = <<>>
  IN IF s.fatal \/ ~orphan THEN s ELSE Do(s, Removal(x))

DoubledNbrs(v, n) ==
  LET first == {i \in DOMAIN v[n] : /\ Len(ArmsTo(v, n, v[n][i].to)) > 1
                                    /\ i = FirstArmTo(v, n, v[n][i].to)}
      order == Ascending(first)
  IN [k \in DOMAIN order |-> v[n][order[k]].to]

RemoveDoubleLinks(st, n) ==
  IF n \in DOMAIN st.v
  THEN Fold(LAMBDA s, x : Collapse(s, n, x), st, DoubledNbrs(st.v, n))
  ELSE st
-----------------------------------------------------------------------------
(* SplitNode: the selected arms of n move to a new node, or else the other *)
(* arms do; only arms the domain owns may move.                            *)
ArmsToMove(st, class, n, sel) ==
  IF \A i \in sel : Owns(st, class, st.v[n][i].to)
  THEN sel ELSE DOMAIN st.v[n] \ sel

MoveArm(st, n, new, arm) ==
  DoAll(NeedNode(st, arm.to),
        <<Conn(arm.to, n, new), Insert(new, arm.to, arm.b), Burg(n, arm.to, 0)>>)

SplitLinkUnsigned(b) == b
SplitLinkBack(b) == -b
BurgTotal(v, n) == Fold(LAMBDA sum, a : sum + a.b, 0, v[n])

(* s1 keeps the unselected arms, s2 has the selected ones.                 *)
SplitNode(st, class, n, sel) ==
  LET move == ArmsToMove(st, class, n, sel)
      down == Reverse(Ascending(move))
      new  == FreeTag(st.v, st.d)
      arms == [k \in DOMAIN down |-> st.v[n][down[k]]]
      moved == Fold(LAMBDA s, arm : MoveArm(s, n, new, arm),
                        Do(st, Split(new)), arms)
      s1 == IF move = sel THEN n ELSE new
      s2 == IF move = sel THEN new ELSE n
      b  == BurgTotal(moved.v, s2)
  IN [st |-> IF b = 0 THEN moved
             ELSE DoAll(moved, <<Insert(s1, s2, b),
                                 Insert(s2, s1, SplitLinkBack(b))>>),
      ok |-> \A i \in move : Owns(st, class, st.v[n][i].to),
      s1 |-> s1, s2 |-> s2]
-----------------------------------------------------------------------------
(* MergeNode: a node the domain may delete is merged into the other.       *)
AnyDeletable(st, class, n) == n[1] = st.d /\ n \notin st.exempt
Deletable(st, class, n) ==
  /\ n[1] = st.d /\ n \notin st.exempt
  /\ \A i \in DOMAIN st.v[n] : Owns(st, class, st.v[n][i].to)

(* The link of the target to a third node both are linked to must be one   *)
(* the domain owns, for the resulting double link to be removed here.      *)
NoDoubleLinkCheck(st, class, target, dead) == TRUE
MayDoubleLink(st, class, target, dead) ==
  \A i \in DOMAIN st.v[target] :
    LET x == st.v[target][i].to
        targetOwns == DomainOwnsSeg(class, cycle, target[1], x[1])
    IN Linked(st.v, dead, x) =>
         \/ target[1] = st.d /\ (x[1] = st.d \/ targetOwns)
         \/ x[1] = st.d /\ ~targetOwns

Relink(st, target, dead, arm) ==
  DoAll(NeedNode(st, arm.to),
        <<Conn(arm.to, dead, target), Burg(dead, arm.to, 0),
          Insert(target, arm.to, arm.b)>>)

Merge(st, target, dead) ==
  LET cut  == DoAll(st, <<Burg(target, dead, 0), Burg(dead, target, 0)>>)
      moved == Fold(LAMBDA s, arm : Relink(s, target, dead, arm),
                        cut, Reverse(cut.v[dead]))
      clean == RemoveDoubleLinks(Do(moved, Removal(dead)), target)
  IN IF target[1] = st.d /\ target \in DOMAIN clean.v /\ clean.v[target] = <<>>
     THEN Do(clean, Removal(target)) ELSE clean

MergeNode(st, class, n1, n2) ==
  LET dead   == IF Deletable(st, class, n1) THEN n1 ELSE n2
      target == IF dead = n1 THEN n2 ELSE n1
      ok     == /\ Deletable(st, class, dead)
                /\ MayDoubleLink(st, class, target, dead)
  IN [st |-> IF ok THEN Merge(st, target, dead) ELSE st,
      ok |-> ok, target |-> target]

(* The caller flags the merged node, if it is still there.                 *)
Flag(m) == IF m.ok /\ m.target \in DOMAIN m.st.v
           THEN [m.st EXCEPT !.exempt = @ \cup {m.target}] ELSE m.st
-----------------------------------------------------------------------------
(* The order of the operations in a timestep: a domain is at or before a   *)
(* stage when it may still try the operations of that stage.               *)
Before == [separate |-> {"start", "separate"},
           collide  |-> {"start", "separate", "collide"},
           hinge    |-> {"start", "separate", "collide", "hinge"},
           coarsen  |-> {"fixed", "coarsen"},
           refine   |-> {"fixed", "coarsen", "refine"}]
MayTry(d, s) == s \in setup.kinds /\ stage[d] \in Before[s] /\ ops[d] < setup.ops

(* The domain's new state after an operation of stage s.                   *)
Commit(d, s, st) ==
  /\ view' = [view EXCEPT ![d] = st.v]
  /\ opList' = [opList EXCEPT ![d] = st.log]
  /\ exempt' = [exempt EXCEPT ![d] = st.exempt]
  /\ aborted' = (aborted \/ st.fatal)
  /\ stage' = [stage EXCEPT ![d] = s]
  /\ ops' = [ops EXCEPT ![d] = @ + 1]
  /\ UNCHANGED <<setup, sent>>

(* SplitMultiNodes: a node with four or more arms is taken apart, or a     *)
(* node with three when one is a binary junction.  SMNGetArmSets lists the *)
(* sets of arms to move; of two halves only the one with the first arm.    *)
SMNArmSets(k) ==
  {sel \in SUBSET (1 .. k) :
     /\ Cardinality(sel) \in 2 .. IF k = 3 THEN 2 ELSE k \div 2
     /\ 2 * Cardinality(sel) = k => 1 \in sel}

(* Every set is first tried: the split, unknown to the others, is undone   *)
(* by a merge that must leave the node itself, or else the domain calls    *)
(* Fatal; then the node and its neighbours are restored as they were.  Of  *)
(* a node with three arms only the set without the junction is tried.      *)
NewNodeOf(n, split) == IF split.s1 = n THEN split.s2 ELSE split.s1
UndoneAsRemesh(n, split) ==
  LET m == MergeNode(split.st, "remesh", NewNodeOf(n, split), n)
  IN m.ok /\ m.target = n
Undone(n, split) ==
  LET m == MergeNode(split.st, "separation", NewNodeOf(n, split), n)
  IN m.ok /\ m.target = n

TrialFails(d, n, sel) ==
  \E t \in IF Len(view[d][n]) = 3 THEN {sel} ELSE SMNArmSets(Len(view[d][n])) :
    LET split == SplitNode(Working(d, FALSE), "separation", n, t) IN
    split.ok /\ (split.st.fatal \/ ~Undone(n, split))

SplitMultiNode(d) ==
  /\ MayTry(d, "separate")
  /\ \E n \in NativeIn(view[d], d) :
       \E sel \in SMNArmSets(Len(view[d][n])) :
         LET split == SplitNode(Working(d, TRUE), "separation", n, sel) IN
         /\ split.ok
         /\ Commit(d, "separate",
                   [split.st EXCEPT !.exempt = @ \cup {split.s1, split.s2},
                                    !.fatal = @ \/ TrialFails(d, n, sel)])
  /\ UNCHANGED localVars

(* The node of segment n-m at the point of contact: n if it is close, m if *)
(* it is close and native, or a new node that bisects the segment.         *)
Where == {"near", "far", "inside"}
Contact(st, n, m, where) ==
  LET i == FirstArmTo(st.v, n, m)
      split == SplitNode(st, "collision", n, {i})
  IN CASE where = "near"   -> [st |-> st, ok |-> TRUE, node |-> n]
       [] where = "far"    -> [st |-> st, ok |-> m[1] = st.d, node |-> m]
       [] where = "inside" -> [st |-> split.st, ok |-> split.ok,
                               node |-> split.s2]

(* ProximityCollisions: segments n1-n2 and n3-n4 collide.  The second      *)
(* contact, or the merge, may turn out to be impossible when the first     *)
(* segment is already bisected.                                            *)
CollisionPair(d, n1, n2, n3, n4) ==
  /\ {n1, n2, n3, n4} \cap exempt[d] = {}
  /\ CollisionNodeOrder(cycle, n1, n3) < 0 /\ CollisionNodeOrder(cycle, n1, n2) <= 0
  /\ n2 # n3 /\ Owns(Working(d, TRUE), "collision", n2)
  /\ n4 # n2 /\ CollisionNodeOrder(cycle, n3, n4) <= 0

SegCollision(d) ==
  /\ MayTry(d, "collide")
  /\ \E n1, n3 \in NativeIn(view[d], d) :
     \E i \in DOMAIN view[d][n1], j \in DOMAIN view[d][n3] :
     \E where1, where2 \in Where :
       LET n2 == view[d][n1][i].to
           n4 == view[d][n3][j].to
           c1 == Contact(Working(d, TRUE), n1, n2, where1)
           c2 == Contact(c1.st, n3, n4, where2)
           m  == MergeNode(c2.st, "collision", c1.node, c2.node)
       IN /\ {n2, n4} \subseteq DOMAIN view[d]
          /\ CollisionPair(d, n1, n2, n3, n4)
          /\ c1.ok
          /\ \/ where1 = "inside" /\ Commit(d, "collide", c1.st)
             \/ c2.ok /\ "inside" \in {where1, where2}
                /\ Commit(d, "collide", c2.st)
             \/ c2.ok /\ m.ok /\ Commit(d, "collide", Flag(m))
  /\ UNCHANGED localVars

(* Hinges: two arms of n1 close up.  The arm to n3 is known to be local    *)
(* only when no earlier merge has changed the arms of n1.                  *)
HingeCollision(d) ==
  /\ MayTry(d, "hinge")
  /\ \E n1 \in NativeIn(view[d], d) \ exempt[d] : \E j, k \in DOMAIN view[d][n1] :
     \E where \in Where :
       LET n3 == view[d][n1][j].to
           n4 == view[d][n1][k].to
           c  == Contact(Working(d, TRUE), n1, n4, where)
           m  == MergeNode(c.st, "collision", n3, c.node)
       IN /\ j < k /\ n4[1] = d /\ (n3[1] = d \/ stage[d] = "hinge")
          /\ {n3, n4} \subseteq DOMAIN view[d] /\ n3 # n4
          /\ c.ok
          /\ \/ where = "inside" /\ Commit(d, "hinge", c.st)
             \/ m.ok /\ Commit(d, "hinge", Flag(m))
  /\ UNCHANGED localVars

(* MeshCoarsen: a node with two arms is merged into a neighbour.  Nobody   *)
(* else is told when neither neighbour is linked to another domain.        *)
BothRemote(v, d, n1, n2) == n1[1] # d /\ n2[1] # d
IsGlobal(v, d, n1, n2) ==
  \/ n1[1] # d \/ n2[1] # d
  \/ \E m \in {n1, n2} : \E i \in DOMAIN v[m] : v[m][i].to[1] # d

Coarsen(d) ==
  /\ MayTry(d, "coarsen")
  /\ \E n \in NativeIn(view[d], d) \ exempt[d] :
       LET n1 == view[d][n][1].to
           n2 == view[d][n][2].to
           st == Working(d, IsGlobal(view[d], d, n1, n2))
           m1 == MergeNode(st, "remesh", n, n1)
           m2 == MergeNode(st, "remesh", n, n2)
           m  == IF n1 \notin exempt[d] /\ m1.ok THEN m1 ELSE m2
       IN /\ Len(view[d][n]) = 2 /\ {n1, n2} \subseteq DOMAIN view[d]
          /\ Owns(st, "remesh", n1) /\ Owns(st, "remesh", n2)
          /\ {n, n1, n2} \cap coarsened[d] = {}
          /\ coarsened' = [coarsened EXCEPT ![d] = @ \cup {n, n1, n2}]
          /\ IF m = m1 \/ (n2 \notin exempt[d] /\ m2.ok)
             THEN /\ Commit(d, "coarsen", Flag(m))
                  /\ shortSegs' = [shortSegs EXCEPT ![d] =
                                     @ \cup {{n, n1, n2} \cap DOMAIN m.st.v}]
             ELSE Commit(d, "coarsen", st) /\ UNCHANGED shortSegs
  /\ UNCHANGED refined

(* RemeshRule_2, MeshRefine: a segment is bisected, from the end whose two *)
(* arms span a large triangle, or from its lower end.  A segment the       *)
(* coarsening made is not: its ends have obsolete forces (first case), and *)
(* it is no longer than maxSeg (second case).                              *)
Refine(d) ==
  /\ MayTry(d, "refine")
  /\ \E n \in NativeIn(view[d], d) \ refined[d] : \E i \in DOMAIN view[d][n] :
       LET m == view[d][n][i].to
           split == SplitNode(Working(d, m[1] # d), "remesh", n, {i})
       IN /\ m \in DOMAIN view[d] \ refined[d] /\ {n, m} \notin shortSegs[d]
          /\ Len(view[d][n]) = 2 \/ OrderNodes(n, m) < 0
          /\ Owns(Working(d, TRUE), "remesh", m) /\ split.ok
          /\ Commit(d, "refine", split.st)
          /\ refined' = [refined EXCEPT ![d] = @ \cup {split.s2}]
  /\ UNCHANGED <<coarsened, shortSegs>>
-----------------------------------------------------------------------------
(* CommSendRemesh: the list goes to every neighbour.  ClearOpList at the   *)
(* start of the next phase is part of the step that ends this one.         *)
CommSendRemesh(d) ==
  /\ stage[d] \notin {"sent1", "sent2", "done"}
  /\ sent' = [sent EXCEPT ![d] = Append(@, opList[d])]
  /\ opList' = [opList EXCEPT ![d] = <<>>]
  /\ stage' = [stage EXCEPT ![d] = IF stage[d] \in Before["hinge"]
                                   THEN "sent1" ELSE "sent2"]
  /\ UNCHANGED <<setup, view, ops, exempt, localVars, aborted>>

(* The lists of the neighbours are replayed, in the order of               *)
(* remoteDomains.                                                          *)
OpsReversed(list) == Reverse(list)
InOrder(list) == list
Replayed(d, order, round) ==
  Fold(LAMBDA v, e : Fold(LAMBDA w, op : Apply(d, w, op), v,
                                  InOrder(sent[e][round])),
           view[d], order)

(* RemoveDoubleLinks for every native node, in the order of the indices,   *)
(* without telling anyone.                                                 *)
CleanedUp(st) ==
  Fold(LAMBDA s, i : RemoveDoubleLinks(s, <<st.d, i>>), st,
       Ascending({n[2] : n \in NativeIn(st.v, st.d)}))
RemoveOrphanedNodes(v, d) ==
  [n \in {m \in DOMAIN v : m[1] # d \/ v[m] # <<>>} |-> v[n]]

(* FixRemesh, the cleaning up after it, and the start of the next phase:   *)
(* InitTopologyExemptions, or RemoveOrphanedNodes after the second.        *)
FixRemesh(d) ==
  /\ stage[d] \in {"sent1", "sent2"}
  /\ \A e \in Domain : Len(sent[e]) >= Len(sent[d])
  /\ \E order \in SetToSeqs(Domain \ {d}) :
       LET last == stage[d] = "sent2"
           st == CleanedUp([Working(d, FALSE) EXCEPT
                              !.v = Replayed(d, order, Len(sent[d]))])
       IN /\ view' = [view EXCEPT ![d] = IF last THEN RemoveOrphanedNodes(st.v, d)
                                                 ELSE st.v]
          /\ aborted' = (aborted \/ st.fatal)
          /\ stage' = [stage EXCEPT ![d] = IF last THEN "done" ELSE "fixed"]
  /\ exempt' = [exempt EXCEPT ![d] = {}]
  /\ ops' = [ops EXCEPT ![d] = 0]
  /\ UNCHANGED <<setup, opList, sent, localVars>>

Init ==
  /\ setup \in Setups
  /\ view = [d \in Domain |-> setup.net]
  /\ opList = [d \in Domain |-> <<>>] /\ sent = [d \in Domain |-> <<>>]
  /\ stage = [d \in Domain |-> "start"] /\ ops = [d \in Domain |-> 0]
  /\ exempt = [d \in Domain |-> {}] /\ aborted = FALSE
  /\ coarsened = [d \in Domain |-> {}] /\ refined = [d \in Domain |-> {}]
  /\ shortSegs = [d \in Domain |-> {}]

Operation(d) == \/ SplitMultiNode(d) \/ SegCollision(d) \/ HingeCollision(d)
                \/ Coarsen(d) \/ Refine(d)
DomainStep(d) == Operation(d) \/ CommSendRemesh(d) \/ FixRemesh(d)
CycleEnds == (\A d \in Domain : stage[d] = "done") /\ UNCHANGED vars
Next == \/ ~aborted /\ \E d \in Domain : DomainStep(d)
        \/ CycleEnds
Spec == Init /\ [][Next]_vars
-----------------------------------------------------------------------------
Tag == Domain \X Nat
Owner(n) == n[1]
Native == UNION {NativeIn(view[d], d) : d \in Domain}
OwnArms(n) == view[Owner(n)][n]
NetBurg(v, n, m) == Fold(LAMBDA sum, a : sum + a.b, 0, ArmsTo(v, n, m))
AllAt(s) == \A d \in Domain : stage[d] = s
Settled == AllAt("fixed") \/ AllAt("done")

TypeOK ==
  /\ setup \in Setups /\ aborted \in BOOLEAN
  /\ \A d \in Domain :
       /\ \A n \in DOMAIN view[d] :
            /\ n \in Tag
            /\ \A i \in DOMAIN view[d][n] :
                 view[d][n][i].to \in Tag \ {n} /\ view[d][n][i].b \in Int \ {0}
       /\ ops[d] \in 0 .. setup.ops /\ Len(sent[d]) <= 2
       /\ exempt[d] \in SUBSET Tag /\ coarsened[d] \in SUBSET Tag
       /\ refined[d] \in SUBSET Tag /\ shortSegs[d] \subseteq SUBSET Tag

(* No domain has called Fatal, and in its view the two ends of every       *)
(* segment with a native end are known and agree, at every moment: neither *)
(* its own operations nor the replayed ones change one end only, whatever  *)
(* the others have done in the meantime.                                   *)
ViewSymmetric ==
  /\ ~aborted
  /\ \A d \in Domain : \A n \in NativeIn(view[d], d) : \A i \in DOMAIN view[d][n] :
       LET m == view[d][n][i].to IN
         /\ m \in DOMAIN view[d]
         /\ NetBurg(view[d], n, m) = -NetBurg(view[d], m, n)

(* When all have replayed all operations, the owners of the two ends of    *)
(* every segment agree about it, and no arm leads to a node that is gone.  *)
LinkSymmetry ==
  Settled => \A n \in Native : \A i \in DOMAIN OwnArms(n) :
    LET m == OwnArms(n)[i].to IN
      /\ m \in Native
      /\ NetBurg(view[Owner(n)], n, m) = -NetBurg(view[Owner(m)], m, n)

(* The Burgers vector is conserved at every node when all have replayed    *)
(* all operations and removed the double links (CheckBurgConservation).    *)
BurgersConserved ==
  Settled => \A n \in Native : BurgTotal(view[Owner(n)], n) = 0

(* Between two operations no native node has two arms to one neighbour:    *)
(* what SplitNode and MergeNode rely on when they look up an arm by its    *)
(* neighbour.                                                              *)
NoDoubleLinks ==
  \A d \in Domain : \A n \in NativeIn(view[d], d) : DoubledNbrs(view[d], n) = <<>>

(* The views of the domains fit together: in one domain at every moment,   *)
(* between domains when all have replayed all operations, and never with   *)
(* two arms between two nodes.                                             *)
ViewsFit == ViewSymmetric /\ LinkSymmetry /\ NoDoubleLinks
=============================================================================
