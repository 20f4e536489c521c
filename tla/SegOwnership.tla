----------------------------- MODULE SegOwnership -----------------------------
(***************************************************************************)
(* Who may change a segment: DomainOwnsSeg, CollisionNodeOrder and         *)
(* OrderNodes of Util.cc.  A tag is <<domain, index>>.  The parity of the  *)
(* timestep (home->cycle) reverses the ownership of the segments that      *)
(* cross domains, and the two classes of operations reverse it again.      *)
(*                                                                         *)
(* Mutants (see the README): EndsOwn.                                      *)
(***************************************************************************)
EXTENDS Integers

OpClass == {"separation", "collision", "remesh"}
Odd(cycle) == cycle % 2 = 1

(* The higher of the two domains owns a crossing segment.                  *)
HigherOwns(class, cycle) ==
  IF class = "remesh" THEN ~Odd(cycle) ELSE Odd(cycle)

EndsOwn(class, cycle, thisDomain, endDomain) == TRUE
DomainOwnsSeg(class, cycle, thisDomain, endDomain) ==
  \/ thisDomain = endDomain
  \/ IF HigherOwns(class, cycle) THEN thisDomain > endDomain
                                 ELSE thisDomain < endDomain

OrderNodes(a, b) ==
  CASE a[1] < b[1] -> -1
    [] a[1] > b[1] -> 1
    [] OTHER -> IF a[2] < b[2] THEN -1 ELSE IF a[2] > b[2] THEN 1 ELSE 0

CollisionNodeOrder(cycle, a, b) ==
  IF a[1] = b[1] THEN OrderNodes(a, b)
  ELSE IF Odd(cycle) THEN -OrderNodes(a, b)
  ELSE OrderNodes(a, b)
=============================================================================
