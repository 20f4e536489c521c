------------------------- MODULE GhostExchangeProofs -------------------------
(***************************************************************************)
(* The exchange of ghosts gives every domain one copy of each node it      *)
(* needs, under the tag the owner gives it now, and arms that lead there,  *)
(* for any cells, domains, nodes, segments and any local indices before    *)
(* the compression, and in every order of domains and messages.            *)
(*                                                                         *)
(* The argument names a node's tag before (Old) and after (New) its        *)
(* owner's compression.  Both are fixed when the exchange begins, no new   *)
(* tag is the old tag of another node, and everything a domain knows,      *)
(* sends or receives is said with them: which nodes it holds, and that it  *)
(* holds them under their new tags, with arms that have old ones.          *)
(***************************************************************************)
EXTENDS GhostExchange, TLAPS, FiniteSetTheorems, WellFoundedInduction
-----------------------------------------------------------------------------
(* The invariant; i are the local indices before the exchange.             *)
MovesOf(i, d)  == Moves(d, {i[n] : n \in Own(d)}, MaxIndex + 1)
Old(i, n)      == <<Owner[n], i[n]>>
New(i, n)      == NewTagOf(MovesOf(i, Owner[n]), Old(i, n))
Top(i, d)      == (MaxIndex + 1) - Cardinality(MovesOf(i, d))
OldArms(i, n)  == [m \in Nbrs(n) |-> Old(i, m)]
Pairs(i, S)    == {[old |-> Old(i, n), new |-> New(i, n)] :
                     n \in {m \in S : New(i, m) # Old(i, m)}}

(* The ghosts of a domain, and what it knows before it asks for more.      *)
Seen(d)        == {n \in Node : Owner[n] # d /\ CellOf[n] \in CellList(d)}
InReach(d)     == Own(d) \cup Seen(d)
KindOf(d, n)   == IF n \in Own(d) THEN "native"
                  ELSE IF n \in Seen(d) THEN "ghost" ELSE "secondary"
Exported(e, d) == {n \in Own(e) : CellOf[n] \in ExpCells(e, d)}

Held(d) == {keys[d][t].node : t \in DOMAIN keys[d]}
ArmsNow(i, d, n) ==
  IF pc[d] = "done"
  THEN [m \in Nbrs(n) |-> IF m \in Held(d) THEN New(i, m) ELSE Old(i, m)]
  ELSE OldArms(i, n)

(* Before the compression a domain knows its own nodes by their old tags.  *)
SortedInv(i, d) ==
  pc[d] = "sorted" =>
    /\ DOMAIN keys[d] = {Old(i, n) : n \in Own(d)}
    /\ \A n \in Own(d) : keys[d][Old(i, n)] =
         [node |-> n, arms |-> OldArms(i, n), kind |-> "native"]
    /\ limit[d] = [e \in Domain |-> IF d = e THEN MaxIndex + 1 ELSE 0]
    /\ tagMap[d] = {} /\ ghostCount[d] = 0

(* After it every node is under its new tag, inside the table of tags.     *)
KeysInv(i, d) ==
  pc[d] # "sorted" =>
    /\ Held(d) \subseteq Node
    /\ DOMAIN keys[d] = {New(i, n) : n \in Held(d)}
    /\ \A n \in Held(d) : keys[d][New(i, n)] =
         [node |-> n, arms |-> ArmsNow(i, d, n), kind |-> KindOf(d, n)]
    /\ \A n \in Held(d) : New(i, n)[2] < limit[d][Owner[n]]
    /\ limit[d] \in [Domain -> 0 .. MaxIndex + 1]
    /\ tagMap[d] = IF pc[d] = "done" THEN {} ELSE Pairs(i, Held(d))
    /\ ghostCount[d] = Cardinality(Held(d) \ Own(d))

(* Which nodes these are.                                                  *)
HeldInv(i, d) ==
  /\ pc[d] = "ghosts" => Held(d) = Own(d)
  /\ pc[d] \in {"scan", "reduce", "requests"} => Held(d) = InReach(d)
  /\ pc[d] \in {"responses", "done"} => InReach(d) \subseteq Held(d)
  /\ pc[d] = "done" => \A g \in Seen(d) : Nbrs(g) \subseteq Held(d)

(* What was missing has been asked for, of a domain that has it; the       *)
(* answers already processed have been taken over.                         *)
Asked == {"reduce", "requests", "responses"}
AskedInv(i, d) ==
  /\ pc[d] \in Asked => \A g \in Seen(d) : \A m \in Nbrs(g) :
       \/ m \in Held(d)
       \/ Owner[g] \in DOMAIN reqBuf[d] /\ Old(i, m) \in reqBuf[d][Owner[g]]
  /\ DOMAIN reqBuf[d] \subseteq RemoteDomains(d)
  /\ \A e \in DOMAIN reqBuf[d] : reqBuf[d][e] \subseteq {Old(i, m) : m \in InReach(e)}
  /\ answered[d] \subseteq DOMAIN ReqDomList(d)
  /\ pc[d] # "responses" => answered[d] = {}
  /\ \A k \in answered[d] : \A m \in Node :
       Old(i, m) \in reqBuf[d][ReqDomList(d)[k]] => m \in Held(d)
StatusInv(d) ==
  pc[d] = "responses" =>
    /\ DOMAIN inStatus[d] = DOMAIN ReqDomList(d)
    /\ \A k \in DOMAIN ReqDomList(d) : k > 1 => inStatus[d][k] = ReqDomList(d)[k]

(* The messages.                                                           *)
GhostBufInv(i, e, d) ==
  ghostBuf[<<e, d>>] # None =>
    /\ pc[e] # "sorted" /\ d \in RemoteDomains(e)
    /\ ghostBuf[<<e, d>>] =
         [limit |-> Top(i, e), cells |-> ExpCells(e, d),
          nodes |-> ghostBuf[<<e, d>>].nodes, maps |-> Pairs(i, Exported(e, d))]
    /\ DOMAIN ghostBuf[<<e, d>>].nodes = {New(i, n) : n \in Exported(e, d)}
    /\ \A n \in Exported(e, d) : ghostBuf[<<e, d>>].nodes[New(i, n)] =
         [node |-> n, arms |-> OldArms(i, n), kind |-> "native"]
HasAsked == {"requests", "responses", "done"}
RequestInv(d, e) ==
  request[<<d, e>>] # None =>
    /\ pc[d] \in HasAsked /\ e \in DOMAIN reqBuf[d]
    /\ request[<<d, e>>] = [tags |-> reqBuf[d][e]]
AnswerFor(i, m) ==
  [old |-> Old(i, m), new |-> New(i, m), node |-> m, arms |-> OldArms(i, m)]
AnswersTo(i, tags) == {AnswerFor(i, m) : m \in {n \in Node : Old(i, n) \in tags}}
ResponseInv(i, e, d) ==
  response[<<e, d>>] # None =>
    /\ pc[d] \in HasAsked /\ e \in DOMAIN reqBuf[d]
    /\ response[<<e, d>>] = [nodes |-> AnswersTo(i, reqBuf[d][e])]
SlotsInv(d) ==
  /\ slots[d] \in Seq(Domain)
  /\ \A k \in DOMAIN slots[d] : request[<<slots[d][k], d>>] # None

LocalInv(i, d) ==
  /\ SortedInv(i, d) /\ KeysInv(i, d) /\ HeldInv(i, d)
  /\ AskedInv(i, d) /\ StatusInv(d)
PairInv(i, d, e) ==
  GhostBufInv(i, e, d) /\ RequestInv(d, e) /\ ResponseInv(i, e, d)
Shape ==
  /\ pc \in [Domain -> Place \ {"fatal"}]
  /\ DOMAIN keys = Domain /\ DOMAIN limit = Domain /\ DOMAIN tagMap = Domain
  /\ DOMAIN ghostCount = Domain /\ DOMAIN reqBuf = Domain /\ DOMAIN slots = Domain
  /\ DOMAIN inStatus = Domain /\ DOMAIN answered = Domain
  /\ DOMAIN request = Pair /\ DOMAIN response = Pair /\ DOMAIN ghostBuf = Pair
Inv(i) ==
  /\ Shape
  /\ \A d \in Domain : LocalInv(i, d) /\ SlotsInv(d)
  /\ \A d \in Domain : \A e \in Domain : PairInv(i, d, e)

ExchangeInv == \E i \in Indices : Inv(i)
-----------------------------------------------------------------------------
(* A set of natural numbers has a least element.                           *)
LEMMA LeastNumber ==
  ASSUME NEW S, S \subseteq Nat, S # {}
  PROVE  \E n \in S : \A m \in S : n <= m
<1> DEFINE R == OpToRel(<, Nat)
<1>1. IsWellFoundedOn(R, Nat)
  BY NatLessThanWellFounded
<1>2. \A m \in Nat : \A k \in Nat : m < k => <<m, k>> \in R
  BY DEF OpToRel
<1> HIDE DEF R
<1>3. PICK n \in S : \A m \in S : ~(<<m, n>> \in R)
  BY <1>1, WFMin
<1>4. ASSUME NEW m \in S PROVE n <= m
  <2>1. m \in Nat /\ n \in Nat /\ ~(<<m, n>> \in R)
    BY <1>3
  <2>2. ~(m < n)
    BY <1>2, <2>1
  <2> QED BY <2>1, <2>2
<1> QED BY <1>4

(* A finite set of numbers can be enumerated in ascending order: if not,   *)
(* take a smallest set that cannot, and put its least number before an     *)
(* enumeration of the others.                                              *)
LEMMA AscendingExists ==
  ASSUME NEW S \in SUBSET Nat, IsFiniteSet(S)
  PROVE  \E q \in [1 .. Cardinality(S) -> S] :
           \A j, k \in DOMAIN q : j < k => q[j] < q[k]
<1> DEFINE Good(T) == \E q \in [1 .. Cardinality(T) -> T] :
                        \A j, k \in DOMAIN q : j < k => q[j] < q[k]
           Bad == {c \in Nat : \E T \in SUBSET Nat :
                     IsFiniteSet(T) /\ Cardinality(T) = c /\ ~Good(T)}
<1> SUFFICES Good(S)
  OBVIOUS
<1> SUFFICES ASSUME ~Good(S) PROVE FALSE
  OBVIOUS
<1>1. Cardinality(S) \in Bad
  BY FS_CardinalityType
<1>2. PICK c \in Bad : \A b \in Bad : c <= b
  <2> HIDE DEF Bad
  <2>1. Bad \subseteq Nat
    BY DEF Bad
  <2> QED BY <1>1, <2>1, LeastNumber
<1>3. PICK T \in SUBSET Nat : IsFiniteSet(T) /\ Cardinality(T) = c /\ ~Good(T)
  BY <1>2
<1>4. c \in Nat
  BY <1>2
<1>5. T # {}
  <2> SUFFICES ASSUME T = {} PROVE Good(T)
    BY <1>3
  <2>1. Cardinality(T) = 0
    BY FS_EmptySet
  <2>2. 1 .. Cardinality(T) = {}
    BY <2>1
  <2> DEFINE q == [k \in {} |-> 0]
  <2>3. q \in [{} -> T] /\ DOMAIN q = {}
    OBVIOUS
  <2> QED BY <2>2, <2>3
<1>6. PICK m \in T : \A n \in T : m <= n
  BY <1>5, LeastNumber
<1> DEFINE U == T \ {m}
<1>7. IsFiniteSet(U) /\ Cardinality(U) = c - 1 /\ Cardinality(U) \in Nat
  BY <1>3, <1>6, FS_RemoveElement, FS_CardinalityType
<1>8. c - 1 \notin Bad
  BY <1>2, <1>4
<1>9. Good(U)
  <2> HIDE DEF Good
  <2>1. U \in SUBSET Nat
    OBVIOUS
  <2> QED BY <1>7, <1>8, <2>1
<1>10. PICK p \in [1 .. c - 1 -> U] :
         \A j, k \in 1 .. c - 1 : j < k => p[j] < p[k]
  BY <1>7, <1>9
<1> DEFINE q == [k \in 1 .. c |-> IF k = 1 THEN m ELSE p[k - 1]]
<1> HIDE DEF Good, Bad
<1>11. \A k \in 1 .. c : k # 1 => k - 1 \in 1 .. c - 1
  BY <1>4
<1>12. q \in [1 .. c -> T]
  BY <1>10, <1>11
<1>13. ASSUME NEW j \in 1 .. c, NEW k \in 1 .. c, j < k PROVE q[j] < q[k]
  <2>1. k # 1 /\ q[k] = p[k - 1] /\ p[k - 1] \in U
    BY <1>4, <1>10, <1>11, <1>13
  <2>2. CASE j = 1
    <3>1. q[j] = m /\ m <= q[k] /\ q[k] # m
      BY <1>6, <2>1, <2>2
    <3>2. m \in Nat /\ q[k] \in Nat
      BY <1>6, <2>1
    <3> HIDE DEF q
    <3> QED BY <3>1, <3>2
  <2>3. CASE j # 1
    <3>1. j - 1 < k - 1
      BY <1>13
    <3>2. q[j] = p[j - 1] /\ j - 1 \in 1 .. c - 1 /\ k - 1 \in 1 .. c - 1
      BY <1>11, <2>1, <2>3
    <3>3. p[j - 1] < p[k - 1]
      BY <1>10, <3>1, <3>2
    <3> QED BY <2>1, <3>2, <3>3
  <2> QED BY <2>2, <2>3
<1>14. Good(T)
  BY <1>3, <1>12, <1>13 DEF Good
<1> QED BY <1>3, <1>14

(* A finite set of numbers is listed in ascending order, each number once. *)
LEMMA AscendingLists ==
  ASSUME NEW S \in SUBSET Nat, IsFiniteSet(S)
  PROVE  /\ Cardinality(S) \in Nat
         /\ Ascending(S) \in [1 .. Cardinality(S) -> S]
         /\ \A j, k \in 1 .. Cardinality(S) : j < k => Ascending(S)[j] < Ascending(S)[k]
<1>1. Cardinality(S) \in Nat
  BY FS_CardinalityType
<1> QED BY <1>1, AscendingExists DEF Ascending

(* ... and in descending order, so that every number of it is reached, and *)
(* the k-th of them is at least k - 1 below the largest possible one.      *)
LEMMA DescendingLists ==
  ASSUME NEW top \in Nat, NEW S \in SUBSET (0 .. top - 1)
  PROVE  /\ IsFiniteSet(S) /\ Cardinality(S) \in Nat
         /\ Descending(S) \in [1 .. Cardinality(S) -> S]
         /\ \A j, k \in 1 .. Cardinality(S) : j < k => Descending(S)[j] > Descending(S)[k]
         /\ \A u \in S : \E k \in 1 .. Cardinality(S) : Descending(S)[k] = u
         /\ \A k \in 1 .. Cardinality(S) : Descending(S)[k] <= top - k
<1> DEFINE c == Cardinality(S)
           a == Ascending(S)
           q == [k \in 1 .. c |-> a[c + 1 - k]]
           s == Descending(S)
<1>1. IsFiniteSet(S)
  <2>1. IsFiniteSet(0 .. top - 1)
    BY FS_Interval
  <2> QED BY <2>1, FS_Subset
<1>2. S \in SUBSET Nat
  OBVIOUS
<1>3. c \in Nat /\ a \in [1 .. c -> S] /\ \A j, k \in 1 .. c : j < k => a[j] < a[k]
  BY <1>1, <1>2, AscendingLists
<1> HIDE DEF a
<1>4. q \in [1 .. c -> S] /\ \A j, k \in 1 .. c : j < k => q[j] > q[k]
  <2> HIDE DEF c
  <2>1. \A k \in 1 .. c : c + 1 - k \in 1 .. c
    BY <1>3
  <2>2. q \in [1 .. c -> S]
    BY <1>3, <2>1
  <2>3. ASSUME NEW j \in 1 .. c, NEW k \in 1 .. c, j < k PROVE q[j] > q[k]
    <3>1. c + 1 - k < c + 1 - j
      BY <1>3, <2>3
    <3>2. a[c + 1 - k] < a[c + 1 - j]
      BY <1>3, <2>1, <3>1
    <3>3. a[c + 1 - k] \in Nat /\ a[c + 1 - j] \in Nat
      BY <1>3, <1>2, <2>1
    <3> QED BY <3>2, <3>3
  <2> QED BY <2>2, <2>3
<1>5. s \in [1 .. c -> S] /\ \A j, k \in 1 .. c : j < k => s[j] > s[k]
  <2>1. \E p \in [1 .. c -> S] : \A j, k \in DOMAIN p : j < k => p[j] > p[k]
    <3> HIDE DEF q
    <3>1. DOMAIN q = 1 .. c
      BY <1>4
    <3> QED BY <1>4, <3>1
  <2> QED BY <2>1 DEF Descending
<1> HIDE DEF s, q
<1>6. \A j, k \in 1 .. c : s[j] = s[k] => j = k
  <2> SUFFICES ASSUME NEW j \in 1 .. c, NEW k \in 1 .. c, s[j] = s[k], j # k PROVE FALSE
    OBVIOUS
  <2>1. s[j] \in Nat /\ s[k] \in Nat
    BY <1>2, <1>5
  <2>2. j < k \/ k < j
    BY <1>3
  <2> HIDE DEF c
  <2> QED BY <1>5, <2>1, <2>2
<1>7. s \in Injection(1 .. c, S)
  BY <1>5, <1>6 DEF Injection, IsInjective
<1>8. s \in Surjection(1 .. c, S)
  <2>1. Cardinality(1 .. c) = c
    BY <1>3, FS_Interval
  <2> QED BY <1>1, <1>7, <2>1, FS_Injection
<1>9. ASSUME NEW k \in 1 .. c PROVE s[k] <= top - k
  <2> DEFINE above == s[k] + 1 .. top - 1
             before == 1 .. k - 1
             r == [j \in before |-> s[j]]
  <2>1. s[k] \in Nat /\ s[k] <= top - 1 /\ k \in Nat /\ k >= 1
    <3> HIDE DEF c
    <3>1. s[k] \in S /\ k \in Nat /\ k >= 1
      BY <1>3, <1>5
    <3>2. s[k] \in 0 .. top - 1
      BY <3>1
    <3> QED BY <3>1, <3>2
  <2>2. \A j \in before : j \in 1 .. c /\ s[j] \in above
    <3> TAKE j \in before
    <3>1. j \in 1 .. c /\ j < k
      BY <1>3, <2>1
    <3>2. s[j] > s[k] /\ s[j] \in 0 .. top - 1
      BY <1>5, <3>1
    <3> QED BY <2>1, <3>1, <3>2
  <2>3. r \in Injection(before, above)
    <3>1. r \in [before -> above]
      BY <2>2
    <3>2. \A x, y \in before : r[x] = r[y] => x = y
      BY <1>6, <2>2
    <3> QED BY <3>1, <3>2 DEF Injection, IsInjective
  <2>4. /\ IsFiniteSet(above)
        /\ Cardinality(above) = IF s[k] + 1 > top - 1 THEN 0 ELSE top - 1 - (s[k] + 1) + 1
    <3>1. s[k] + 1 \in Int /\ top - 1 \in Int
      BY <2>1
    <3> QED BY <3>1, FS_Interval
  <2>5. Cardinality(before) = k - 1
    <3>1. Cardinality(1 .. k - 1) = IF 1 > k - 1 THEN 0 ELSE (k - 1) - 1 + 1
      BY <2>1, FS_Interval
    <3> QED BY <2>1, <3>1
  <2>6. Cardinality(before) <= Cardinality(above)
    BY <2>3, <2>4, FS_Injection
  <2> HIDE DEF above, before
  <2> QED BY <2>1, <2>4, <2>5, <2>6
<1>10. \A u \in S : \E k \in 1 .. c : s[k] = u
  BY <1>8 DEF Surjection
<1> HIDE DEF c
<1> QED BY <1>1, <1>3, <1>5, <1>9, <1>10 DEF s, c

(* The moves of a compression: the highest indices go to free ones below   *)
(* them, each to another, and what remains is below the new extent.        *)
LEMMA MovesFacts ==
  ASSUME NEW d, NEW top \in Nat, NEW S \in SUBSET (0 .. top - 1)
  PROVE  /\ \A p \in Moves(d, S, top) : \E u \in S : \E f \in (0 .. top - 1) \ S :
              p = [old |-> <<d, u>>, new |-> <<d, f>>] /\ f < u
         /\ \A p, q \in Moves(d, S, top) : p.old = q.old \/ p.new = q.new => p = q
         /\ IsFiniteSet(Moves(d, S, top))
         /\ Cardinality(Moves(d, S, top)) \in 0 .. top
         /\ \A u \in S : (\A p \in Moves(d, S, top) : p.old # <<d, u>>)
                           => u < top - Cardinality(Moves(d, S, top))
         /\ \A p \in Moves(d, S, top) : p.new[2] < top - Cardinality(Moves(d, S, top))
<1> DEFINE F == (0 .. top - 1) \ S
           used == Descending(S)
           free == Ascending(F)
           c == Cardinality(S)
           b == Cardinality(F)
           K == MoveCount(used, free)
           M == Moves(d, S, top)
           mv(k) == [old |-> <<d, used[k]>>, new |-> <<d, free[k]>>]
<1>1. /\ IsFiniteSet(S) /\ c \in Nat /\ used \in [1 .. c -> S]
      /\ \A j, k \in 1 .. c : j < k => used[j] > used[k]
      /\ \A u \in S : \E k \in 1 .. c : used[k] = u
      /\ \A k \in 1 .. c : used[k] <= top - k
  BY DescendingLists
<1>2. /\ b \in Nat /\ free \in [1 .. b -> F]
      /\ \A j, k \in 1 .. b : j < k => free[j] < free[k]
  <2>1. IsFiniteSet(F)
    <3>1. IsFiniteSet(0 .. top - 1) /\ F \in SUBSET (0 .. top - 1)
      BY FS_Interval
    <3> QED BY <3>1, FS_Subset
  <2>2. F \in SUBSET Nat
    OBVIOUS
  <2> HIDE DEF F
  <2> QED BY <2>1, <2>2, AscendingLists
<1>3. M = {mv(k) : k \in K}
  BY DEF Moves
<1>4. K = {k \in (1 .. c) \cap (1 .. b) : free[k] < used[k]}
  BY <1>1, <1>2 DEF MoveCount
<1>0. (\A x \in S : x \in Nat) /\ (\A x \in F : x \in Nat)
  OBVIOUS
<1> HIDE DEF used, free, K, M, c, b, F
<1>5. \A k \in K : /\ k \in 1 .. c /\ k \in 1 .. b /\ used[k] \in S /\ free[k] \in F
                   /\ free[k] < used[k] /\ used[k] \in Nat /\ free[k] \in Nat
                   /\ k \in Nat
  <2> TAKE k \in K
  <2>1. k \in 1 .. c /\ k \in 1 .. b /\ free[k] < used[k] /\ k \in Nat
    BY <1>4
  <2>2. used[k] \in S /\ free[k] \in F
    BY <1>1, <1>2, <2>1
  <2>3. used[k] \in Nat /\ free[k] \in Nat
    BY <1>0, <2>2
  <2> QED BY <2>1, <2>2, <2>3
<1>6. \A j, k \in K : used[j] = used[k] \/ free[j] = free[k] => j = k
  <2> SUFFICES ASSUME NEW j \in K, NEW k \in K, j # k
               PROVE  used[j] # used[k] /\ free[j] # free[k]
    OBVIOUS
  <2>1. j \in 1 .. c /\ k \in 1 .. c /\ j \in 1 .. b /\ k \in 1 .. b
    BY <1>5
  <2>2. CASE j < k
    <3>1. used[j] > used[k] /\ free[j] < free[k]
      BY <1>1, <1>2, <2>1, <2>2
    <3> QED BY <1>5, <3>1
  <2>3. CASE k < j
    <3>1. used[k] > used[j] /\ free[k] < free[j]
      BY <1>1, <1>2, <2>1, <2>3
    <3> QED BY <1>5, <3>1
  <2>4. j < k \/ k < j
    BY <1>5
  <2> QED BY <2>2, <2>3, <2>4
<1>7. \A p \in M : \E k \in K : p = mv(k)
  BY <1>3
<1>8. \A p \in M : \E u \in S : \E f \in F : p = [old |-> <<d, u>>, new |-> <<d, f>>] /\ f < u
  <2> TAKE p \in M
  <2>1. PICK k \in K : p = mv(k)
    BY <1>7
  <2> QED BY <1>5, <2>1
<1>9. \A p, q \in M : p.old = q.old \/ p.new = q.new => p = q
  <2> SUFFICES ASSUME NEW p \in M, NEW q \in M, p.old = q.old \/ p.new = q.new
               PROVE  p = q
    OBVIOUS
  <2>1. PICK j \in K : p = mv(j)
    BY <1>7
  <2>2. PICK k \in K : q = mv(k)
    BY <1>7
  <2>3. used[j] = used[k] \/ free[j] = free[k]
    BY <2>1, <2>2
  <2> QED BY <1>6, <2>1, <2>2, <2>3
<1>10. \A k \in K : \A j \in 1 .. k : j \in K
  <2> TAKE k \in K
  <2> TAKE j \in 1 .. k
  <2>1. j \in 1 .. c /\ j \in 1 .. b /\ k \in 1 .. c /\ k \in 1 .. b
    BY <1>1, <1>2, <1>5
  <2>2. used[j] \in Nat /\ free[j] \in Nat /\ used[k] \in Nat /\ free[k] \in Nat
    <3>1. used[j] \in S /\ free[j] \in F
      BY <1>1, <1>2, <2>1
    <3>2. used[j] \in Nat /\ free[j] \in Nat
      BY <1>0, <3>1
    <3> QED BY <1>5, <3>2
  <2>3. CASE j = k
    BY <2>3
  <2>4. CASE j < k
    <3>1. free[j] < free[k] /\ used[j] > used[k] /\ free[k] < used[k]
      BY <1>1, <1>2, <1>5, <2>1, <2>4
    <3>2. free[j] < used[j]
      BY <2>2, <3>1
    <3> QED BY <1>4, <2>1, <3>2
  <2> QED BY <2>1, <2>3, <2>4
<1> DEFINE e == Cardinality(K)
<1>11. IsFiniteSet(K) /\ e \in Nat /\ e <= c
  <2>1. K \in SUBSET (1 .. c)
    BY <1>5
  <2>2. IsFiniteSet(1 .. c) /\ Cardinality(1 .. c) = c
    BY <1>1, FS_Interval
  <2>3. IsFiniteSet(K) /\ Cardinality(K) <= c
    BY <2>1, <2>2, FS_Subset
  <2> QED BY <2>3, FS_CardinalityType
<1>12. K = 1 .. e
  <2>1. CASE K = {}
    <3>1. e = 0
      BY <2>1, FS_EmptySet
    <3> HIDE DEF e
    <3> QED BY <2>1, <3>1
  <2>2. CASE K # {}
    <3> DEFINE R == {c - k : k \in K}
    <3>1. R \subseteq Nat /\ R # {}
      BY <1>1, <1>5, <2>2
    <3>2. PICK r \in R : \A x \in R : r <= x
      BY <3>1, LeastNumber
    <3>3. PICK k \in K : r = c - k
      BY <3>2
    <3>4. \A j \in K : j <= k
      <4> TAKE j \in K
      <4>1. c - k <= c - j
        BY <3>2, <3>3
      <4> QED BY <1>1, <1>5, <4>1
    <3>5. K = 1 .. k
      <4>1. \A j \in K : j \in Nat /\ j >= 1 /\ j <= k
        BY <1>5, <3>4
      <4>2. k \in Nat /\ \A j \in 1 .. k : j \in K
        BY <1>5, <1>10
      <4>3. \A j \in K : j \in 1 .. k
        BY <4>1, <4>2
      <4> QED BY <4>2, <4>3
    <3>6. Cardinality(1 .. k) = k
      BY <1>5, FS_Interval
    <3> QED BY <3>5, <3>6
  <2> QED BY <2>1, <2>2
<1>13. IsFiniteSet(M) /\ Cardinality(M) = e
  <2> DEFINE g == [k \in K |-> mv(k)]
  <2>1. g \in [K -> M]
    BY <1>3
  <2>2. \A j, k \in K : g[j] = g[k] => j = k
    <3> TAKE j, k \in K
    <3> HAVE g[j] = g[k]
    <3>1. mv(j).old = mv(k).old
      OBVIOUS
    <3>2. used[j] = used[k]
      BY <3>1
    <3> QED BY <1>6, <3>2
  <2>3. \A p \in M : \E k \in K : g[k] = p
    BY <1>7
  <2> HIDE DEF g
  <2>4. g \in Bijection(K, M)
    BY <2>1, <2>2, <2>3 DEF Bijection, Injection, Surjection, IsInjective
  <2> QED BY <1>11, <2>4, FS_Bijection DEF ExistsBijection
<1> HIDE DEF e
<1>14. \A k \in K : k <= e
  BY <1>12, <1>11
<1>15. e <= top
  <2>1. CASE e = 0
    BY <2>1
  <2>2. CASE e # 0
    <3>1. e \in K
      BY <1>11, <1>12, <2>2
    <3>2. used[e] <= top - e /\ used[e] \in Nat
      BY <1>1, <1>5, <3>1
    <3> QED BY <1>11, <3>2
  <2> QED BY <2>1, <2>2
<1>16. ASSUME NEW u \in S, \A p \in M : p.old # <<d, u>> PROVE u < top - e
  <2>1. PICK k \in 1 .. c : used[k] = u
    BY <1>1
  <2>2. k \notin K
    <3> SUFFICES ASSUME k \in K PROVE FALSE
      OBVIOUS
    <3>1. mv(k) \in M /\ mv(k).old = <<d, u>>
      BY <1>3, <2>1
    <3> QED BY <1>16, <3>1
  <2>3. k > e /\ used[k] <= top - k
    BY <1>1, <1>11, <1>12, <2>2
  <2> QED BY <1>11, <2>1, <2>3
<1>17. ASSUME NEW p \in M PROVE p.new[2] < top - e
  <2>1. PICK k \in K : p = mv(k)
    BY <1>7
  <2>2. p.new[2] = free[k]
    BY <2>1
  <2>3. e \in K /\ k <= e /\ free[k] \in Nat /\ free[e] \in Nat
    BY <1>5, <1>11, <1>12
  <2>4. free[k] <= free[e]
    <3>1. CASE k = e
      BY <2>3, <3>1
    <3>2. CASE k < e
      BY <1>2, <1>5, <2>3, <3>2
    <3> QED BY <1>5, <1>11, <2>3, <3>1, <3>2
  <2>5. free[e] < used[e] /\ used[e] <= top - e /\ used[e] \in Nat
    BY <1>1, <1>5, <2>3
  <2> QED BY <1>11, <2>2, <2>3, <2>4, <2>5
<1>18. e \in 0 .. top /\ Cardinality(M) \in 0 .. top /\ IsFiniteSet(M)
  BY <1>11, <1>13, <1>15
<1>19. /\ \A u \in S : (\A p \in M : p.old # <<d, u>>) => u < top - Cardinality(M)
       /\ \A p \in M : p.new[2] < top - Cardinality(M)
  BY <1>13, <1>16, <1>17
<1> QED BY <1>8, <1>9, <1>18, <1>19 DEF M, F

-----------------------------------------------------------------------------
(* A tag before and after the compression of its owner.                    *)
LEMMA OwnIndices ==
  ASSUME NEW i \in Indices, NEW d
  PROVE  /\ i \in [Node -> 0 .. MaxIndex]
         /\ {i[n] : n \in Own(d)} \in SUBSET (0 .. (MaxIndex + 1) - 1)
         /\ MaxIndex + 1 \in Nat /\ MaxIndex \in Nat
<1>1. i \in [Node -> 0 .. MaxIndex] /\ MaxIndex \in Nat
  BY IndicesAssumption, FiniteAssumption
<1>2. (MaxIndex + 1) - 1 = MaxIndex
  BY <1>1
<1> QED BY <1>1, <1>2 DEF Own

LEMMA NewIs ==
  ASSUME NEW i \in Indices, NEW n \in Node
  PROVE  /\ Owner[n] \in Domain /\ i[n] \in 0 .. MaxIndex
         /\ \/ /\ New(i, n) = Old(i, n)
               /\ \A p \in MovesOf(i, Owner[n]) : p.old # Old(i, n)
            \/ /\ [old |-> Old(i, n), new |-> New(i, n)] \in MovesOf(i, Owner[n])
               /\ \E f \in 0 .. MaxIndex :
                    /\ New(i, n) = <<Owner[n], f>> /\ f < i[n]
                    /\ \A m \in Own(Owner[n]) : i[m] # f
         /\ New(i, n)[2] < Top(i, Owner[n])
<1> DEFINE d == Owner[n]
           S == {i[m] : m \in Own(d)}
           M == MovesOf(i, d)
           top == MaxIndex + 1
<1>1. S \in SUBSET (0 .. top - 1) /\ top \in Nat /\ i[n] \in S /\ i[n] \in 0 .. MaxIndex
      /\ d \in Domain /\ MaxIndex \in Nat
  BY OwnIndices, OwnerAssumption DEF Own
<1>2. M = Moves(d, S, top)
  BY DEF MovesOf
<1> HIDE DEF M
<1>3. /\ \A p \in M : \E u \in S : \E f \in (0 .. top - 1) \ S :
           p = [old |-> <<d, u>>, new |-> <<d, f>>] /\ f < u
      /\ \A p, q \in M : p.old = q.old \/ p.new = q.new => p = q
      /\ \A u \in S : (\A p \in M : p.old # <<d, u>>) => u < top - Cardinality(M)
      /\ \A p \in M : p.new[2] < top - Cardinality(M)
  <2> HIDE DEF S, d, top
  <2> QED BY <1>1, <1>2, MovesFacts
<1>4. Old(i, n) = <<d, i[n]>> /\ New(i, n) = NewTagOf(M, Old(i, n))
      /\ Top(i, d) = top - Cardinality(M)
  <2>1. Old(i, n) = <<d, i[n]>>
    BY DEF Old
  <2>2. New(i, n) = NewTagOf(M, Old(i, n))
    BY DEF New, M
  <2>3. Top(i, d) = top - Cardinality(M)
    BY DEF Top, M
  <2> QED BY <2>1, <2>2, <2>3
<1>5. CASE \A p \in M : p.old # Old(i, n)
  <2>1. New(i, n) = Old(i, n)
    BY <1>4, <1>5 DEF NewTagOf
  <2>2. New(i, n)[2] = i[n]
    BY <1>4, <2>1
  <2>3. i[n] < top - Cardinality(M)
    BY <1>1, <1>3, <1>4, <1>5
  <2> QED BY <1>1, <1>4, <1>5, <2>1, <2>2, <2>3 DEF M
<1>6. CASE \E p \in M : p.old = Old(i, n)
  <2>1. PICK p \in M : p.old = Old(i, n)
    BY <1>6
  <2>2. New(i, n) = p.new
    <3>1. New(i, n) = (CHOOSE q \in M : q.old = Old(i, n)).new
      BY <1>4, <1>6 DEF NewTagOf
    <3>2. (CHOOSE q \in M : q.old = Old(i, n)) = p
      BY <1>3, <2>1
    <3> QED BY <3>1, <3>2
  <2>3. PICK u \in S, f \in (0 .. top - 1) \ S :
          p = [old |-> <<d, u>>, new |-> <<d, f>>] /\ f < u
    BY <1>3
  <2>4. u = i[n] /\ New(i, n) = <<d, f>> /\ f < i[n]
    BY <1>4, <2>1, <2>2, <2>3
  <2>5. f \in 0 .. MaxIndex /\ \A m \in Own(d) : i[m] # f
    BY <1>1, <2>3
  <2>6. [old |-> Old(i, n), new |-> New(i, n)] \in M
    BY <2>1, <2>2, <2>3
  <2>7. New(i, n)[2] < top - Cardinality(M)
    BY <1>3, <2>2
  <2> QED BY <1>1, <1>4, <2>4, <2>5, <2>6, <2>7 DEF M
<1> QED BY <1>5, <1>6

LEMMA TagFacts ==
  ASSUME NEW i \in Indices
  PROVE  /\ \A n \in Node : /\ Old(i, n) \in Tag /\ New(i, n) \in Tag
                            /\ Old(i, n)[1] = Owner[n] /\ New(i, n)[1] = Owner[n]
                            /\ Owner[n] \in Domain /\ i[n] \in 0 .. MaxIndex
                            /\ New(i, n)[2] \in 0 .. MaxIndex
                            /\ New(i, n)[2] < Top(i, Owner[n])
                            /\ New(i, n) # Old(i, n) => New(i, n)[2] < Old(i, n)[2]
         /\ \A m, n \in Node : Old(i, m) = Old(i, n) => m = n
         /\ \A m, n \in Node : New(i, m) = Old(i, n) => m = n
         /\ \A m, n \in Node : New(i, m) = New(i, n) => m = n
<1>1. \A n \in Node : Owner[n] \in Domain /\ i[n] \in 0 .. MaxIndex
                      /\ New(i, n)[2] < Top(i, Owner[n])
  BY NewIs
<1>2. \A n \in Node : \E f \in 0 .. MaxIndex :
        /\ New(i, n) = <<Owner[n], f>>
        /\ New(i, n) # Old(i, n) => f < i[n] /\ \A m \in Own(Owner[n]) : i[m] # f
  BY NewIs DEF Old
<1>3. \A m, n \in Node : Old(i, m) = Old(i, n) => m = n
  BY IndicesAssumption DEF Old
<1>4. \A m, n \in Node : New(i, m) = Old(i, n) => m = n
  <2> TAKE m, n \in Node
  <2> HAVE New(i, m) = Old(i, n)
  <2>1. PICK f \in 0 .. MaxIndex :
          /\ New(i, m) = <<Owner[m], f>>
          /\ New(i, m) # Old(i, m) => f < i[m] /\ \A k \in Own(Owner[m]) : i[k] # f
    BY <1>2
  <2>2. Owner[n] = Owner[m] /\ i[n] = f
    BY <2>1 DEF Old
  <2>3. n \in Own(Owner[m])
    BY <2>2 DEF Own
  <2>4. New(i, m) = Old(i, m)
    BY <2>1, <2>2, <2>3
  <2> QED BY <1>3, <2>4
<1>5. \A m, n \in Node : New(i, m) = New(i, n) => m = n
  <2> TAKE m, n \in Node
  <2> HAVE New(i, m) = New(i, n)
  <2>1. CASE New(i, m) = Old(i, m)
    BY <1>4, <2>1
  <2>2. CASE New(i, n) = Old(i, n)
    BY <1>4, <2>2
  <2>3. CASE New(i, m) # Old(i, m) /\ New(i, n) # Old(i, n)
    <3> DEFINE p(k) == [old |-> Old(i, k), new |-> New(i, k)]
    <3>1. p(m) \in MovesOf(i, Owner[m]) /\ p(n) \in MovesOf(i, Owner[n])
      BY <2>3, NewIs
    <3>2. Owner[m] = Owner[n]
      BY <1>2
    <3>3. \A q, r \in MovesOf(i, Owner[n]) : q.new = r.new => q = r
      BY OwnIndices, MovesFacts DEF MovesOf
    <3>4. p(m) = p(n)
      BY <3>1, <3>2, <3>3
    <3> QED BY <1>3, <3>4
  <2> QED BY <2>1, <2>2, <2>3
<1>6. \A n \in Node : /\ Old(i, n) \in Tag /\ New(i, n) \in Tag
                      /\ Old(i, n)[1] = Owner[n] /\ New(i, n)[1] = Owner[n]
                      /\ New(i, n)[2] \in 0 .. MaxIndex
                      /\ New(i, n) # Old(i, n) => New(i, n)[2] < Old(i, n)[2]
  BY <1>1, <1>2 DEF Old, Tag
<1> QED BY <1>1, <1>3, <1>4, <1>5, <1>6

(* The extent a domain announces, and the moves in terms of the nodes.     *)
LEMMA MovesArePairs ==
  ASSUME NEW i \in Indices, NEW d \in Domain
  PROVE  /\ MovesOf(i, d) = Pairs(i, Own(d))
         /\ Cardinality(MovesOf(i, d)) \in Nat /\ Top(i, d) \in 0 .. MaxIndex + 1
<1> DEFINE S == {i[n] : n \in Own(d)}
           M == MovesOf(i, d)
<1>1. /\ \A p \in M : \E u \in S : \E f \in (0 .. (MaxIndex + 1) - 1) \ S :
           p = [old |-> <<d, u>>, new |-> <<d, f>>] /\ f < u
      /\ \A p, q \in M : p.old = q.old \/ p.new = q.new => p = q
      /\ Cardinality(M) \in 0 .. MaxIndex + 1
  <2>1. S \in SUBSET (0 .. (MaxIndex + 1) - 1) /\ MaxIndex + 1 \in Nat
    BY OwnIndices
  <2> HIDE DEF S
  <2>2. M = Moves(d, S, MaxIndex + 1)
    BY DEF MovesOf, S
  <2> HIDE DEF M
  <2> QED BY <2>1, <2>2, MovesFacts
<1> HIDE DEF M
<1>2. ASSUME NEW p \in M PROVE p \in Pairs(i, Own(d))
  <2>1. PICK u \in S, f \in (0 .. (MaxIndex + 1) - 1) \ S :
          p = [old |-> <<d, u>>, new |-> <<d, f>>] /\ f < u
    BY <1>1
  <2>2. PICK n \in Own(d) : u = i[n]
    BY <2>1
  <2>3. n \in Node /\ Owner[n] = d /\ p.old = Old(i, n)
    BY <2>1, <2>2 DEF Own, Old
  <2>4. [old |-> Old(i, n), new |-> New(i, n)] \in M /\ New(i, n) # Old(i, n)
    <3>1. \E q \in MovesOf(i, Owner[n]) : q.old = Old(i, n)
      BY <2>3 DEF M
    <3>2. PICK g \in 0 .. MaxIndex : New(i, n) = <<Owner[n], g>> /\ g < i[n]
      BY <2>3, <3>1, NewIs
    <3>3. New(i, n) # Old(i, n)
      BY <2>3, <3>2, NewIs DEF Old
    <3> QED BY <2>3, <3>1, <3>3, NewIs DEF M
  <2>5. p = [old |-> Old(i, n), new |-> New(i, n)]
    BY <1>1, <2>3, <2>4
  <2> QED BY <2>2, <2>4, <2>5 DEF Pairs
<1>3. ASSUME NEW p \in Pairs(i, Own(d)) PROVE p \in M
  <2>1. PICK n \in Own(d) : New(i, n) # Old(i, n) /\ p = [old |-> Old(i, n), new |-> New(i, n)]
    BY DEF Pairs
  <2>2. n \in Node /\ Owner[n] = d
    BY DEF Own
  <2> QED BY <2>1, <2>2, NewIs DEF M
<1>4. M = Pairs(i, Own(d))
  BY <1>2, <1>3
<1>5. Cardinality(M) \in Nat /\ (MaxIndex + 1) - Cardinality(M) \in 0 .. MaxIndex + 1
  BY <1>1, FiniteAssumption
<1> QED BY <1>4, <1>5 DEF M, Top

(* What the map of tags says of an old tag.                                *)
LEMMA PairsLookUp ==
  ASSUME NEW i \in Indices, NEW S \in SUBSET Node, NEW n \in Node
  PROVE  NewTagOf(Pairs(i, S), Old(i, n)) = IF n \in S THEN New(i, n) ELSE Old(i, n)
<1> DEFINE P == Pairs(i, S)
<1>1. \A p \in P : \E m \in S : /\ New(i, m) # Old(i, m)
                                /\ p = [old |-> Old(i, m), new |-> New(i, m)]
  BY DEF Pairs
<1>2. \A p \in P : p.old = Old(i, n) => n \in S /\ New(i, n) # Old(i, n) /\ p.new = New(i, n)
  BY <1>1, TagFacts
<1>3. CASE n \in S /\ New(i, n) # Old(i, n)
  <2>1. [old |-> Old(i, n), new |-> New(i, n)] \in P
    BY <1>3 DEF Pairs
  <2>2. \E p \in P : p.old = Old(i, n)
    BY <2>1
  <2> HIDE DEF P
  <2>3. (CHOOSE p \in P : p.old = Old(i, n)).new = New(i, n)
    BY <1>2, <2>2
  <2> QED BY <1>3, <2>2, <2>3 DEF NewTagOf, P
<1>4. CASE ~(n \in S /\ New(i, n) # Old(i, n))
  <2>1. ~ \E p \in P : p.old = Old(i, n)
    BY <1>2, <1>4
  <2>2. NewTagOf(P, Old(i, n)) = Old(i, n)
    BY <2>1 DEF NewTagOf
  <2> QED BY <1>4, <2>2
<1> QED BY <1>3, <1>4

LEMMA PairsGrow ==
  ASSUME NEW i, NEW S, NEW T
  PROVE  Pairs(i, S \cup T) = Pairs(i, S) \cup Pairs(i, T)
BY DEF Pairs
-----------------------------------------------------------------------------
(* Cells and neighbours.                                                   *)
LEMMA CellFacts ==
  ASSUME NEW d \in Domain
  PROVE  /\ \A n \in Own(d) : /\ n \in Node /\ Owner[n] = d
                              /\ CellOf[n] \in NativeCells[d] /\ CellOf[n] \in CellList(d)
         /\ NativeCells[d] \subseteq CellList(d)
         /\ \A e \in Domain \ {d} : ExpCells(e, d) = NativeCells[e] \cap CellList(d)
         /\ Own(d) \subseteq Node /\ Seen(d) \subseteq Node /\ InReach(d) \subseteq Node
<1>1. \A c \in NativeCells[d] : c \in CellList(d)
  BY DEF CellList, Around
<1>2. \A n \in Own(d) : n \in Node /\ Owner[n] = d /\ CellOf[n] \in NativeCells[d]
  BY OwnerAssumption DEF Own
<1>3. ASSUME NEW e \in Domain \ {d} PROVE ExpCells(e, d) = NativeCells[e] \cap CellList(d)
  <2>1. \A b, c : <<b, c>> \in Near <=> <<c, b>> \in Near
    BY NearAssumption
  <2>2. NativeCells[e] \subseteq Cell /\ NativeCells[d] \subseteq Cell
    BY OwnerAssumption
  <2>3. \A b, c \in Cell : b \in Around(c) <=> c \in Around(b)
    BY <2>1 DEF Around
  <2>4. \A c \in NativeCells[e] : Around(c) \cap NativeCells[d] # {} <=> c \in CellList(d)
    BY <2>2, <2>3 DEF CellList
  <2> QED BY <2>4 DEF ExpCells
<1> QED BY <1>1, <1>2, <1>3 DEF Own, Seen, InReach

LEMMA SeenFacts ==
  ASSUME NEW d \in Domain, NEW n \in Seen(d)
  PROVE  /\ n \in Node /\ Owner[n] \in RemoteDomains(d) /\ Owner[n] \in Domain
         /\ Owner[n] # d /\ n \notin Own(d)
         /\ n \in Exported(Owner[n], d)
<1>1. n \in Node /\ Owner[n] # d /\ CellOf[n] \in CellList(d) /\ Owner[n] \in Domain
      /\ CellOf[n] \in NativeCells[Owner[n]]
  BY OwnerAssumption DEF Seen
<1>2. Owner[n] \in RemoteDomains(d)
  BY <1>1 DEF RemoteDomains
<1>3. n \in Exported(Owner[n], d)
  BY <1>1, CellFacts DEF Exported, Own
<1> QED BY <1>1, <1>2, <1>3 DEF Own

LEMMA ExportedFacts ==
  ASSUME NEW d \in Domain, NEW e \in Domain \ {d}
  PROVE  /\ Exported(e, d) \subseteq Seen(d) /\ Exported(e, d) \subseteq Own(e)
         /\ ExpCells(e, d) \subseteq CellList(d)
<1>1. ExpCells(e, d) = NativeCells[e] \cap CellList(d)
  BY CellFacts
<1> QED BY <1>1 DEF Exported, Seen, Own

(* A neighbour of a node in a cell of d is in reach of d.                  *)
LEMMA NbrsInReach ==
  ASSUME NEW d \in Domain, NEW n \in Node, CellOf[n] \in NativeCells[d], NEW m \in Nbrs(n)
  PROVE  m \in InReach(d) /\ m \in Node
<1>1. m \in Node /\ {m, n} \in Link
  BY DEF Nbrs
<1>2. CellOf[m] = CellOf[n] \/ <<CellOf[m], CellOf[n]>> \in Near
  BY <1>1, LinkAssumption
<1>3. CellOf[m] \in Cell
  BY <1>1, OwnerAssumption
<1>4. CellOf[m] \in CellList(d)
  BY <1>2, <1>3 DEF CellList, Around
<1> QED BY <1>1, <1>4 DEF InReach, Own, Seen
-----------------------------------------------------------------------------
(* Lists and maxima.                                                       *)
LEMMA ListedFacts ==
  ASSUME NEW S, IsFiniteSet(S)
  PROVE  /\ Listed(S) \in [1 .. Cardinality(S) -> S] /\ Cardinality(S) \in Nat
         /\ DOMAIN Listed(S) = 1 .. Cardinality(S)
         /\ \A j, k \in DOMAIN Listed(S) : Listed(S)[j] = Listed(S)[k] => j = k
         /\ \A x \in S : \E k \in DOMAIN Listed(S) : Listed(S)[k] = x
<1> DEFINE c == Cardinality(S)
           q == Listed(S)
<1>1. c \in Nat /\ ExistsBijection(1 .. c, S)
  BY FS_CardinalityType
<1>2. PICK f : f \in Bijection(1 .. c, S)
  BY <1>1 DEF ExistsBijection
<1>3. f \in [1 .. c -> S] /\ \A j, k \in DOMAIN f : f[j] = f[k] => j = k
  BY <1>2 DEF Bijection, Injection, IsInjective
<1>4. q \in [1 .. c -> S] /\ \A j, k \in DOMAIN q : q[j] = q[k] => j = k
  BY <1>3 DEF Listed
<1> HIDE DEF q
<1>5. q \in Injection(1 .. c, S)
  BY <1>4 DEF Injection, IsInjective
<1>6. Cardinality(1 .. c) = c
  BY <1>1, FS_Interval
<1>7. q \in Surjection(1 .. c, S)
  BY <1>5, <1>6, FS_Injection
<1>8. \A x \in S : \E k \in 1 .. c : q[k] = x
  BY <1>7 DEF Surjection
<1>9. DOMAIN q = 1 .. c
  BY <1>4
<1> HIDE DEF c
<1> QED BY <1>1, <1>4, <1>8, <1>9 DEF q, c

LEMMA SetMaxFacts ==
  ASSUME NEW top \in Nat, NEW S \in SUBSET (0 .. top), S # {}
  PROVE  SetMax(S) \in S /\ \A j \in S : j <= SetMax(S)
<1> DEFINE R == {top - j : j \in S}
<1>1. R \subseteq Nat /\ R # {}
  OBVIOUS
<1>2. PICK r \in R : \A x \in R : r <= x
  BY <1>1, LeastNumber
<1>3. PICK m \in S : r = top - m
  BY <1>2
<1>4. ASSUME NEW j \in S PROVE j <= m
  <2>1. top - m <= top - j
    BY <1>2, <1>3
  <2>2. j \in Int /\ m \in Int
    OBVIOUS
  <2> QED BY <2>1, <2>2
<1>5. \E k \in S : \A j \in S : j <= k
  BY <1>4
<1> QED BY <1>5 DEF SetMax

-----------------------------------------------------------------------------
(* What a domain knows after the compression, by old and by new tags.      *)
LEMMA CopyFields ==
  ASSUME NEW r, NEW n, NEW a, NEW k, r = [node |-> n, arms |-> a, kind |-> k]
  PROVE  r.node = n /\ r.arms = a /\ r.kind = k
OBVIOUS

LEMMA HeldIs ==
  ASSUME NEW i, NEW K, NEW f, DOMAIN f = {New(i, n) : n \in K},
         \A n \in K : f[New(i, n)].node = n
  PROVE  {f[t].node : t \in DOMAIN f} = K
<1>1. ASSUME NEW n \in K PROVE n \in {f[t].node : t \in DOMAIN f}
  <2>1. New(i, n) \in DOMAIN f /\ f[New(i, n)].node = n
    OBVIOUS
  <2> QED BY <2>1
<1>2. ASSUME NEW t \in DOMAIN f PROVE f[t].node \in K
  OBVIOUS
<1> QED BY <1>1, <1>2

LEMMA KnownFacts ==
  ASSUME NEW i \in Indices, NEW d \in Domain, KeysInv(i, d), pc[d] # "sorted"
  PROVE  /\ Held(d) \subseteq Node
         /\ \A t : Known(keys[d], limit[d], t) <=> t \in DOMAIN keys[d]
         /\ \A n \in Node : New(i, n) \in DOMAIN keys[d] <=> n \in Held(d)
         /\ \A n \in Node : Old(i, n) \in DOMAIN keys[d]
                              <=> n \in Held(d) /\ New(i, n) = Old(i, n)
<1>1. /\ Held(d) \subseteq Node /\ DOMAIN keys[d] = {New(i, n) : n \in Held(d)}
      /\ \A n \in Held(d) : New(i, n)[2] < limit[d][Owner[n]]
  BY DEF KeysInv
<1>2. \A t \in DOMAIN keys[d] : t[2] < limit[d][t[1]]
  <2> TAKE t \in DOMAIN keys[d]
  <2>1. PICK n \in Held(d) : t = New(i, n)
    BY <1>1
  <2>2. New(i, n)[1] = Owner[n]
    BY <1>1, TagFacts
  <2> QED BY <1>1, <2>1, <2>2
<1>3. \A t : Known(keys[d], limit[d], t) <=> t \in DOMAIN keys[d]
  BY <1>2 DEF Known
<1>4. \A n \in Node : New(i, n) \in DOMAIN keys[d] <=> n \in Held(d)
  BY <1>1, TagFacts
<1>5. \A n \in Node : Old(i, n) \in DOMAIN keys[d]
                        <=> n \in Held(d) /\ New(i, n) = Old(i, n)
  BY <1>1, TagFacts
<1> QED BY <1>1, <1>3, <1>4, <1>5

LEMMA ImageCount ==
  ASSUME NEW i \in Indices, NEW S \in SUBSET Node
  PROVE  Cardinality({New(i, n) : n \in S}) = Cardinality(S)
<1> DEFINE g == [n \in S |-> New(i, n)]
           T == {New(i, n) : n \in S}
<1>1. \A m, n \in S : g[m] = g[n] => m = n
  BY TagFacts
<1>2. g \in [S -> T] /\ \A t \in T : \E n \in S : g[n] = t
  OBVIOUS
<1> HIDE DEF g
<1>3. g \in Bijection(S, T)
  BY <1>1, <1>2 DEF Bijection, Injection, Surjection, IsInjective
<1>4. IsFiniteSet(S)
  BY FiniteAssumption, FS_Subset
<1> QED BY <1>3, <1>4, FS_Bijection DEF ExistsBijection

LEMMA AnswersCount ==
  ASSUME NEW i \in Indices, NEW S \in SUBSET Node
  PROVE  Cardinality({AnswerFor(i, n) : n \in S}) = Cardinality(S)
<1> DEFINE g == [n \in S |-> AnswerFor(i, n)]
           T == {AnswerFor(i, n) : n \in S}
<1>1. \A m, n \in S : g[m] = g[n] => m = n
  <2> TAKE m, n \in S
  <2> HAVE g[m] = g[n]
  <2>1. AnswerFor(i, m).node = AnswerFor(i, n).node
    OBVIOUS
  <2> QED BY <2>1 DEF AnswerFor
<1>2. g \in [S -> T] /\ \A t \in T : \E n \in S : g[n] = t
  OBVIOUS
<1> HIDE DEF g
<1>3. g \in Bijection(S, T)
  BY <1>1, <1>2 DEF Bijection, Injection, Surjection, IsInjective
<1>4. IsFiniteSet(S)
  BY FiniteAssumption, FS_Subset
<1> QED BY <1>3, <1>4, FS_Bijection DEF ExistsBijection

(* Everything said of one domain stays true while its part of the state    *)
(* stays; the same for the messages of a pair.                             *)
LEMMA LocalStays ==
  ASSUME NEW i, NEW d, LocalInv(i, d),
         pc'[d] = pc[d], keys'[d] = keys[d], limit'[d] = limit[d],
         tagMap'[d] = tagMap[d], ghostCount'[d] = ghostCount[d],
         reqBuf'[d] = reqBuf[d], inStatus'[d] = inStatus[d],
         answered'[d] = answered[d]
  PROVE  LocalInv(i, d)'
<1>1. Held(d)' = Held(d) /\ ReqDomList(d)' = ReqDomList(d)
  BY DEF Held, ReqDomList
<1>2. \A n : ArmsNow(i, d, n)' = ArmsNow(i, d, n)
  BY <1>1 DEF ArmsNow
<1>3. SortedInv(i, d)'
  BY DEF LocalInv, SortedInv
<1>4. KeysInv(i, d)'
  BY <1>1, <1>2 DEF LocalInv, KeysInv
<1>5. HeldInv(i, d)'
  BY <1>1 DEF LocalInv, HeldInv
<1>6. AskedInv(i, d)'
  BY <1>1 DEF LocalInv, AskedInv
<1>7. StatusInv(d)'
  BY <1>1 DEF LocalInv, StatusInv
<1> QED BY <1>3, <1>4, <1>5, <1>6, <1>7 DEF LocalInv

LEMMA GhostBufStays ==
  ASSUME NEW i, NEW d, NEW e, GhostBufInv(i, e, d),
         ghostBuf'[<<e, d>>] \in {ghostBuf[<<e, d>>], None},
         pc'[e] = pc[e] \/ pc'[e] # "sorted"
  PROVE  GhostBufInv(i, e, d)'
BY DEF GhostBufInv

LEMMA RequestStays ==
  ASSUME NEW d, NEW e, RequestInv(d, e),
         request'[<<d, e>>] \in {request[<<d, e>>], None},
         pc'[d] = pc[d] \/ pc'[d] \in HasAsked, reqBuf'[d] = reqBuf[d]
  PROVE  RequestInv(d, e)'
BY DEF RequestInv

LEMMA ResponseStays ==
  ASSUME NEW i, NEW d, NEW e, ResponseInv(i, e, d),
         response'[<<e, d>>] \in {response[<<e, d>>], None},
         pc'[d] = pc[d] \/ pc'[d] \in HasAsked, reqBuf'[d] = reqBuf[d]
  PROVE  ResponseInv(i, e, d)'
BY DEF ResponseInv

LEMMA SlotsStay ==
  ASSUME NEW d, SlotsInv(d), slots'[d] = slots[d],
         \A e \in Domain : request[<<e, d>>] # None => request'[<<e, d>>] # None
  PROVE  SlotsInv(d)'
<1>1. slots[d] \in Seq(Domain) /\ \A k \in DOMAIN slots[d] : slots[d][k] \in Domain
  BY DEF SlotsInv
<1> QED BY <1>1 DEF SlotsInv
-----------------------------------------------------------------------------
(* The invariant says what the runs check.                                 *)
LEMMA OldArmsTyped ==
  ASSUME NEW i \in Indices, NEW n
  PROVE  OldArms(i, n) \in [Nbrs(n) -> Tag]
<1>1. \A m \in Nbrs(n) : m \in Node
  BY DEF Nbrs
<1> QED BY <1>1, TagFacts DEF OldArms

LEMMA InvIsTyped ==
  ASSUME NEW i \in Indices, Inv(i)
  PROVE  TypeOK
<1>1. pc \in [Domain -> Place]
  BY DEF Inv, Shape
<1>2. ASSUME NEW d \in Domain
      PROVE  /\ DOMAIN keys[d] \subseteq Tag
             /\ \A t \in DOMAIN keys[d] :
                  /\ keys[d][t].node \in Node /\ keys[d][t].kind \in Kind
                  /\ keys[d][t].arms \in [Nbrs(keys[d][t].node) -> Tag]
             /\ limit[d] \in [Domain -> 0 .. MaxIndex + 1]
             /\ \A p \in tagMap[d] : /\ p.old \in Tag /\ p.new \in Tag
                                     /\ p.old[1] = p.new[1] /\ p.new[2] < p.old[2]
             /\ DOMAIN reqBuf[d] \subseteq RemoteDomains(d)
  <2>1. SortedInv(i, d) /\ KeysInv(i, d) /\ DOMAIN reqBuf[d] \subseteq RemoteDomains(d)
    BY DEF Inv, LocalInv, AskedInv
  <2>2. CASE pc[d] = "sorted"
    <3>1. /\ DOMAIN keys[d] = {Old(i, n) : n \in Own(d)}
          /\ \A n \in Own(d) : keys[d][Old(i, n)] =
               [node |-> n, arms |-> OldArms(i, n), kind |-> "native"]
          /\ limit[d] = [e \in Domain |-> IF d = e THEN MaxIndex + 1 ELSE 0]
          /\ tagMap[d] = {}
      BY <2>1, <2>2 DEF SortedInv
    <3>2. ASSUME NEW t \in DOMAIN keys[d]
          PROVE  /\ t \in Tag /\ keys[d][t].node \in Node /\ keys[d][t].kind \in Kind
                 /\ keys[d][t].arms \in [Nbrs(keys[d][t].node) -> Tag]
      <4>1. PICK n \in Own(d) : t = Old(i, n)
        BY <3>1
      <4>2. keys[d][t].node = n /\ keys[d][t].arms = OldArms(i, n) /\ keys[d][t].kind = "native"
        <5>1. keys[d][t] = [node |-> n, arms |-> OldArms(i, n), kind |-> "native"]
          BY <3>1, <4>1
        <5> QED BY <5>1, CopyFields
      <4>3. n \in Node
        BY DEF Own
      <4> QED BY <4>1, <4>2, <4>3, TagFacts, OldArmsTyped DEF Kind
    <3>3. limit[d] \in [Domain -> 0 .. MaxIndex + 1]
      BY <3>1, FiniteAssumption
    <3> QED BY <2>1, <3>1, <3>2, <3>3
  <2>3. CASE pc[d] # "sorted"
    <3>1. /\ Held(d) \subseteq Node /\ DOMAIN keys[d] = {New(i, n) : n \in Held(d)}
          /\ \A n \in Held(d) : keys[d][New(i, n)] =
               [node |-> n, arms |-> ArmsNow(i, d, n), kind |-> KindOf(d, n)]
          /\ limit[d] \in [Domain -> 0 .. MaxIndex + 1]
          /\ tagMap[d] = IF pc[d] = "done" THEN {} ELSE Pairs(i, Held(d))
      BY <2>1, <2>3 DEF KeysInv
    <3>2. ASSUME NEW t \in DOMAIN keys[d]
          PROVE  /\ t \in Tag /\ keys[d][t].node \in Node /\ keys[d][t].kind \in Kind
                 /\ keys[d][t].arms \in [Nbrs(keys[d][t].node) -> Tag]
      <4>1. PICK n \in Held(d) : t = New(i, n)
        BY <3>1
      <4>2. keys[d][t].node = n /\ keys[d][t].arms = ArmsNow(i, d, n)
            /\ keys[d][t].kind = KindOf(d, n)
        <5>1. keys[d][t] = [node |-> n, arms |-> ArmsNow(i, d, n), kind |-> KindOf(d, n)]
          BY <3>1, <4>1
        <5> QED BY <5>1, CopyFields
      <4>3. n \in Node /\ \A m \in Nbrs(n) : m \in Node
        BY <3>1 DEF Nbrs
      <4>4. ArmsNow(i, d, n) \in [Nbrs(n) -> Tag]
        BY <4>3, TagFacts, OldArmsTyped DEF ArmsNow
      <4>5. KindOf(d, n) \in Kind
        BY DEF KindOf, Kind
      <4> QED BY <4>1, <4>2, <4>3, <4>4, <4>5, TagFacts
    <3>3. ASSUME NEW p \in tagMap[d]
          PROVE  /\ p.old \in Tag /\ p.new \in Tag
                 /\ p.old[1] = p.new[1] /\ p.new[2] < p.old[2]
      <4>1. PICK n \in Held(d) : New(i, n) # Old(i, n)
                                 /\ p = [old |-> Old(i, n), new |-> New(i, n)]
        BY <3>1 DEF Pairs
      <4>2. p.old = Old(i, n) /\ p.new = New(i, n) /\ n \in Node
        BY <3>1, <4>1
      <4> QED BY <4>1, <4>2, TagFacts
    <3> QED BY <2>1, <3>1, <3>2, <3>3
  <2> QED BY <2>2, <2>3
<1> QED BY <1>1, <1>2 DEF TypeOK

LEMMA InvOneCopy ==
  ASSUME NEW i \in Indices, Inv(i)
  PROVE  OneCopy
<1> SUFFICES ASSUME NEW d \in Domain
             PROVE  /\ ghostCount[d] = Cardinality({t \in DOMAIN keys[d] : keys[d][t].kind # "native"})
                    /\ \A t \in DOMAIN keys[d] :
                         /\ t[1] = Owner[keys[d][t].node]
                         /\ \A u \in DOMAIN keys[d] : keys[d][u].node = keys[d][t].node => u = t
                         /\ t[2] < limit[d][t[1]]
                         /\ pc[t[1]] # "sorted" =>
                              t \in DOMAIN keys[t[1]] /\ keys[t[1]][t].node = keys[d][t].node
  BY DEF OneCopy
<1>1. SortedInv(i, d) /\ KeysInv(i, d)
  BY DEF Inv, LocalInv
<1>2. CASE pc[d] = "sorted"
  <2>1. /\ DOMAIN keys[d] = {Old(i, n) : n \in Own(d)}
        /\ \A n \in Own(d) : keys[d][Old(i, n)] =
             [node |-> n, arms |-> OldArms(i, n), kind |-> "native"]
        /\ limit[d] = [e \in Domain |-> IF d = e THEN MaxIndex + 1 ELSE 0]
        /\ ghostCount[d] = 0
    BY <1>1, <1>2 DEF SortedInv
  <2>2. \A t \in DOMAIN keys[d] : \E n \in Own(d) :
          t = Old(i, n) /\ keys[d][t].node = n /\ keys[d][t].kind = "native"
    <3> TAKE t \in DOMAIN keys[d]
    <3>1. PICK n \in Own(d) : t = Old(i, n)
      BY <2>1
    <3>2. keys[d][t] = [node |-> n, arms |-> OldArms(i, n), kind |-> "native"]
      BY <2>1, <3>1
    <3> QED BY <3>1, <3>2, CopyFields
  <2>3. Cardinality({t \in DOMAIN keys[d] : keys[d][t].kind # "native"}) = 0
    <3>1. {t \in DOMAIN keys[d] : keys[d][t].kind # "native"} = {}
      BY <2>2
    <3> QED BY <3>1, FS_EmptySet
  <2>4. ASSUME NEW t \in DOMAIN keys[d]
        PROVE  /\ t[1] = Owner[keys[d][t].node] /\ t[1] = d
               /\ \A u \in DOMAIN keys[d] : keys[d][u].node = keys[d][t].node => u = t
               /\ t[2] < limit[d][t[1]]
    <3>1. PICK n \in Own(d) : t = Old(i, n) /\ keys[d][t].node = n
      BY <2>2
    <3>2. Old(i, n) = <<d, i[n]>> /\ i[n] \in 0 .. MaxIndex /\ Owner[n] = d /\ n \in Node
      BY TagFacts DEF Old, Own
    <3>3. limit[d][d] = MaxIndex + 1
      BY <2>1
    <3>4. t[2] < limit[d][d]
      BY <3>1, <3>2, <3>3, FiniteAssumption
    <3> QED BY <2>2, <3>1, <3>2, <3>4
  <2> QED BY <1>2, <2>1, <2>3, <2>4
<1>3. CASE pc[d] # "sorted"
  <2>1. /\ Held(d) \subseteq Node /\ DOMAIN keys[d] = {New(i, n) : n \in Held(d)}
        /\ \A n \in Held(d) : keys[d][New(i, n)] =
             [node |-> n, arms |-> ArmsNow(i, d, n), kind |-> KindOf(d, n)]
        /\ \A n \in Held(d) : New(i, n)[2] < limit[d][Owner[n]]
        /\ ghostCount[d] = Cardinality(Held(d) \ Own(d))
    BY <1>1, <1>3 DEF KeysInv
  <2>2. \A t \in DOMAIN keys[d] : \E n \in Held(d) :
          t = New(i, n) /\ keys[d][t].node = n /\ keys[d][t].kind = KindOf(d, n)
    <3> TAKE t \in DOMAIN keys[d]
    <3>1. PICK n \in Held(d) : t = New(i, n)
      BY <2>1
    <3>2. keys[d][t] = [node |-> n, arms |-> ArmsNow(i, d, n), kind |-> KindOf(d, n)]
      BY <2>1, <3>1
    <3> QED BY <3>1, <3>2, CopyFields
  <2>3. ghostCount[d] = Cardinality({t \in DOMAIN keys[d] : keys[d][t].kind # "native"})
    <3>1. \A n : KindOf(d, n) # "native" <=> n \notin Own(d)
      BY DEF KindOf
    <3>2. \A n \in Held(d) : New(i, n) \in DOMAIN keys[d] /\ keys[d][New(i, n)].kind = KindOf(d, n)
      <4> TAKE n \in Held(d)
      <4>1. keys[d][New(i, n)] = [node |-> n, arms |-> ArmsNow(i, d, n), kind |-> KindOf(d, n)]
            /\ New(i, n) \in DOMAIN keys[d]
        BY <2>1
      <4> QED BY <4>1, CopyFields
    <3>3. {t \in DOMAIN keys[d] : keys[d][t].kind # "native"} = {New(i, n) : n \in Held(d) \ Own(d)}
      BY <2>2, <3>1, <3>2
    <3>4. Held(d) \ Own(d) \in SUBSET Node
      BY <2>1
    <3> QED BY <2>1, <3>3, <3>4, ImageCount
  <2>4. ASSUME NEW t \in DOMAIN keys[d]
        PROVE  /\ t[1] = Owner[keys[d][t].node]
               /\ \A u \in DOMAIN keys[d] : keys[d][u].node = keys[d][t].node => u = t
               /\ t[2] < limit[d][t[1]]
               /\ pc[t[1]] # "sorted" =>
                    t \in DOMAIN keys[t[1]] /\ keys[t[1]][t].node = keys[d][t].node
    <3>1. PICK n \in Held(d) : t = New(i, n) /\ keys[d][t].node = n
      BY <2>2
    <3>2. n \in Node /\ New(i, n)[1] = Owner[n] /\ Owner[n] \in Domain
      BY <2>1, TagFacts
    <3> DEFINE e == Owner[n]
    <3>3. ASSUME pc[e] # "sorted"
          PROVE  New(i, n) \in DOMAIN keys[e] /\ keys[e][New(i, n)].node = n
      <4>1. KeysInv(i, e) /\ HeldInv(i, e) /\ pc[e] \in Place \ {"fatal"} /\ n \in Own(e)
        BY <3>2 DEF Inv, LocalInv, Shape, Own
      <4>2. n \in Held(e)
        BY <3>3, <4>1 DEF HeldInv, Place, InReach
      <4>3. keys[e][New(i, n)] = [node |-> n, arms |-> ArmsNow(i, e, n), kind |-> KindOf(e, n)]
            /\ New(i, n) \in DOMAIN keys[e]
        BY <3>3, <4>1, <4>2 DEF KeysInv
      <4> QED BY <4>3
    <3> QED BY <2>1, <2>2, <3>1, <3>2, <3>3
  <2> QED BY <2>3, <2>4
<1> QED BY <1>2, <1>3

LEMMA InvArmsResolve ==
  ASSUME NEW i \in Indices, Inv(i)
  PROVE  ArmsResolve
<1> SUFFICES ASSUME NEW d \in Domain, pc[d] = "done"
             PROVE  /\ \A n \in Node : CellOf[n] \in CellList(d) =>
                         \E t \in DOMAIN keys[d] : keys[d][t].node = n /\ keys[d][t].kind # "secondary"
                    /\ \A t \in DOMAIN keys[d] : \A m \in DOMAIN keys[d][t].arms :
                         IF Known(keys[d], limit[d], keys[d][t].arms[m])
                         THEN keys[d][keys[d][t].arms[m]].node = m
                         ELSE keys[d][t].kind = "secondary"
  BY DEF ArmsResolve
<1>1. KeysInv(i, d) /\ HeldInv(i, d) /\ pc[d] # "sorted"
  BY DEF Inv, LocalInv
<1>2. /\ Held(d) \subseteq Node /\ DOMAIN keys[d] = {New(i, n) : n \in Held(d)}
      /\ \A n \in Held(d) : keys[d][New(i, n)] =
           [node |-> n, arms |-> ArmsNow(i, d, n), kind |-> KindOf(d, n)]
  BY <1>1 DEF KeysInv
<1>3. InReach(d) \subseteq Held(d) /\ \A g \in Seen(d) : Nbrs(g) \subseteq Held(d)
  BY <1>1 DEF HeldInv
<1>4. /\ \A t : Known(keys[d], limit[d], t) <=> t \in DOMAIN keys[d]
      /\ \A n \in Node : Old(i, n) \in DOMAIN keys[d] <=> n \in Held(d) /\ New(i, n) = Old(i, n)
  BY <1>1, KnownFacts
<1>5. \A n \in Held(d) : /\ New(i, n) \in DOMAIN keys[d] /\ keys[d][New(i, n)].node = n
                         /\ keys[d][New(i, n)].kind = KindOf(d, n)
                         /\ keys[d][New(i, n)].arms = ArmsNow(i, d, n)
  <2> TAKE n \in Held(d)
  <2>1. keys[d][New(i, n)] = [node |-> n, arms |-> ArmsNow(i, d, n), kind |-> KindOf(d, n)]
        /\ New(i, n) \in DOMAIN keys[d]
    BY <1>2
  <2> QED BY <2>1, CopyFields
<1>6. ASSUME NEW n \in Node, CellOf[n] \in CellList(d)
      PROVE  \E t \in DOMAIN keys[d] : keys[d][t].node = n /\ keys[d][t].kind # "secondary"
  <2>1. n \in InReach(d) /\ KindOf(d, n) # "secondary"
    BY <1>6 DEF InReach, Own, Seen, KindOf
  <2> QED BY <1>3, <1>5, <2>1
<1>7. ASSUME NEW t \in DOMAIN keys[d], NEW m \in DOMAIN keys[d][t].arms
      PROVE  IF Known(keys[d], limit[d], keys[d][t].arms[m])
             THEN keys[d][keys[d][t].arms[m]].node = m
             ELSE keys[d][t].kind = "secondary"
  <2>1. PICK n \in Held(d) : t = New(i, n)
    BY <1>2
  <2>2. m \in Nbrs(n) /\ m \in Node /\ n \in Node
        /\ keys[d][t].arms[m] = IF m \in Held(d) THEN New(i, m) ELSE Old(i, m)
    <3>1. keys[d][t].arms = [k \in Nbrs(n) |-> IF k \in Held(d) THEN New(i, k) ELSE Old(i, k)]
      BY <1>5, <2>1 DEF ArmsNow
    <3>2. m \in Nbrs(n) /\ n \in Node
      BY <1>2, <1>7, <2>1, <3>1
    <3> QED BY <3>1, <3>2 DEF Nbrs
  <2>3. CASE m \in Held(d)
    BY <1>4, <1>5, <2>2, <2>3
  <2>4. CASE m \notin Held(d)
    <3>1. ~Known(keys[d], limit[d], keys[d][t].arms[m])
      BY <1>4, <2>2, <2>4
    <3>2. n \notin Own(d)
      <4> SUFFICES ASSUME n \in Own(d) PROVE FALSE
        OBVIOUS
      <4>1. CellOf[n] \in NativeCells[d]
        BY CellFacts
      <4> QED BY <1>3, <2>2, <2>4, <4>1, NbrsInReach
    <3>3. n \notin Seen(d)
      BY <1>3, <2>2, <2>4
    <3>4. keys[d][t].kind = "secondary"
      BY <1>5, <2>1, <3>2, <3>3 DEF KindOf
    <3> QED BY <3>1, <3>4
  <2> QED BY <2>3, <2>4
<1> QED BY <1>6, <1>7

LEMMA InvSaysAll ==
  ASSUME NEW i \in Indices, Inv(i)
  PROVE  TypeOK /\ GhostsKnown
<1>1. NeverFatal
  BY DEF Inv, Shape, NeverFatal
<1> QED BY <1>1, InvIsTyped, InvOneCopy, InvArmsResolve DEF GhostsKnown

-----------------------------------------------------------------------------
(* A step of one domain leaves what the others know as it is.              *)
OthersStay(d) ==
  \A e \in Domain \ {d} :
    /\ pc'[e] = pc[e] /\ keys'[e] = keys[e] /\ limit'[e] = limit[e]
    /\ tagMap'[e] = tagMap[e] /\ ghostCount'[e] = ghostCount[e]
    /\ reqBuf'[e] = reqBuf[e] /\ inStatus'[e] = inStatus[e]
    /\ answered'[e] = answered[e] /\ slots'[e] = slots[e]

LEMMA StepKeepsInv ==
  ASSUME NEW i, Inv(i), NEW d \in Domain, OthersStay(d), Shape',
         LocalInv(i, d)', SlotsInv(d)',
         \A e \in Domain \ {d} : \A f \in Domain : request[<<f, e>>] # None => request'[<<f, e>>] # None,
         \A e \in Domain : \A f \in Domain : PairInv(i, e, f)'
  PROVE  Inv(i)'
<1>1. ASSUME NEW e \in Domain \ {d} PROVE LocalInv(i, e)'
  <2>1. LocalInv(i, e)
    BY DEF Inv
  <2> QED BY <2>1, LocalStays DEF OthersStay
<1>2. ASSUME NEW e \in Domain \ {d} PROVE SlotsInv(e)'
  <2>1. SlotsInv(e)
    BY DEF Inv
  <2> QED BY <2>1, SlotsStay DEF OthersStay
<1> QED BY <1>1, <1>2 DEF Inv

(* No message is one of the records sent.                                  *)
LEMMA NoneFacts ==
  /\ \A x : [tags |-> x] # None /\ [nodes |-> x] # None
<1> SUFFICES ASSUME NEW x PROVE [tags |-> x] # None /\ [nodes |-> x] # None
  OBVIOUS
<1>1. DOMAIN [tags |-> x] = {"tags"} /\ DOMAIN [nodes |-> x] = {"nodes"}
      /\ DOMAIN None = {"none"}
  BY DEF None
<1>2. "tags" # "none" /\ "nodes" # "none"
  OBVIOUS
<1> QED BY <1>1, <1>2

LEMMA InitHasInv ==
  ASSUME Init
  PROVE  ExchangeInv
<1>1. PICK i \in Indices : keys = [d \in Domain |-> InitialKeys(i, d)]
  BY DEF Init
<1>2. Shape
  BY <1>1 DEF Init, Shape, Place
<1>3. ASSUME NEW d \in Domain PROVE LocalInv(i, d) /\ SlotsInv(d)
  <2>1. /\ pc[d] = "sorted" /\ keys[d] = InitialKeys(i, d)
        /\ limit[d] = [e \in Domain |-> IF d = e THEN MaxIndex + 1 ELSE 0]
        /\ tagMap[d] = {} /\ ghostCount[d] = 0 /\ reqBuf[d] = <<>>
        /\ slots[d] = <<>> /\ answered[d] = {}
    BY <1>1 DEF Init
  <2> DEFINE T == {<<d, i[n]>> : n \in Own(d)}
             at(t) == CHOOSE m \in Own(d) : i[m] = t[2]
             K == [t \in T |-> [node |-> at(t), arms |-> TagsFrom(i, Nbrs(at(t))),
                                kind |-> "native"]]
  <2>2. keys[d] = K
    BY <2>1 DEF InitialKeys
  <2>3. \A n \in Own(d) : Old(i, n) = <<d, i[n]>> /\ n \in Node
    BY DEF Old, Own
  <2>4. T = {Old(i, n) : n \in Own(d)}
    BY <2>3
  <2>5. \A n \in Own(d) : at(Old(i, n)) = n
    <3> TAKE n \in Own(d)
    <3>1. \A m \in Own(d) : i[m] = i[n] => m = n
      BY IndicesAssumption DEF Own
    <3>2. Old(i, n)[2] = i[n]
      BY <2>3
    <3> QED BY <3>1, <3>2
  <2>6. \A n : TagsFrom(i, Nbrs(n)) = OldArms(i, n)
    BY DEF TagsFrom, OldArms, Old
  <2>7. \A n \in Own(d) : K[Old(i, n)] = [node |-> n, arms |-> OldArms(i, n), kind |-> "native"]
    <3> TAKE n \in Own(d)
    <3> HIDE DEF at
    <3>1. Old(i, n) \in T
      BY <2>4
    <3> HIDE DEF T
    <3>2. K[Old(i, n)] = [node |-> at(Old(i, n)), arms |-> TagsFrom(i, Nbrs(at(Old(i, n)))),
                          kind |-> "native"]
      BY <3>1
    <3> HIDE DEF K
    <3> QED BY <2>5, <2>6, <3>2
  <2>8. DOMAIN K = T
    OBVIOUS
  <2> HIDE DEF K, T
  <2>9. SortedInv(i, d)
    BY <2>1, <2>2, <2>4, <2>7, <2>8 DEF SortedInv
  <2>10. KeysInv(i, d) /\ HeldInv(i, d) /\ StatusInv(d)
    BY <2>1 DEF KeysInv, HeldInv, StatusInv
  <2>11. AskedInv(i, d)
    <3>1. DOMAIN reqBuf[d] = {}
      BY <2>1
    <3> QED BY <2>1, <3>1 DEF AskedInv, Asked
  <2>12. SlotsInv(d)
    BY <2>1 DEF SlotsInv
  <2> QED BY <2>9, <2>10, <2>11, <2>12 DEF LocalInv
<1>4. ASSUME NEW d \in Domain, NEW e \in Domain PROVE PairInv(i, d, e)
  <2>1. <<d, e>> \in Pair /\ <<e, d>> \in Pair
    BY DEF Pair
  <2>2. ghostBuf[<<e, d>>] = None /\ request[<<d, e>>] = None /\ response[<<e, d>>] = None
    BY <2>1 DEF Init
  <2> QED BY <2>2 DEF PairInv, GhostBufInv, RequestInv, ResponseInv
<1> QED BY <1>2, <1>3, <1>4 DEF ExchangeInv, Inv
-----------------------------------------------------------------------------
(* The requests are sent, and received.                                    *)
LEMMA SendRequestsKeepsInv ==
  ASSUME NEW i \in Indices, Inv(i), NEW d \in Domain, SendRequests(d)
  PROVE  Inv(i)'
<1>1. /\ pc[d] = "reduce" /\ pc' = [pc EXCEPT ![d] = "requests"]
      /\ request' = [p \in Pair |-> IF p[1] = d /\ p[2] \in DOMAIN reqBuf[d]
                                    THEN [tags |-> reqBuf[d][p[2]]] ELSE request[p]]
      /\ UNCHANGED <<keys, limit, tagMap, ghostCount, ghostBuf, reqBuf, slots,
                     response, inStatus, answered>>
  BY DEF SendRequests, Goto, keyVars, respVars
<1>2. Shape /\ LocalInv(i, d) /\ SlotsInv(d)
  BY DEF Inv
<1>3. pc' \in [Domain -> Place \ {"fatal"}] /\ pc'[d] = "requests"
      /\ \A e \in Domain \ {d} : pc'[e] = pc[e]
  BY <1>1, <1>2 DEF Shape, Place
<1>4. Shape' /\ OthersStay(d)
  BY <1>1, <1>2, <1>3 DEF Shape, OthersStay
<1>5. LocalInv(i, d)'
  <2>1. Held(d)' = Held(d) /\ ReqDomList(d)' = ReqDomList(d)
    BY <1>1 DEF Held, ReqDomList
  <2>2. \A n : ArmsNow(i, d, n)' = ArmsNow(i, d, n)
    BY <1>1, <1>3, <2>1 DEF ArmsNow
  <2>3. SortedInv(i, d)' /\ StatusInv(d)'
    BY <1>3 DEF SortedInv, StatusInv
  <2>4. KeysInv(i, d)'
    BY <1>1, <1>2, <1>3, <2>1, <2>2 DEF LocalInv, KeysInv
  <2>5. HeldInv(i, d)'
    BY <1>1, <1>2, <1>3, <2>1 DEF LocalInv, HeldInv
  <2>6. AskedInv(i, d)'
    BY <1>1, <1>2, <1>3, <2>1 DEF LocalInv, AskedInv, Asked
  <2> QED BY <2>3, <2>4, <2>5, <2>6 DEF LocalInv
<1>6. \A p \in Pair : request[p] # None => request'[p] # None
  BY <1>1, NoneFacts
<1>7. \A e \in Domain : \A f \in Domain : request[<<f, e>>] # None => request'[<<f, e>>] # None
  BY <1>6 DEF Pair
<1>8. SlotsInv(d)'
  <2>1. slots'[d] = slots[d]
    BY <1>1
  <2> QED BY <1>2, <1>7, <2>1, SlotsStay
<1>9. ASSUME NEW e \in Domain, NEW f \in Domain PROVE PairInv(i, e, f)'
  <2>1. GhostBufInv(i, f, e) /\ RequestInv(e, f) /\ ResponseInv(i, f, e)
    BY DEF Inv, PairInv
  <2>2. pc'[e] = pc[e] \/ pc'[e] \in HasAsked
    BY <1>3 DEF HasAsked
  <2>3. pc'[f] = pc[f] \/ pc'[f] # "sorted"
    BY <1>3
  <2>4. GhostBufInv(i, f, e)'
    BY <1>1, <2>1, <2>3, GhostBufStays
  <2>5. ResponseInv(i, f, e)'
    BY <1>1, <2>1, <2>2, ResponseStays
  <2>6. RequestInv(e, f)'
    <3>1. <<e, f>> \in Pair
      BY DEF Pair
    <3>2. CASE e = d /\ f \in DOMAIN reqBuf[d]
      <4>1. request'[<<e, f>>] = [tags |-> reqBuf[d][f]]
        BY <1>1, <3>1, <3>2
      <4> QED BY <1>1, <1>3, <3>2, <4>1 DEF RequestInv, HasAsked
    <3>3. CASE ~(e = d /\ f \in DOMAIN reqBuf[d])
      <4>1. request'[<<e, f>>] = request[<<e, f>>]
        BY <1>1, <3>1, <3>3
      <4> QED BY <1>1, <2>1, <2>2, <4>1, RequestStays
    <3> QED BY <3>2, <3>3
  <2> QED BY <2>4, <2>5, <2>6 DEF PairInv
<1> QED BY <1>4, <1>5, <1>7, <1>8, <1>9, StepKeepsInv

LEMMA AppendedFacts ==
  ASSUME NEW S, NEW q \in Seq(S), NEW x \in S
  PROVE  /\ Append(q, x) \in Seq(S)
         /\ \A k \in DOMAIN Append(q, x) :
              Append(q, x)[k] = x \/ (k \in DOMAIN q /\ Append(q, x)[k] = q[k])
<1> DEFINE r == Append(q, x)
<1>1. r \in Seq(S) /\ Len(r) = Len(q) + 1 /\ Len(q) \in Nat
  OBVIOUS
<1>2. \A k \in 1 .. Len(q) + 1 : r[k] = IF k = Len(q) + 1 THEN x ELSE q[k]
  OBVIOUS
<1> HIDE DEF r
<1>3. DOMAIN r = 1 .. Len(q) + 1 /\ DOMAIN q = 1 .. Len(q)
  BY <1>1
<1>4. ASSUME NEW k \in DOMAIN r PROVE r[k] = x \/ (k \in DOMAIN q /\ r[k] = q[k])
  <2>1. k \in 1 .. Len(q) + 1
    BY <1>3
  <2>2. k = Len(q) + 1 \/ k \in 1 .. Len(q)
    BY <1>1, <2>1
  <2> QED BY <1>2, <1>3, <2>1, <2>2
<1> QED BY <1>1, <1>4 DEF r

LEMMA RecvRequestKeepsInv ==
  ASSUME NEW i \in Indices, Inv(i), NEW d \in Domain, NEW e \in Domain, RecvRequest(d, e)
  PROVE  Inv(i)'
<1>1. /\ request[<<e, d>>] # None
      /\ slots' = [slots EXCEPT ![d] = Append(@, e)]
      /\ UNCHANGED <<pc, keys, limit, tagMap, ghostCount, ghostBuf, reqBuf, request,
                     response, inStatus, answered>>
  BY DEF RecvRequest, Arrived, keyVars, respVars
<1>2. Shape /\ LocalInv(i, d) /\ SlotsInv(d)
  BY DEF Inv
<1>3. Shape' /\ OthersStay(d)
  BY <1>1, <1>2 DEF Shape, OthersStay
<1>4. LocalInv(i, d)'
  BY <1>1, <1>2, LocalStays
<1>5. SlotsInv(d)'
  <2>1. slots[d] \in Seq(Domain) /\ \A k \in DOMAIN slots[d] : request[<<slots[d][k], d>>] # None
    BY <1>2 DEF SlotsInv
  <2>2. slots'[d] = Append(slots[d], e)
    BY <1>1, <1>2 DEF Shape
  <2>3. slots'[d] \in Seq(Domain)
        /\ \A k \in DOMAIN slots'[d] : slots'[d][k] = e
             \/ (k \in DOMAIN slots[d] /\ slots'[d][k] = slots[d][k])
    BY <2>1, <2>2, AppendedFacts
  <2> QED BY <1>1, <2>1, <2>3 DEF SlotsInv
<1>6. ASSUME NEW f \in Domain, NEW g \in Domain PROVE PairInv(i, f, g)'
  <2>1. PairInv(i, f, g)
    BY DEF Inv
  <2> QED BY <1>1, <2>1 DEF PairInv, GhostBufInv, RequestInv, ResponseInv
<1> QED BY <1>1, <1>3, <1>4, <1>5, <1>6, StepKeepsInv
-----------------------------------------------------------------------------
(* The compression gives every native node its new tag, and what a domain  *)
(* packs for another are the exported ones, with their changes of tag.     *)
LEMMA CompressedIs ==
  ASSUME NEW i \in Indices, NEW d \in Domain, SortedInv(i, d), pc[d] = "sorted"
  PROVE  /\ Retagged(d) = MovesOf(i, d) /\ Retagged(d) = Pairs(i, Own(d))
         /\ PackedLimit(d) = Top(i, d) /\ limit[d][d] = MaxIndex + 1
         /\ DOMAIN Compressed(d) = {New(i, n) : n \in Own(d)}
         /\ \A n \in Own(d) : Compressed(d)[New(i, n)] =
              [node |-> n, arms |-> OldArms(i, n), kind |-> "native"]
<1>1. /\ DOMAIN keys[d] = {Old(i, n) : n \in Own(d)}
      /\ \A n \in Own(d) : keys[d][Old(i, n)] =
           [node |-> n, arms |-> OldArms(i, n), kind |-> "native"]
      /\ limit[d] = [e \in Domain |-> IF d = e THEN MaxIndex + 1 ELSE 0]
  BY DEF SortedInv
<1>2. \A n \in Own(d) : n \in Node /\ Owner[n] = d /\ Old(i, n)[2] = i[n]
  BY DEF Own, Old
<1>3. limit[d][d] = MaxIndex + 1
  BY <1>1
<1>4. {t[2] : t \in DOMAIN keys[d]} = {i[n] : n \in Own(d)}
  BY <1>1, <1>2
<1>5. Retagged(d) = MovesOf(i, d)
  BY <1>3, <1>4 DEF Retagged, MovesOf
<1>6. Retagged(d) = Pairs(i, Own(d))
  BY <1>5, MovesArePairs
<1>7. PackedLimit(d) = Top(i, d)
  BY <1>3, <1>5 DEF PackedLimit, Top
<1> DEFINE R == Retagged(d)
           C == Compressed(d)
<1>8. \A n \in Own(d) : NewTagOf(R, Old(i, n)) = New(i, n)
  BY <1>2, <1>5 DEF New
<1> HIDE DEF R
<1>9. C = [t \in {NewTagOf(R, o) : o \in DOMAIN keys[d]} |->
             keys[d][CHOOSE o \in DOMAIN keys[d] : NewTagOf(R, o) = t]]
  BY DEF Compressed, R
<1>10. {NewTagOf(R, o) : o \in DOMAIN keys[d]} = {New(i, n) : n \in Own(d)}
  BY <1>1, <1>8
<1> HIDE DEF C
<1>11. DOMAIN C = {New(i, n) : n \in Own(d)}
  BY <1>9, <1>10
<1>12. ASSUME NEW n \in Own(d)
       PROVE  C[New(i, n)] = [node |-> n, arms |-> OldArms(i, n), kind |-> "native"]
  <2>1. \A o \in DOMAIN keys[d] : NewTagOf(R, o) = New(i, n) => o = Old(i, n)
    <3> TAKE o \in DOMAIN keys[d]
    <3>1. PICK m \in Own(d) : o = Old(i, m)
      BY <1>1
    <3>2. NewTagOf(R, o) = New(i, m) /\ m \in Node /\ n \in Node
      BY <1>2, <1>8, <3>1
    <3> QED BY <3>1, <3>2, TagFacts
  <2>2. Old(i, n) \in DOMAIN keys[d] /\ NewTagOf(R, Old(i, n)) = New(i, n)
    BY <1>1, <1>8
  <2>3. (CHOOSE o \in DOMAIN keys[d] : NewTagOf(R, o) = New(i, n)) = Old(i, n)
    BY <2>1, <2>2
  <2>4. New(i, n) \in {NewTagOf(R, o) : o \in DOMAIN keys[d]}
    BY <1>10
  <2>5. C[New(i, n)] = keys[d][CHOOSE o \in DOMAIN keys[d] : NewTagOf(R, o) = New(i, n)]
    BY <1>9, <2>4
  <2> QED BY <1>1, <2>3, <2>5
<1> QED BY <1>3, <1>5, <1>6, <1>7, <1>11, <1>12 DEF C

LEMMA PackedIs ==
  ASSUME NEW i \in Indices, NEW d \in Domain, NEW e \in Domain, SortedInv(i, d), pc[d] = "sorted"
  PROVE  LET buf == PackedGhosts(d, e, Retagged(d), Compressed(d)) IN
         /\ buf = [limit |-> Top(i, d), cells |-> ExpCells(d, e), nodes |-> buf.nodes,
                   maps |-> Pairs(i, Exported(d, e))]
         /\ DOMAIN buf.nodes = {New(i, n) : n \in Exported(d, e)}
         /\ \A n \in Exported(d, e) : buf.nodes[New(i, n)] =
              [node |-> n, arms |-> OldArms(i, n), kind |-> "native"]
<1> DEFINE R == Retagged(d)
           C == Compressed(d)
           X == {t \in DOMAIN C : CellOf[C[t].node] \in ExpCells(d, e)}
           N == [t \in X |-> C[t]]
           Q == {p \in R : p.new \in X}
           buf == PackedGhosts(d, e, R, C)
<1>1. /\ R = Pairs(i, Own(d)) /\ PackedLimit(d) = Top(i, d)
      /\ DOMAIN C = {New(i, n) : n \in Own(d)}
      /\ \A n \in Own(d) : C[New(i, n)] =
           [node |-> n, arms |-> OldArms(i, n), kind |-> "native"]
  BY CompressedIs
<1>2. buf = [limit |-> PackedLimit(d), cells |-> ExpCells(d, e), nodes |-> N, maps |-> Q]
  BY DEF PackedGhosts
<1> HIDE DEF C, R, buf
<1>3. \A n \in Own(d) : C[New(i, n)].node = n /\ n \in Node
  <2> TAKE n \in Own(d)
  <2>1. C[New(i, n)] = [node |-> n, arms |-> OldArms(i, n), kind |-> "native"]
    BY <1>1
  <2>2. C[New(i, n)].node = n
    BY <2>1
  <2> QED BY <2>2 DEF Own
<1>4. X = {New(i, n) : n \in Exported(d, e)}
  BY <1>1, <1>3 DEF Exported
<1>5. \A n \in Own(d) : New(i, n) \in X <=> n \in Exported(d, e)
  BY <1>1, <1>3 DEF Exported
<1>6. Q = Pairs(i, Exported(d, e))
  <2>1. ASSUME NEW p \in Q PROVE p \in Pairs(i, Exported(d, e))
    <3>1. p \in Pairs(i, Own(d)) /\ p.new \in X
      BY <1>1
    <3>2. PICK n \in Own(d) : New(i, n) # Old(i, n) /\ p = [old |-> Old(i, n), new |-> New(i, n)]
      BY <3>1 DEF Pairs
    <3>3. n \in Exported(d, e)
      BY <1>5, <3>1, <3>2
    <3> QED BY <3>2, <3>3 DEF Pairs
  <2>2. ASSUME NEW p \in Pairs(i, Exported(d, e)) PROVE p \in Q
    <3>1. PICK n \in Exported(d, e) : New(i, n) # Old(i, n)
                                      /\ p = [old |-> Old(i, n), new |-> New(i, n)]
      BY DEF Pairs
    <3>2. n \in Own(d) /\ New(i, n) \in X
      BY <1>4 DEF Exported
    <3>3. p \in R /\ p.new = New(i, n)
      BY <1>1, <3>1, <3>2 DEF Pairs
    <3> QED BY <3>2, <3>3
  <2> QED BY <2>1, <2>2
<1> HIDE DEF X, Q
<1>7. DOMAIN N = {New(i, n) : n \in Exported(d, e)}
  BY <1>4
<1>8. \A n \in Exported(d, e) :
        N[New(i, n)] = [node |-> n, arms |-> OldArms(i, n), kind |-> "native"]
  <2> TAKE n \in Exported(d, e)
  <2>1. n \in Own(d) /\ New(i, n) \in X
    BY <1>4 DEF Exported
  <2> QED BY <1>1, <2>1
<1> HIDE DEF N
<1>9. buf.nodes = N
  BY <1>2
<1> QED BY <1>1, <1>2, <1>6, <1>7, <1>8, <1>9 DEF C, R, buf

LEMMA PackGhostsKeepsInv ==
  ASSUME NEW i \in Indices, Inv(i), NEW d \in Domain, PackGhosts(d)
  PROVE  Inv(i)'
<1>1. /\ pc[d] = "sorted" /\ pc' = [pc EXCEPT ![d] = "ghosts"]
      /\ keys' = [keys EXCEPT ![d] = Compressed(d)]
      /\ tagMap' = [tagMap EXCEPT ![d] = Retagged(d)]
      /\ limit' = [limit EXCEPT ![d][d] = @ - Cardinality(Retagged(d))]
      /\ ghostBuf' = [p \in Pair |-> IF p[1] = d /\ p[2] \in RemoteDomains(d)
                        THEN PackedGhosts(d, p[2], Retagged(d), Compressed(d)) ELSE ghostBuf[p]]
      /\ UNCHANGED <<ghostCount, reqBuf, request, slots, response, inStatus, answered>>
  BY DEF PackGhosts, Goto, reqVars, respVars
<1>2. Shape /\ SortedInv(i, d) /\ AskedInv(i, d) /\ SlotsInv(d)
  BY DEF Inv, LocalInv
<1>3. pc' \in [Domain -> Place \ {"fatal"}] /\ pc'[d] = "ghosts"
      /\ \A e \in Domain \ {d} : pc'[e] = pc[e]
  BY <1>1, <1>2 DEF Shape, Place
<1>4. Shape' /\ OthersStay(d)
  BY <1>1, <1>2, <1>3 DEF Shape, OthersStay
<1>5. /\ Retagged(d) = MovesOf(i, d) /\ Retagged(d) = Pairs(i, Own(d))
      /\ limit[d][d] = MaxIndex + 1
      /\ DOMAIN Compressed(d) = {New(i, n) : n \in Own(d)}
      /\ \A n \in Own(d) : Compressed(d)[New(i, n)] =
           [node |-> n, arms |-> OldArms(i, n), kind |-> "native"]
  BY <1>1, <1>2, CompressedIs
<1>6. keys'[d] = Compressed(d) /\ tagMap'[d] = Pairs(i, Own(d))
  BY <1>1, <1>2, <1>5 DEF Shape
<1>7. limit'[d] \in [Domain -> 0 .. MaxIndex + 1] /\ limit'[d][d] = Top(i, d)
  <2>1. limit[d] = [e \in Domain |-> IF d = e THEN MaxIndex + 1 ELSE 0]
        /\ MaxIndex \in Nat
    BY <1>1, <1>2, FiniteAssumption DEF SortedInv
  <2>2. limit[d] \in [Domain -> 0 .. MaxIndex + 1]
    BY <2>1
  <2>3. limit'[d] = [limit[d] EXCEPT ![d] = @ - Cardinality(Retagged(d))]
    BY <1>1, <1>2 DEF Shape
  <2>4. limit'[d] = [limit[d] EXCEPT ![d] = Top(i, d)]
    BY <1>5, <2>3 DEF Top
  <2>5. Top(i, d) \in 0 .. MaxIndex + 1
    BY MovesArePairs
  <2> QED BY <2>2, <2>4, <2>5
<1>8. Held(d)' = Own(d)
  <2>1. \A n \in Own(d) : Compressed(d)[New(i, n)].node = n
    <3> TAKE n \in Own(d)
    <3>1. Compressed(d)[New(i, n)] = [node |-> n, arms |-> OldArms(i, n), kind |-> "native"]
      BY <1>5
    <3> QED BY <3>1, CopyFields
  <2>2. {Compressed(d)[t].node : t \in DOMAIN Compressed(d)} = Own(d)
    BY <1>5, <2>1, HeldIs
  <2> QED BY <1>6, <2>2 DEF Held
<1>9. LocalInv(i, d)'
  <2>1. Own(d) \subseteq Node /\ \A n \in Own(d) : n \in Node /\ Owner[n] = d
    BY DEF Own
  <2>2. \A n \in Own(d) : ArmsNow(i, d, n)' = OldArms(i, n) /\ KindOf(d, n) = "native"
    BY <1>3 DEF ArmsNow, KindOf
  <2>3. \A n \in Own(d) : keys'[d][New(i, n)] =
          [node |-> n, arms |-> ArmsNow(i, d, n)', kind |-> KindOf(d, n)]
    BY <1>5, <1>6, <2>2
  <2>4. \A n \in Own(d) : New(i, n)[2] < limit'[d][Owner[n]]
    BY <1>7, <2>1, TagFacts
  <2>5. ghostCount'[d] = Cardinality(Own(d) \ Own(d))
    <3>1. Own(d) \ Own(d) = {}
      OBVIOUS
    <3> QED BY <1>1, <1>2, <3>1, FS_EmptySet DEF SortedInv
  <2>6. KeysInv(i, d)'
    BY <1>3, <1>5, <1>6, <1>7, <1>8, <2>1, <2>3, <2>4, <2>5 DEF KeysInv
  <2>7. SortedInv(i, d)' /\ HeldInv(i, d)' /\ StatusInv(d)'
    BY <1>3, <1>8 DEF SortedInv, HeldInv, StatusInv
  <2>8. AskedInv(i, d)'
    <3>1. ReqDomList(d)' = ReqDomList(d) /\ answered[d] = {}
      BY <1>1, <1>2 DEF ReqDomList, AskedInv
    <3> QED BY <1>1, <1>2, <1>3, <3>1 DEF AskedInv, Asked
  <2> QED BY <2>6, <2>7, <2>8 DEF LocalInv
<1>10. SlotsInv(d)'
  BY <1>1, <1>2, SlotsStay
<1>11. ASSUME NEW e \in Domain, NEW f \in Domain PROVE PairInv(i, e, f)'
  <2>1. GhostBufInv(i, f, e) /\ RequestInv(e, f) /\ ResponseInv(i, f, e)
    BY DEF Inv, PairInv
  <2>2. pc'[e] = pc[e] \/ pc[e] = "sorted"
    BY <1>1, <1>3
  <2>3. pc'[f] = pc[f] \/ pc'[f] # "sorted"
    BY <1>3
  <2>4. RequestInv(e, f)' /\ ResponseInv(i, f, e)'
    BY <1>1, <2>1, <2>2 DEF RequestInv, ResponseInv, HasAsked
  <2>5. <<f, e>> \in Pair
    BY DEF Pair
  <2>6. GhostBufInv(i, f, e)'
    <3>1. CASE f = d /\ e \in RemoteDomains(d)
      <4> DEFINE buf == PackedGhosts(d, e, Retagged(d), Compressed(d))
      <4>1. ghostBuf'[<<f, e>>] = buf
        BY <1>1, <2>5, <3>1
      <4>2. /\ buf = [limit |-> Top(i, d), cells |-> ExpCells(d, e), nodes |-> buf.nodes,
                      maps |-> Pairs(i, Exported(d, e))]
            /\ DOMAIN buf.nodes = {New(i, n) : n \in Exported(d, e)}
            /\ \A n \in Exported(d, e) : buf.nodes[New(i, n)] =
                 [node |-> n, arms |-> OldArms(i, n), kind |-> "native"]
        BY <1>1, <1>2, PackedIs
      <4> HIDE DEF buf
      <4> QED BY <1>3, <3>1, <4>1, <4>2 DEF GhostBufInv
    <3>2. CASE ~(f = d /\ e \in RemoteDomains(d))
      <4>1. ghostBuf'[<<f, e>>] = ghostBuf[<<f, e>>]
        BY <1>1, <2>5, <3>2
      <4> QED BY <2>1, <2>3, <4>1, GhostBufStays
    <3> QED BY <3>1, <3>2
  <2> QED BY <2>4, <2>6 DEF PairInv
<1> QED BY <1>1, <1>4, <1>9, <1>10, <1>11, StepKeepsInv
-----------------------------------------------------------------------------
(* The buffers of all remote domains together hold the nodes a domain      *)
(* sees, once each.                                                        *)
NewTags(i, S) == {New(i, n) : n \in S}

LEMMA ExtendedIs ==
  ASSUME NEW i \in Indices, NEW S \in SUBSET Node, NEW T \in SUBSET Node, S \cap T = {},
         NEW f, NEW g, DOMAIN f = NewTags(i, S), DOMAIN g = NewTags(i, T)
  PROVE  /\ DOMAIN Extended(f, g) = NewTags(i, S \cup T)
         /\ \A n \in S : Extended(f, g)[New(i, n)] = f[New(i, n)]
         /\ \A n \in T : Extended(f, g)[New(i, n)] = g[New(i, n)]
<1>1. DOMAIN Extended(f, g) = NewTags(i, S \cup T)
  BY DEF Extended, NewTags
<1>2. ASSUME NEW n \in S PROVE Extended(f, g)[New(i, n)] = f[New(i, n)]
  <2>1. New(i, n) \in DOMAIN f
    BY DEF NewTags
  <2> QED BY <2>1 DEF Extended
<1>3. ASSUME NEW n \in T PROVE Extended(f, g)[New(i, n)] = g[New(i, n)]
  <2>1. New(i, n) \in DOMAIN g
    BY DEF NewTags
  <2>2. New(i, n) \notin DOMAIN f
    <3> SUFFICES ASSUME New(i, n) \in DOMAIN f PROVE FALSE
      OBVIOUS
    <3>1. PICK m \in S : New(i, n) = New(i, m)
      BY DEF NewTags
    <3>2. m = n
      BY <3>1, TagFacts
    <3> QED BY <3>2
  <2> QED BY <2>1, <2>2 DEF Extended
<1> QED BY <1>1, <1>2, <1>3

LEMMA ArrivedGhosts ==
  ASSUME NEW i \in Indices, Inv(i), NEW d \in Domain,
         \A e \in RemoteDomains(d) : ghostBuf[<<e, d>>] # None
  PROVE  LET bufs == [e \in RemoteDomains(d) |-> ghostBuf[<<e, d>>]] IN
         /\ UNION {DOMAIN bufs[e].nodes : e \in DOMAIN bufs} = {New(i, n) : n \in Seen(d)}
         /\ \A n \in Seen(d) : AsGhost(bufs[New(i, n)[1]].nodes[New(i, n)]) =
              [node |-> n, arms |-> OldArms(i, n), kind |-> "ghost"]
         /\ UNION {bufs[e].cells : e \in DOMAIN bufs} \subseteq CellList(d)
         /\ UNION {bufs[e].maps : e \in DOMAIN bufs} = Pairs(i, Seen(d))
         /\ \A e \in RemoteDomains(d) : bufs[e].limit = Top(i, e)
<1> DEFINE RD == RemoteDomains(d)
           bufs == [e \in RD |-> ghostBuf[<<e, d>>]]
<1>1. \A e \in RD : e \in Domain \ {d}
  BY DEF RemoteDomains
<1>2. ASSUME NEW e \in RD
      PROVE  /\ bufs[e].limit = Top(i, e) /\ bufs[e].cells = ExpCells(e, d)
             /\ bufs[e].maps = Pairs(i, Exported(e, d))
             /\ DOMAIN bufs[e].nodes = {New(i, n) : n \in Exported(e, d)}
             /\ \A n \in Exported(e, d) : bufs[e].nodes[New(i, n)] =
                  [node |-> n, arms |-> OldArms(i, n), kind |-> "native"]
  <2>1. e \in Domain /\ ghostBuf[<<e, d>>] # None /\ bufs[e] = ghostBuf[<<e, d>>]
    BY <1>1
  <2>2. GhostBufInv(i, e, d)
    BY <2>1 DEF Inv, PairInv
  <2>3. /\ bufs[e] = [limit |-> Top(i, e), cells |-> ExpCells(e, d),
                      nodes |-> bufs[e].nodes, maps |-> Pairs(i, Exported(e, d))]
        /\ DOMAIN bufs[e].nodes = {New(i, n) : n \in Exported(e, d)}
        /\ \A n \in Exported(e, d) : bufs[e].nodes[New(i, n)] =
             [node |-> n, arms |-> OldArms(i, n), kind |-> "native"]
    BY <2>1, <2>2 DEF GhostBufInv
  <2> HIDE DEF bufs
  <2>4. bufs[e].limit = Top(i, e) /\ bufs[e].cells = ExpCells(e, d)
        /\ bufs[e].maps = Pairs(i, Exported(e, d))
    BY <2>3
  <2> QED BY <2>3, <2>4
<1>3. DOMAIN bufs = RD
  OBVIOUS
<1> HIDE DEF bufs, RD
<1>4. \A e \in RD : /\ Exported(e, d) \subseteq Seen(d) /\ ExpCells(e, d) \subseteq CellList(d)
  BY <1>1, ExportedFacts
<1>5. \A n \in Seen(d) : Owner[n] \in RD /\ n \in Exported(Owner[n], d) /\ n \in Node
  BY SeenFacts DEF RD
<1>6. UNION {DOMAIN bufs[e].nodes : e \in DOMAIN bufs} = {New(i, n) : n \in Seen(d)}
  <2>1. ASSUME NEW e \in RD, NEW t \in DOMAIN bufs[e].nodes
        PROVE  t \in {New(i, n) : n \in Seen(d)}
    BY <1>2, <1>4
  <2>2. ASSUME NEW n \in Seen(d)
        PROVE  \E e \in RD : New(i, n) \in DOMAIN bufs[e].nodes
    BY <1>2, <1>5
  <2> QED BY <1>3, <2>1, <2>2
<1>7. ASSUME NEW n \in Seen(d)
      PROVE  AsGhost(bufs[New(i, n)[1]].nodes[New(i, n)]) =
               [node |-> n, arms |-> OldArms(i, n), kind |-> "ghost"]
  <2>1. New(i, n)[1] = Owner[n]
    BY <1>5, TagFacts
  <2>2. bufs[New(i, n)[1]].nodes[New(i, n)] =
          [node |-> n, arms |-> OldArms(i, n), kind |-> "native"]
    BY <1>2, <1>5, <2>1
  <2> QED BY <2>2 DEF AsGhost
<1>8. UNION {bufs[e].cells : e \in DOMAIN bufs} \subseteq CellList(d)
  BY <1>2, <1>3, <1>4
<1>9. UNION {bufs[e].maps : e \in DOMAIN bufs} = Pairs(i, Seen(d))
  <2>1. ASSUME NEW e \in RD, NEW p \in bufs[e].maps PROVE p \in Pairs(i, Seen(d))
    <3>1. PICK n \in Exported(e, d) : New(i, n) # Old(i, n)
                                      /\ p = [old |-> Old(i, n), new |-> New(i, n)]
      BY <1>2 DEF Pairs
    <3> QED BY <1>4, <3>1 DEF Pairs
  <2>2. ASSUME NEW p \in Pairs(i, Seen(d)) PROVE \E e \in RD : p \in bufs[e].maps
    <3>1. PICK n \in Seen(d) : New(i, n) # Old(i, n)
                               /\ p = [old |-> Old(i, n), new |-> New(i, n)]
      BY DEF Pairs
    <3>2. Owner[n] \in RD /\ n \in Exported(Owner[n], d)
      BY <1>5
    <3>3. p \in Pairs(i, Exported(Owner[n], d))
      BY <3>1, <3>2 DEF Pairs
    <3> QED BY <1>2, <3>2, <3>3
  <2> QED BY <1>3, <2>1, <2>2
<1> QED BY <1>2, <1>6, <1>7, <1>8, <1>9 DEF bufs, RD

LEMMA UnpackGhostsKeepsInv ==
  ASSUME NEW i \in Indices, Inv(i), NEW d \in Domain, UnpackGhosts(d)
  PROVE  Inv(i)'
<1> DEFINE RD == RemoteDomains(d)
           bufs == [e \in RD |-> ghostBuf[<<e, d>>]]
           tags == UNION {DOMAIN bufs[e].nodes : e \in DOMAIN bufs}
           cells == UNION {bufs[e].cells : e \in DOMAIN bufs}
           maps == UNION {bufs[e].maps : e \in DOMAIN bufs}
           G == [t \in tags |-> AsGhost(bufs[t[1]].nodes[t])]
<1>1. /\ pc[d] = "ghosts" /\ \A e \in RD : ghostBuf[<<e, d>>] # None
      /\ keys' = [keys EXCEPT ![d] = Extended(keys[d], G)]
      /\ limit' = [limit EXCEPT ![d] =
           [e \in Domain |-> IF e \in DOMAIN bufs THEN bufs[e].limit ELSE limit[d][e]]]
      /\ tagMap' = [tagMap EXCEPT ![d] = tagMap[d] \cup maps]
      /\ ghostCount' = [ghostCount EXCEPT ![d] = Cardinality(tags)]
      /\ ghostBuf' = [p \in Pair |-> IF p[2] = d THEN None ELSE ghostBuf[p]]
      /\ pc' = [pc EXCEPT ![d] = IF cells \subseteq CellList(d) THEN "scan" ELSE "fatal"]
      /\ UNCHANGED <<reqBuf, request, slots, response, inStatus, answered>>
  <2>1. Shape
    BY DEF Inv
  <2> QED BY <2>1 DEF UnpackGhosts, Arrived, Goto, reqVars, respVars, Shape
<1>2. Shape /\ KeysInv(i, d) /\ HeldInv(i, d) /\ AskedInv(i, d) /\ SlotsInv(d)
  BY DEF Inv, LocalInv
<1>3. /\ tags = {New(i, n) : n \in Seen(d)}
      /\ \A n \in Seen(d) : AsGhost(bufs[New(i, n)[1]].nodes[New(i, n)]) =
           [node |-> n, arms |-> OldArms(i, n), kind |-> "ghost"]
      /\ cells \subseteq CellList(d) /\ maps = Pairs(i, Seen(d))
      /\ \A e \in RD : bufs[e].limit = Top(i, e)
  BY <1>1, ArrivedGhosts
<1>4. DOMAIN bufs = RD /\ DOMAIN G = tags /\ \A t \in tags : G[t] = AsGhost(bufs[t[1]].nodes[t])
  OBVIOUS
<1> HIDE DEF bufs, tags, cells, maps, G, RD
<1>5. DOMAIN G = {New(i, n) : n \in Seen(d)}
      /\ \A n \in Seen(d) : G[New(i, n)] = [node |-> n, arms |-> OldArms(i, n), kind |-> "ghost"]
  BY <1>3, <1>4
<1>6. pc' \in [Domain -> Place \ {"fatal"}] /\ pc'[d] = "scan"
      /\ \A e \in Domain \ {d} : pc'[e] = pc[e]
  BY <1>1, <1>2, <1>3 DEF Shape, Place
<1>7. Shape' /\ OthersStay(d)
  BY <1>1, <1>2, <1>6 DEF Shape, OthersStay
<1>8. /\ Own(d) \subseteq Node /\ Seen(d) \subseteq Node /\ Own(d) \cap Seen(d) = {}
      /\ InReach(d) = Own(d) \cup Seen(d) /\ InReach(d) \ Own(d) = Seen(d)
      /\ InReach(d) \subseteq Node
  BY DEF Own, Seen, InReach
<1>9. Held(d) = Own(d) /\ pc[d] # "sorted" /\ pc[d] # "done"
  BY <1>1, <1>2 DEF HeldInv
<1>10. /\ DOMAIN keys[d] = {New(i, n) : n \in Own(d)}
       /\ \A n \in Own(d) : keys[d][New(i, n)] =
            [node |-> n, arms |-> OldArms(i, n), kind |-> "native"]
       /\ \A n \in Own(d) : New(i, n)[2] < limit[d][Owner[n]]
       /\ limit[d] \in [Domain -> 0 .. MaxIndex + 1]
       /\ tagMap[d] = Pairs(i, Own(d))
  BY <1>2, <1>9 DEF KeysInv, ArmsNow, KindOf
<1> DEFINE E == Extended(keys[d], G)
<1>11. /\ DOMAIN E = {New(i, n) : n \in InReach(d)}
       /\ \A n \in Own(d) : E[New(i, n)] = keys[d][New(i, n)]
       /\ \A n \in Seen(d) : E[New(i, n)] = G[New(i, n)]
  <2> DEFINE S == Own(d)
             T == Seen(d)
             f == keys[d]
  <2>1. S \in SUBSET Node /\ T \in SUBSET Node /\ S \cap T = {}
    BY <1>8
  <2>2. DOMAIN f = NewTags(i, S) /\ DOMAIN G = NewTags(i, T)
    BY <1>5, <1>10 DEF NewTags
  <2>3. InReach(d) = S \cup T /\ E = Extended(f, G)
    BY <1>8
  <2> HIDE DEF S, T, f, E
  <2>4. /\ DOMAIN Extended(f, G) = NewTags(i, S \cup T)
        /\ \A n \in S : Extended(f, G)[New(i, n)] = f[New(i, n)]
        /\ \A n \in T : Extended(f, G)[New(i, n)] = G[New(i, n)]
    BY <2>1, <2>2, ExtendedIs
  <2> QED BY <2>3, <2>4 DEF S, T, f, NewTags
<1> HIDE DEF E
<1>12. \A n \in InReach(d) : E[New(i, n)] =
         [node |-> n, arms |-> OldArms(i, n), kind |-> KindOf(d, n)]
  <2>1. ASSUME NEW n \in Own(d)
        PROVE  E[New(i, n)] = [node |-> n, arms |-> OldArms(i, n), kind |-> KindOf(d, n)]
    BY <1>10, <1>11 DEF KindOf
  <2>2. ASSUME NEW n \in Seen(d)
        PROVE  E[New(i, n)] = [node |-> n, arms |-> OldArms(i, n), kind |-> KindOf(d, n)]
    BY <1>5, <1>8, <1>11 DEF KindOf
  <2> QED BY <1>8, <2>1, <2>2
<1>13. keys'[d] = E /\ tagMap'[d] = Pairs(i, InReach(d)) /\ ghostCount'[d] = Cardinality(tags)
  BY <1>1, <1>2, <1>3, <1>8, <1>10, PairsGrow DEF Shape, E
<1>14. limit'[d] = [e \in Domain |-> IF e \in RD THEN Top(i, e) ELSE limit[d][e]]
  BY <1>1, <1>2, <1>3, <1>4 DEF Shape
<1>15. limit'[d] \in [Domain -> 0 .. MaxIndex + 1]
  <2>1. \A e \in Domain : Top(i, e) \in 0 .. MaxIndex + 1
    BY MovesArePairs
  <2> QED BY <1>10, <1>14, <2>1
<1>16. \A n \in InReach(d) : New(i, n)[2] < limit'[d][Owner[n]]
  <2>1. ASSUME NEW n \in Own(d) PROVE New(i, n)[2] < limit'[d][Owner[n]]
    <3>1. Owner[n] = d /\ d \notin RD
      BY DEF Own, RD, RemoteDomains
    <3> QED BY <1>10, <1>14, <3>1
  <2>2. ASSUME NEW n \in Seen(d) PROVE New(i, n)[2] < limit'[d][Owner[n]]
    <3>1. Owner[n] \in RD /\ Owner[n] \in Domain /\ n \in Node
      BY SeenFacts DEF RD
    <3>2. New(i, n)[2] < Top(i, Owner[n])
      BY <3>1, TagFacts
    <3> QED BY <1>14, <3>1, <3>2
  <2> QED BY <1>8, <2>1, <2>2
<1>17. Held(d)' = InReach(d)
  <2>1. \A n \in InReach(d) : E[New(i, n)].node = n
    <3> TAKE n \in InReach(d)
    <3>1. E[New(i, n)] = [node |-> n, arms |-> OldArms(i, n), kind |-> KindOf(d, n)]
      BY <1>12
    <3> QED BY <3>1, CopyFields
  <2>2. {E[t].node : t \in DOMAIN E} = InReach(d)
    BY <1>11, <2>1, HeldIs
  <2> QED BY <1>13, <2>2 DEF Held
<1>18. LocalInv(i, d)'
  <2>1. \A n \in InReach(d) : keys'[d][New(i, n)] =
          [node |-> n, arms |-> ArmsNow(i, d, n)', kind |-> KindOf(d, n)]
    <3>1. \A n : ArmsNow(i, d, n)' = OldArms(i, n)
      BY <1>6 DEF ArmsNow
    <3> QED BY <1>12, <1>13, <3>1
  <2>2. ghostCount'[d] = Cardinality(InReach(d) \ Own(d))
    BY <1>3, <1>8, <1>13, ImageCount
  <2>3. KeysInv(i, d)'
    BY <1>6, <1>8, <1>11, <1>13, <1>15, <1>16, <1>17, <2>1, <2>2 DEF KeysInv
  <2>4. SortedInv(i, d)' /\ HeldInv(i, d)' /\ StatusInv(d)'
    BY <1>6, <1>17 DEF SortedInv, HeldInv, StatusInv
  <2>5. AskedInv(i, d)'
    <3>1. ReqDomList(d)' = ReqDomList(d) /\ answered[d] = {}
      BY <1>1, <1>2 DEF ReqDomList, AskedInv
    <3> QED BY <1>1, <1>2, <1>6, <3>1 DEF AskedInv, Asked
  <2> QED BY <2>3, <2>4, <2>5 DEF LocalInv
<1>19. SlotsInv(d)'
  BY <1>1, <1>2, SlotsStay
<1>20. ASSUME NEW e \in Domain, NEW f \in Domain PROVE PairInv(i, e, f)'
  <2>1. GhostBufInv(i, f, e) /\ RequestInv(e, f) /\ ResponseInv(i, f, e)
    BY DEF Inv, PairInv
  <2>2. pc'[e] = pc[e] \/ pc[e] = "ghosts"
    BY <1>1, <1>6
  <2>3. pc'[f] = pc[f] \/ pc'[f] # "sorted"
    BY <1>6
  <2>4. RequestInv(e, f)' /\ ResponseInv(i, f, e)'
    BY <1>1, <2>1, <2>2 DEF RequestInv, ResponseInv, HasAsked
  <2>5. ghostBuf'[<<f, e>>] \in {ghostBuf[<<f, e>>], None}
    BY <1>1 DEF Pair
  <2>6. GhostBufInv(i, f, e)'
    BY <2>1, <2>3, <2>5, GhostBufStays
  <2> QED BY <2>4, <2>6 DEF PairInv
<1> QED BY <1>1, <1>7, <1>18, <1>19, <1>20, StepKeepsInv
-----------------------------------------------------------------------------
(* A domain asks for the far ends it does not have, of the owner of the    *)
(* ghost, which has them: a far end of its own node is in its reach.       *)
LEMMA MissingIs ==
  ASSUME NEW i \in Indices, NEW d \in Domain, KeysInv(i, d), HeldInv(i, d), pc[d] = "scan",
         NEW n \in InReach(d)
  PROVE  /\ New(i, n) \in DOMAIN keys[d]
         /\ \A a \in Missing(d, New(i, n)) :
              /\ n \in Seen(d)
              /\ \E m \in InReach(Owner[n]) : a = Old(i, m)
         /\ n \in Seen(d) => \A m \in Nbrs(n) :
              m \in Held(d) \/ Old(i, m) \in Missing(d, New(i, n))
<1>1. pc[d] # "sorted" /\ pc[d] # "done" /\ Held(d) = InReach(d)
  BY DEF HeldInv
<1>2. New(i, n) \in DOMAIN keys[d] /\ n \in Node
      /\ keys[d][New(i, n)] = [node |-> n, arms |-> OldArms(i, n), kind |-> KindOf(d, n)]
  BY <1>1 DEF KeysInv, ArmsNow
<1>3. keys[d][New(i, n)].node = n /\ keys[d][New(i, n)].arms = OldArms(i, n)
  BY <1>2, CopyFields
<1>4. /\ \A t : Known(keys[d], limit[d], t) <=> t \in DOMAIN keys[d]
      /\ \A m \in Node : Old(i, m) \in DOMAIN keys[d] <=> m \in Held(d) /\ New(i, m) = Old(i, m)
  BY <1>1, KnownFacts
<1>5. DOMAIN OldArms(i, n) = Nbrs(n) /\ \A m \in Nbrs(n) : OldArms(i, n)[m] = Old(i, m)
  BY DEF OldArms
<1>6. Missing(d, New(i, n)) =
        {a \in {Old(i, m) : m \in Nbrs(n)} :
           /\ CellOf[n] \in CellList(d) \ NativeCells[d]
           /\ a \notin DOMAIN keys[d]}
  BY <1>3, <1>4, <1>5 DEF Missing
<1>7. ASSUME NEW a \in Missing(d, New(i, n))
      PROVE  n \in Seen(d) /\ \E m \in InReach(Owner[n]) : a = Old(i, m)
  <2>1. PICK m \in Nbrs(n) : a = Old(i, m)
    BY <1>6
  <2>2. CellOf[n] \in CellList(d) /\ CellOf[n] \notin NativeCells[d]
    BY <1>6
  <2>3. n \notin Own(d)
    BY <2>2, CellFacts
  <2>4. CellOf[n] \in NativeCells[Owner[n]] /\ Owner[n] \in Domain
    BY <1>2, OwnerAssumption
  <2>5. m \in InReach(Owner[n])
    BY <1>2, <2>1, <2>4, NbrsInReach
  <2> QED BY <2>1, <2>3, <2>5 DEF InReach
<1>8. ASSUME n \in Seen(d), NEW m \in Nbrs(n), m \notin Held(d)
      PROVE  Old(i, m) \in Missing(d, New(i, n))
  <2>1. CellOf[n] \notin NativeCells[d]
    BY <1>1, <1>2, <1>8, NbrsInReach
  <2>2. CellOf[n] \in CellList(d)
    BY <1>8 DEF Seen
  <2>3. m \in Node
    BY DEF Nbrs
  <2>4. Old(i, m) \notin DOMAIN keys[d]
    BY <1>4, <1>8, <2>3
  <2> QED BY <1>6, <2>1, <2>2, <2>4
<1> QED BY <1>2, <1>7, <1>8

LEMMA RequestsAre ==
  ASSUME NEW i \in Indices, NEW d \in Domain, KeysInv(i, d), HeldInv(i, d), pc[d] = "scan"
  PROVE  /\ DOMAIN Requests(d) \subseteq RemoteDomains(d)
         /\ \A e \in DOMAIN Requests(d) : Requests(d)[e] \subseteq {Old(i, m) : m \in InReach(e)}
         /\ \A g \in Seen(d) : \A m \in Nbrs(g) :
              \/ m \in Held(d)
              \/ Owner[g] \in DOMAIN Requests(d) /\ Old(i, m) \in Requests(d)[Owner[g]]
<1> DEFINE T == {t \in DOMAIN keys[d] : Missing(d, t) # {}}
           Q == Requests(d)
<1>1. /\ DOMAIN Q = {t[1] : t \in T}
      /\ \A e \in {t[1] : t \in T} : Q[e] = UNION {Missing(d, t) : t \in {u \in T : u[1] = e}}
  BY DEF Requests
<1>2. DOMAIN keys[d] = {New(i, n) : n \in InReach(d)}
  BY DEF KeysInv, HeldInv
<1>3. \A n \in InReach(d) : New(i, n)[1] = Owner[n]
  BY CellFacts, TagFacts
<1> HIDE DEF Q
<1>4. ASSUME NEW t \in T
      PROVE  \E n \in Seen(d) : /\ t = New(i, n) /\ t[1] = Owner[n]
                                /\ Missing(d, t) \subseteq {Old(i, m) : m \in InReach(Owner[n])}
  <2>1. PICK n \in InReach(d) : t = New(i, n)
    BY <1>2
  <2>2. \A a \in Missing(d, New(i, n)) : n \in Seen(d) /\ \E m \in InReach(Owner[n]) : a = Old(i, m)
    BY MissingIs
  <2>3. n \in Seen(d) /\ Missing(d, t) \subseteq {Old(i, m) : m \in InReach(Owner[n])}
    BY <2>1, <2>2
  <2> QED BY <1>3, <2>1, <2>3
<1>5. ASSUME NEW e \in DOMAIN Q PROVE e \in RemoteDomains(d)
  <2>1. PICK t \in T : e = t[1]
    BY <1>1
  <2>2. PICK n \in Seen(d) : t[1] = Owner[n]
    BY <1>4
  <2> QED BY <2>1, <2>2, SeenFacts
<1>6. ASSUME NEW e \in DOMAIN Q, NEW a \in Q[e] PROVE a \in {Old(i, m) : m \in InReach(e)}
  <2>1. PICK t \in T : t[1] = e /\ a \in Missing(d, t)
    BY <1>1
  <2> QED BY <1>4, <2>1
<1>7. ASSUME NEW g \in Seen(d), NEW m \in Nbrs(g), m \notin Held(d)
      PROVE  Owner[g] \in DOMAIN Q /\ Old(i, m) \in Q[Owner[g]]
  <2>1. g \in InReach(d)
    BY DEF InReach
  <2>2. New(i, g) \in DOMAIN keys[d] /\ Old(i, m) \in Missing(d, New(i, g))
    BY <1>7, <2>1, MissingIs
  <2>3. New(i, g) \in T /\ New(i, g)[1] = Owner[g]
    BY <1>3, <2>1, <2>2
  <2>4. Owner[g] \in {t[1] : t \in T}
    BY <2>3
  <2>5. Old(i, m) \in UNION {Missing(d, t) : t \in {u \in T : u[1] = Owner[g]}}
    BY <2>2, <2>3
  <2> QED BY <1>1, <2>4, <2>5
<1> QED BY <1>5, <1>6, <1>7 DEF Q

LEMMA RequestSecondaryKeepsInv ==
  ASSUME NEW i \in Indices, Inv(i), NEW d \in Domain, RequestSecondary(d)
  PROVE  Inv(i)'
<1>1. /\ pc[d] = "scan" /\ pc' = [pc EXCEPT ![d] = "reduce"]
      /\ reqBuf' = [reqBuf EXCEPT ![d] = Requests(d)]
      /\ UNCHANGED <<keys, limit, tagMap, ghostCount, ghostBuf, request, slots,
                     response, inStatus, answered>>
  BY DEF RequestSecondary, Goto, keyVars, respVars
<1>2. Shape /\ KeysInv(i, d) /\ HeldInv(i, d) /\ AskedInv(i, d) /\ SlotsInv(d)
  BY DEF Inv, LocalInv
<1>3. pc' \in [Domain -> Place \ {"fatal"}] /\ pc'[d] = "reduce"
      /\ \A e \in Domain \ {d} : pc'[e] = pc[e] /\ reqBuf'[e] = reqBuf[e]
  BY <1>1, <1>2 DEF Shape, Place
<1>4. Shape' /\ OthersStay(d)
  BY <1>1, <1>2, <1>3 DEF Shape, OthersStay
<1>5. LocalInv(i, d)'
  <2>1. Held(d)' = Held(d) /\ Held(d) = InReach(d) /\ reqBuf'[d] = Requests(d)
    BY <1>1, <1>2 DEF Held, HeldInv, Shape
  <2>2. \A n : ArmsNow(i, d, n)' = ArmsNow(i, d, n)
    BY <1>1, <1>3, <2>1 DEF ArmsNow
  <2>3. SortedInv(i, d)' /\ StatusInv(d)' /\ HeldInv(i, d)'
    BY <1>3, <2>1 DEF SortedInv, StatusInv, HeldInv
  <2>4. KeysInv(i, d)'
    BY <1>1, <1>2, <1>3, <2>1, <2>2 DEF KeysInv
  <2>5. answered'[d] = {}
    BY <1>1, <1>2 DEF AskedInv
  <2>6. /\ DOMAIN reqBuf'[d] \subseteq RemoteDomains(d)
        /\ \A e \in DOMAIN reqBuf'[d] : reqBuf'[d][e] \subseteq {Old(i, m) : m \in InReach(e)}
        /\ \A g \in Seen(d) : \A m \in Nbrs(g) :
             \/ m \in Held(d)'
             \/ Owner[g] \in DOMAIN reqBuf'[d] /\ Old(i, m) \in reqBuf'[d][Owner[g]]
    BY <1>1, <1>2, <2>1, RequestsAre
  <2>7. AskedInv(i, d)'
    BY <2>5, <2>6 DEF AskedInv
  <2> QED BY <2>3, <2>4, <2>7 DEF LocalInv
<1>6. SlotsInv(d)'
  BY <1>1, <1>2, SlotsStay
<1>7. ASSUME NEW e \in Domain, NEW f \in Domain PROVE PairInv(i, e, f)'
  <2>1. GhostBufInv(i, f, e) /\ RequestInv(e, f) /\ ResponseInv(i, f, e)
    BY DEF Inv, PairInv
  <2>2. pc'[f] = pc[f] \/ pc'[f] # "sorted"
    BY <1>3
  <2>3. GhostBufInv(i, f, e)'
    BY <1>1, <2>1, <2>2, GhostBufStays
  <2>4. RequestInv(e, f)' /\ ResponseInv(i, f, e)'
    <3>1. CASE e = d
      BY <1>1, <2>1, <3>1 DEF RequestInv, ResponseInv, HasAsked
    <3>2. CASE e # d
      BY <1>1, <1>3, <2>1, <3>2 DEF RequestInv, ResponseInv
    <3> QED BY <3>1, <3>2
  <2> QED BY <2>3, <2>4 DEF PairInv
<1> QED BY <1>1, <1>4, <1>5, <1>6, <1>7, StepKeepsInv
-----------------------------------------------------------------------------
(* Every request can be answered, with the node, its new tag and its arms. *)
LEMMA AnswerIs ==
  ASSUME NEW i \in Indices, NEW d \in Domain, KeysInv(i, d),
         pc[d] # "sorted", pc[d] # "done", NEW m \in Held(d)
  PROVE  /\ KnownAfter(keys[d], limit[d], tagMap[d], Old(i, m))
         /\ Answer(d, Old(i, m)) = AnswerFor(i, m)
<1>1. /\ Held(d) \subseteq Node /\ m \in Node
      /\ \A t : Known(keys[d], limit[d], t) <=> t \in DOMAIN keys[d]
      /\ New(i, m) \in DOMAIN keys[d]
      /\ Old(i, m) \in DOMAIN keys[d] <=> New(i, m) = Old(i, m)
  BY KnownFacts
<1>2. NewTagOf(tagMap[d], Old(i, m)) = New(i, m)
  BY <1>1, PairsLookUp DEF KeysInv
<1>3. keys[d][New(i, m)] = [node |-> m, arms |-> OldArms(i, m), kind |-> KindOf(d, m)]
  BY DEF KeysInv, ArmsNow
<1>4. keys[d][New(i, m)].node = m /\ keys[d][New(i, m)].arms = OldArms(i, m)
  BY <1>3, CopyFields
<1>5. KnownAfter(keys[d], limit[d], tagMap[d], Old(i, m))
  BY <1>1, <1>2 DEF KnownAfter
<1>6. (IF Known(keys[d], limit[d], Old(i, m)) THEN Old(i, m)
       ELSE NewTagOf(tagMap[d], Old(i, m))) = New(i, m)
  BY <1>1, <1>2
<1>7. Answer(d, Old(i, m)) = AnswerFor(i, m)
  BY <1>4, <1>6 DEF Answer, AnswerFor
<1> QED BY <1>5, <1>7

LEMMA ServedIs ==
  ASSUME NEW i \in Indices, Inv(i), NEW d \in Domain, pc[d] = "requests",
         NEW e \in Domain, request[<<e, d>>] # None
  PROVE  /\ pc[e] \in HasAsked /\ d \in DOMAIN reqBuf[e] /\ e # d
         /\ CanAnswer(d, e) /\ Answers(d, e) = AnswersTo(i, reqBuf[e][d])
<1>1. /\ RequestInv(e, d) /\ AskedInv(i, e) /\ KeysInv(i, d) /\ HeldInv(i, d)
  BY DEF Inv, LocalInv, PairInv
<1>2. pc[e] \in HasAsked /\ d \in DOMAIN reqBuf[e] /\ request[<<e, d>>] = [tags |-> reqBuf[e][d]]
  BY <1>1 DEF RequestInv
<1>3. e # d
  BY <1>1, <1>2 DEF AskedInv, RemoteDomains
<1>4. request[<<e, d>>].tags = reqBuf[e][d]
  BY <1>2
<1> DEFINE Q == reqBuf[e][d]
<1>5. Q \subseteq {Old(i, m) : m \in InReach(d)} /\ Held(d) = InReach(d)
  BY <1>1, <1>2 DEF AskedInv, HeldInv
<1>6. Held(d) \subseteq Node
  BY <1>1 DEF KeysInv
<1>7. \A m \in Held(d) : /\ KnownAfter(keys[d], limit[d], tagMap[d], Old(i, m))
                         /\ Answer(d, Old(i, m)) = AnswerFor(i, m)
  BY <1>1, AnswerIs
<1> HIDE DEF Q
<1>8. CanAnswer(d, e)
  BY <1>4, <1>5, <1>7 DEF CanAnswer, Q
<1>9. Answers(d, e) = {Answer(d, t) : t \in Q}
  BY <1>4 DEF Answers, Q
<1>10. {m \in Node : Old(i, m) \in Q} \subseteq Held(d)
  BY <1>5, <1>6, TagFacts
<1>11. ASSUME NEW t \in Q PROVE Answer(d, t) \in AnswersTo(i, Q)
  <2>1. PICK m \in Held(d) : t = Old(i, m)
    BY <1>5
  <2> QED BY <1>6, <1>7, <2>1 DEF AnswersTo
<1>12. ASSUME NEW a \in AnswersTo(i, Q) PROVE a \in Answers(d, e)
  <2>1. PICK m \in Node : Old(i, m) \in Q /\ a = AnswerFor(i, m)
    BY DEF AnswersTo
  <2> QED BY <1>7, <1>9, <1>10, <2>1
<1>13. Answers(d, e) = AnswersTo(i, Q)
  BY <1>9, <1>11, <1>12
<1> QED BY <1>2, <1>3, <1>8, <1>13 DEF Q

LEMMA ServeRequestsKeepsInv ==
  ASSUME NEW i \in Indices, Inv(i), NEW d \in Domain, ServeRequests(d)
  PROVE  Inv(i)'
<1> DEFINE from == {slots[d][k] : k \in DOMAIN slots[d]}
<1>1. Shape /\ LocalInv(i, d) /\ SlotsInv(d)
  BY DEF Inv
<1>2. pc[d] = "requests"
  BY DEF ServeRequests
<1>3. \A e \in from : e \in Domain /\ request[<<e, d>>] # None
  <2>1. slots[d] \in Seq(Domain) /\ \A k \in DOMAIN slots[d] : slots[d][k] \in Domain
    BY <1>1 DEF SlotsInv
  <2> QED BY <1>1, <2>1 DEF SlotsInv
<1>4. \A e \in from : /\ pc[e] \in HasAsked /\ d \in DOMAIN reqBuf[e] /\ e # d
                      /\ CanAnswer(d, e) /\ Answers(d, e) = AnswersTo(i, reqBuf[e][d])
  BY <1>2, <1>3, ServedIs
<1>5. /\ response' = [p \in Pair |-> IF p[1] = d /\ p[2] \in from
                        THEN [nodes |-> Answers(d, p[2])] ELSE response[p]]
      /\ inStatus' = [inStatus EXCEPT ![d] = ReqDomList(d)]
      /\ pc' = [pc EXCEPT ![d] = "responses"]
      /\ request' = [p \in Pair |-> IF p[2] = d THEN None ELSE request[p]]
      /\ slots' = [slots EXCEPT ![d] = <<>>]
      /\ UNCHANGED <<keys, limit, tagMap, ghostCount, ghostBuf, reqBuf, answered>>
  BY <1>4 DEF ServeRequests, Goto, StatusOfLengths, keyVars
<1> HIDE DEF from
<1>6. pc' \in [Domain -> Place \ {"fatal"}] /\ pc'[d] = "responses"
      /\ \A e \in Domain \ {d} : pc'[e] = pc[e]
  BY <1>1, <1>5 DEF Shape, Place
<1>7. Shape' /\ OthersStay(d)
  BY <1>1, <1>5, <1>6 DEF Shape, OthersStay
<1>8. LocalInv(i, d)'
  <2>1. Held(d)' = Held(d) /\ ReqDomList(d)' = ReqDomList(d)
    BY <1>5 DEF Held, ReqDomList
  <2>2. \A n : ArmsNow(i, d, n)' = ArmsNow(i, d, n)
    BY <1>2, <1>6, <2>1 DEF ArmsNow
  <2>3. SortedInv(i, d)'
    BY <1>6 DEF SortedInv
  <2>4. KeysInv(i, d)'
    BY <1>1, <1>2, <1>5, <1>6, <2>1, <2>2 DEF LocalInv, KeysInv
  <2>5. HeldInv(i, d)'
    BY <1>1, <1>2, <1>6, <2>1 DEF LocalInv, HeldInv
  <2>6. AskedInv(i, d)'
    BY <1>1, <1>2, <1>5, <1>6, <2>1 DEF LocalInv, AskedInv, Asked
  <2>7. StatusInv(d)'
    <3>1. inStatus'[d] = ReqDomList(d)
      BY <1>1, <1>5 DEF Shape
    <3> QED BY <2>1, <3>1 DEF StatusInv
  <2> QED BY <2>3, <2>4, <2>5, <2>6, <2>7 DEF LocalInv
<1>9. SlotsInv(d)'
  <2>1. slots'[d] = <<>>
    BY <1>1, <1>5 DEF Shape
  <2> QED BY <2>1 DEF SlotsInv
<1>10. \A e \in Domain \ {d} : \A f \in Domain :
         request[<<f, e>>] # None => request'[<<f, e>>] # None
  BY <1>5 DEF Pair
<1>11. ASSUME NEW e \in Domain, NEW f \in Domain PROVE PairInv(i, e, f)'
  <2>1. GhostBufInv(i, f, e) /\ RequestInv(e, f) /\ ResponseInv(i, f, e)
    BY DEF Inv, PairInv
  <2>2. pc'[e] = pc[e] \/ pc'[e] \in HasAsked
    BY <1>6 DEF HasAsked
  <2>3. pc'[f] = pc[f] \/ pc'[f] # "sorted"
    BY <1>6
  <2>4. <<e, f>> \in Pair /\ <<f, e>> \in Pair /\ reqBuf'[e] = reqBuf[e]
    BY <1>5 DEF Pair
  <2>5. GhostBufInv(i, f, e)'
    BY <1>5, <2>1, <2>3, GhostBufStays
  <2>6. RequestInv(e, f)'
    <3>1. request'[<<e, f>>] \in {request[<<e, f>>], None}
      BY <1>5, <2>4
    <3> QED BY <2>1, <2>2, <2>4, <3>1, RequestStays
  <2>7. ResponseInv(i, f, e)'
    <3>1. CASE f = d /\ e \in from
      <4>1. response'[<<f, e>>] = [nodes |-> AnswersTo(i, reqBuf[e][f])]
        BY <1>4, <1>5, <2>4, <3>1
      <4>2. pc'[e] \in HasAsked /\ f \in DOMAIN reqBuf[e]
        BY <1>4, <1>6, <3>1
      <4> QED BY <2>4, <4>1, <4>2 DEF ResponseInv
    <3>2. CASE ~(f = d /\ e \in from)
      <4>1. response'[<<f, e>>] = response[<<f, e>>]
        BY <1>5, <2>4, <3>2
      <4> QED BY <2>1, <2>2, <2>4, <4>1, ResponseStays
    <3> QED BY <3>1, <3>2
  <2> QED BY <2>5, <2>6, <2>7 DEF PairInv
<1> QED BY <1>7, <1>8, <1>9, <1>10, <1>11, StepKeepsInv
-----------------------------------------------------------------------------
(* A response brings the nodes asked for that are not known yet, each once *)
(* and under the tag its owner gives it now, whichever response it is.     *)
LEMMA FreshIs ==
  ASSUME NEW i \in Indices, NEW d \in Domain, KeysInv(i, d),
         pc[d] # "sorted", pc[d] # "done", NEW A \in SUBSET Node
  PROVE  {a \in {AnswerFor(i, m) : m \in A} : ~AlreadyKnown(d, a)} =
           {AnswerFor(i, m) : m \in A \ Held(d)}
<1>1. /\ Held(d) \subseteq Node
      /\ \A t : Known(keys[d], limit[d], t) <=> t \in DOMAIN keys[d]
      /\ \A n \in Node : New(i, n) \in DOMAIN keys[d] <=> n \in Held(d)
      /\ \A n \in Node : Old(i, n) \in DOMAIN keys[d]
                           <=> n \in Held(d) /\ New(i, n) = Old(i, n)
  BY KnownFacts
<1>2. ASSUME NEW m \in A PROVE AlreadyKnown(d, AnswerFor(i, m)) <=> m \in Held(d)
  <2>1. AnswerFor(i, m).old = Old(i, m) /\ AnswerFor(i, m).new = New(i, m)
    BY DEF AnswerFor
  <2>2. NewTagOf(tagMap[d], Old(i, m)) = IF m \in Held(d) THEN New(i, m) ELSE Old(i, m)
    BY <1>1, PairsLookUp DEF KeysInv
  <2>3. AlreadyKnown(d, AnswerFor(i, m)) <=>
          \/ Old(i, m) \in DOMAIN keys[d]
          \/ New(i, m) # Old(i, m) /\ NewTagOf(tagMap[d], Old(i, m)) \in DOMAIN keys[d]
    BY <1>1, <2>1 DEF AlreadyKnown
  <2> QED BY <1>1, <2>2, <2>3
<1> QED BY <1>2

(* The nodes of a set of answers, as they are put under their tags.        *)
Copies(fresh) ==
  [t \in {a.new : a \in fresh} |->
     LET a == CHOOSE b \in fresh : b.new = t IN
     [node |-> a.node, arms |-> a.arms, kind |-> "secondary"]]

LEMMA CopiesAre ==
  ASSUME NEW i \in Indices, NEW F \in SUBSET Node
  PROVE  LET fresh == {AnswerFor(i, m) : m \in F} IN
         /\ DOMAIN Copies(fresh) = NewTags(i, F)
         /\ \A m \in F : Copies(fresh)[New(i, m)] =
              [node |-> m, arms |-> OldArms(i, m), kind |-> "secondary"]
<1> DEFINE fresh == {AnswerFor(i, m) : m \in F}
           at(t) == CHOOSE b \in fresh : b.new = t
<1>1. \A m \in F : /\ AnswerFor(i, m).new = New(i, m) /\ AnswerFor(i, m).node = m
                   /\ AnswerFor(i, m).arms = OldArms(i, m) /\ AnswerFor(i, m) \in fresh
  BY DEF AnswerFor
<1>2. {a.new : a \in fresh} = NewTags(i, F)
  BY <1>1 DEF NewTags
<1>3. ASSUME NEW m \in F PROVE at(New(i, m)) = AnswerFor(i, m)
  <2>1. \A b \in fresh : b.new = New(i, m) => b = AnswerFor(i, m)
    <3> TAKE b \in fresh
    <3>1. PICK k \in F : b = AnswerFor(i, k)
      OBVIOUS
    <3> HAVE b.new = New(i, m)
    <3>2. New(i, k) = New(i, m)
      BY <1>1, <3>1
    <3>3. k = m
      BY <3>2, TagFacts
    <3> QED BY <3>1, <3>3
  <2> HIDE DEF fresh
  <2> QED BY <1>1, <2>1
<1> HIDE DEF at, fresh
<1>4. Copies(fresh) = [t \in NewTags(i, F) |->
                         [node |-> at(t).node, arms |-> at(t).arms, kind |-> "secondary"]]
  BY <1>2 DEF Copies, at
<1>5. ASSUME NEW m \in F
      PROVE  Copies(fresh)[New(i, m)] =
               [node |-> m, arms |-> OldArms(i, m), kind |-> "secondary"]
  <2>1. New(i, m) \in NewTags(i, F)
    BY DEF NewTags
  <2>2. at(New(i, m)).node = m /\ at(New(i, m)).arms = OldArms(i, m)
    BY <1>1, <1>3
  <2> QED BY <1>4, <2>1, <2>2
<1>6. DOMAIN Copies(fresh) = NewTags(i, F)
  BY <1>4
<1> QED BY <1>5, <1>6 DEF fresh

(* The extents grow to cover the tags received.                            *)
LEMMA ExtentsCover ==
  ASSUME NEW i \in Indices, NEW F \in SUBSET Node,
         NEW lim \in [Domain -> 0 .. MaxIndex + 1], NEW grown,
         grown = [e \in Domain |-> SetMax({lim[e]} \cup
                    {a.new[2] + 1 : a \in {b \in {AnswerFor(i, m) : m \in F} : b.new[1] = e}})]
  PROVE  /\ grown \in [Domain -> 0 .. MaxIndex + 1]
         /\ \A e \in Domain : lim[e] <= grown[e]
         /\ \A m \in F : New(i, m)[2] < grown[Owner[m]]
<1> DEFINE fresh == {AnswerFor(i, m) : m \in F}
           S(e) == {lim[e]} \cup {a.new[2] + 1 : a \in {b \in fresh : b.new[1] = e}}
<1>1. \A m \in F : /\ AnswerFor(i, m).new = New(i, m) /\ AnswerFor(i, m) \in fresh
                   /\ New(i, m)[1] = Owner[m] /\ New(i, m)[2] \in 0 .. MaxIndex
                   /\ Owner[m] \in Domain /\ m \in Node
  BY TagFacts DEF AnswerFor
<1>2. MaxIndex \in Nat /\ MaxIndex + 1 \in Nat
  BY FiniteAssumption
<1>3. \A a \in fresh : a.new[2] \in 0 .. MaxIndex
  BY <1>1
<1>4. ASSUME NEW e \in Domain
      PROVE  /\ grown[e] = SetMax(S(e)) /\ grown[e] \in 0 .. MaxIndex + 1
             /\ \A j \in S(e) : j <= grown[e]
  <2>1. grown[e] = SetMax(S(e))
    OBVIOUS
  <2>2. lim[e] \in 0 .. MaxIndex + 1
    OBVIOUS
  <2> HIDE DEF fresh
  <2>3. S(e) \in SUBSET (0 .. MaxIndex + 1) /\ S(e) # {}
    BY <1>2, <1>3, <2>2
  <2> DEFINE X == S(e)
  <2> HIDE DEF S, X
  <2>4. X \in SUBSET (0 .. MaxIndex + 1) /\ X # {}
    BY <2>3 DEF X
  <2>5. SetMax(X) \in X /\ \A j \in X : j <= SetMax(X)
    BY <1>2, <2>4, SetMaxFacts
  <2> QED BY <2>1, <2>4, <2>5 DEF X
<1>5. grown = [e \in Domain |-> grown[e]]
  OBVIOUS
<1>6. ASSUME NEW m \in F PROVE New(i, m)[2] < grown[Owner[m]]
  <2>1. New(i, m)[2] + 1 \in S(Owner[m])
    <3>1. AnswerFor(i, m) \in {b \in fresh : b.new[1] = Owner[m]}
      BY <1>1
    <3> HIDE DEF fresh
    <3> QED BY <1>1, <3>1
  <2> HIDE DEF S, fresh
  <2>2. New(i, m)[2] + 1 <= grown[Owner[m]] /\ grown[Owner[m]] \in 0 .. MaxIndex + 1
    BY <1>1, <1>4, <2>1
  <2> QED BY <1>1, <1>2, <2>2
<1>7. \A e \in Domain : lim[e] \in S(e)
  OBVIOUS
<1> HIDE DEF S, fresh
<1>8. grown \in [Domain -> 0 .. MaxIndex + 1]
  <2>1. \A e \in Domain : grown[e] \in 0 .. MaxIndex + 1
    BY <1>4
  <2> QED BY <1>5, <2>1
<1> QED BY <1>4, <1>6, <1>7, <1>8

LEMMA RecvResponseKeepsInv ==
  ASSUME NEW i \in Indices, Inv(i), NEW d \in Domain,
         NEW k \in DOMAIN ReqDomList(d), RecvResponse(d, k)
  PROVE  Inv(i)'
<1> DEFINE L == ReqDomList(d)
           status == [inStatus[d] EXCEPT ![1] = L[k]]
           e == L[k]
           Q == reqBuf[d][e]
           A == {m \in Node : Old(i, m) \in Q}
           F == A \ Held(d)
           fresh == {AnswerFor(i, m) : m \in F}
           E == Extended(keys[d], Copies(fresh))
<1>1. /\ Shape /\ KeysInv(i, d) /\ HeldInv(i, d) /\ AskedInv(i, d) /\ StatusInv(d)
      /\ SlotsInv(d) /\ pc[d] = "responses"
  BY DEF Inv, LocalInv, RecvResponse
<1>2. e \in DOMAIN reqBuf[d] /\ e \in Domain /\ 1 \in DOMAIN L
      /\ DOMAIN reqBuf[d] \subseteq Domain
  <2>1. DOMAIN reqBuf[d] \subseteq Domain
    BY <1>1 DEF AskedInv, RemoteDomains
  <2>2. IsFiniteSet(DOMAIN reqBuf[d])
    BY <2>1, FiniteAssumption, FS_Subset
  <2>3. L \in [1 .. Cardinality(DOMAIN reqBuf[d]) -> DOMAIN reqBuf[d]]
        /\ Cardinality(DOMAIN reqBuf[d]) \in Nat
    BY <2>2, ListedFacts DEF ReqDomList
  <2> QED BY <2>1, <2>3
<1>3. /\ DOMAIN status = DOMAIN L /\ status[k] = e
      /\ \A j \in DOMAIN L : j > 1 => status[j] = L[j]
  <2>1. DOMAIN inStatus[d] = DOMAIN L /\ \A j \in DOMAIN L : j > 1 => inStatus[d][j] = L[j]
    BY <1>1 DEF StatusInv
  <2>2. \A j \in DOMAIN L : j = 1 \/ j > 1
    <3>1. IsFiniteSet(DOMAIN reqBuf[d])
      BY <1>2, FiniteAssumption, FS_Subset
    <3>2. DOMAIN L = 1 .. Cardinality(DOMAIN reqBuf[d]) /\ Cardinality(DOMAIN reqBuf[d]) \in Nat
      BY <3>1, ListedFacts DEF ReqDomList
    <3> QED BY <3>2
  <2>0. k \in DOMAIN L
    OBVIOUS
  <2> HIDE DEF L
  <2>3. DOMAIN status = DOMAIN L
        /\ \A j \in DOMAIN L : status[j] = IF j = 1 THEN L[k] ELSE inStatus[d][j]
    BY <2>1
  <2> HIDE DEF status
  <2>4. status[k] = e
    <3>1. CASE k = 1
      BY <1>2, <2>0, <2>3, <3>1
    <3>2. CASE k > 1
      BY <2>0, <2>1, <2>3, <3>2
    <3> QED BY <2>0, <2>2, <3>1, <3>2
  <2>5. \A j \in DOMAIN L : j > 1 => j # 1 /\ status[j] = L[j]
    BY <2>1, <2>2, <2>3
  <2> QED BY <2>3, <2>4, <2>5
<1>4. response[<<e, d>>] # None
  BY DEF RecvResponse, Arrived
<1>5. response[<<e, d>>].nodes = {AnswerFor(i, m) : m \in A}
  <2>1. ResponseInv(i, e, d)
    BY <1>2 DEF Inv, PairInv
  <2>2. response[<<e, d>>] = [nodes |-> AnswersTo(i, Q)]
    BY <1>4, <2>1 DEF ResponseInv
  <2>3. response[<<e, d>>].nodes = AnswersTo(i, Q)
    BY <2>2
  <2> QED BY <2>3 DEF AnswersTo
<1>6. {a \in response[<<e, d>>].nodes : ~AlreadyKnown(d, a)} = fresh
  <2>1. A \in SUBSET Node
    OBVIOUS
  <2> HIDE DEF A
  <2> QED BY <1>1, <1>5, <2>1, FreshIs
<1>7. /\ k \notin answered[d]
      /\ inStatus' = [inStatus EXCEPT ![d] = status]
      /\ answered' = [answered EXCEPT ![d] = @ \cup {k}]
      /\ UnpackSecondary(d, fresh)
      /\ response' = [response EXCEPT ![<<e, d>>] = None]
      /\ UNCHANGED <<pc, ghostBuf, reqBuf, request, slots>>
  <2> HIDE DEF fresh
  <2>1. /\ k \notin answered[d]
        /\ inStatus' = [inStatus EXCEPT ![d] = status]
        /\ answered' = [answered EXCEPT ![d] = @ \cup {k}]
        /\ IF Arrived(response, status[k], d)
           THEN /\ UnpackSecondary(d, {a \in response[<<status[k], d>>].nodes :
                                             ~AlreadyKnown(d, a)})
                /\ response' = [response EXCEPT ![<<status[k], d>>] = None]
                /\ UNCHANGED pc
           ELSE Goto(d, "fatal") /\ UNCHANGED <<keyVars, response>>
        /\ UNCHANGED <<ghostBuf, reqVars>>
    BY DEF RecvResponse
  <2>2. Arrived(response, status[k], d)
    BY <1>3, <1>4 DEF Arrived
  <2> HIDE DEF status, e
  <2> QED BY <1>3, <1>6, <2>1, <2>2 DEF reqVars
<1>8. /\ keys' = [keys EXCEPT ![d] = E]
      /\ limit' = [limit EXCEPT ![d] = [f \in Domain |-> SetMax({limit[d][f]} \cup
             {a.new[2] + 1 : a \in {b \in fresh : b.new[1] = f}})]]
      /\ ghostCount' = [ghostCount EXCEPT ![d] = ghostCount[d] + Cardinality(fresh)]
      /\ tagMap' = [tagMap EXCEPT ![d] = tagMap[d] \cup
             {[old |-> a.old, new |-> a.new] : a \in {b \in fresh : b.new # b.old}}]
  <2> HIDE DEF fresh
  <2> QED BY <1>1, <1>7 DEF UnpackSecondary, Copies, Shape
<1>9. F \in SUBSET Node /\ Held(d) \in SUBSET Node /\ Held(d) \cap F = {}
      /\ InReach(d) \subseteq Held(d) /\ Own(d) \subseteq Held(d) /\ Seen(d) \subseteq Held(d)
      /\ F \cap Own(d) = {} /\ F \cap Seen(d) = {}
  BY <1>1 DEF KeysInv, HeldInv, InReach
<1>10. \A m \in Node : Old(i, m) \in Q => m \in Held(d) \cup F
  OBVIOUS
<1> HIDE DEF F, A
<1>11. /\ DOMAIN keys[d] = {New(i, n) : n \in Held(d)}
       /\ \A n \in Held(d) : keys[d][New(i, n)] =
            [node |-> n, arms |-> OldArms(i, n), kind |-> KindOf(d, n)]
       /\ \A n \in Held(d) : New(i, n)[2] < limit[d][Owner[n]]
       /\ limit[d] \in [Domain -> 0 .. MaxIndex + 1]
       /\ tagMap[d] = Pairs(i, Held(d))
       /\ ghostCount[d] = Cardinality(Held(d) \ Own(d))
  BY <1>1 DEF KeysInv, ArmsNow
<1>12. /\ DOMAIN Copies(fresh) = NewTags(i, F)
       /\ \A m \in F : Copies(fresh)[New(i, m)] =
            [node |-> m, arms |-> OldArms(i, m), kind |-> "secondary"]
  BY <1>9, CopiesAre
<1> DEFINE H == Held(d)
           G == Copies(fresh)
           f0 == keys[d]
           N == H \cup F
<1>13. /\ DOMAIN E = NewTags(i, N)
       /\ \A n \in H : E[New(i, n)] = f0[New(i, n)]
       /\ \A n \in F : E[New(i, n)] = G[New(i, n)]
  <2>1. H \in SUBSET Node /\ F \in SUBSET Node /\ H \cap F = {}
    BY <1>9
  <2>2. DOMAIN f0 = NewTags(i, H) /\ DOMAIN G = NewTags(i, F)
    BY <1>11, <1>12 DEF NewTags
  <2> HIDE DEF H, f0, G, E
  <2>3. /\ DOMAIN Extended(f0, G) = NewTags(i, H \cup F)
        /\ \A n \in H : Extended(f0, G)[New(i, n)] = f0[New(i, n)]
        /\ \A n \in F : Extended(f0, G)[New(i, n)] = G[New(i, n)]
    BY <2>1, <2>2, ExtendedIs
  <2>4. E = Extended(f0, G)
    BY DEF E, f0, G
  <2> QED BY <2>3, <2>4
<1> HIDE DEF E, G, f0
<1>14. \A n \in N : E[New(i, n)] = [node |-> n, arms |-> OldArms(i, n), kind |-> KindOf(d, n)]
  <2>1. ASSUME NEW n \in H
        PROVE  E[New(i, n)] = [node |-> n, arms |-> OldArms(i, n), kind |-> KindOf(d, n)]
    BY <1>11, <1>13 DEF f0
  <2>2. ASSUME NEW n \in F
        PROVE  E[New(i, n)] = [node |-> n, arms |-> OldArms(i, n), kind |-> KindOf(d, n)]
    <3>1. KindOf(d, n) = "secondary"
      BY <1>9 DEF KindOf
    <3> QED BY <1>12, <1>13, <3>1 DEF G
  <2> QED BY <2>1, <2>2
<1>15. keys'[d] = E /\ Held(d)' = N
  <2>1. keys'[d] = E
    BY <1>1, <1>8 DEF Shape
  <2>2. \A n \in N : E[New(i, n)].node = n
    <3> TAKE n \in N
    <3>1. E[New(i, n)] = [node |-> n, arms |-> OldArms(i, n), kind |-> KindOf(d, n)]
      BY <1>14
    <3> QED BY <3>1, CopyFields
  <2> HIDE DEF N
  <2>3. DOMAIN E = {New(i, n) : n \in N}
    BY <1>13 DEF NewTags
  <2>4. {E[t].node : t \in DOMAIN E} = N
    BY <2>2, <2>3, HeldIs
  <2> QED BY <2>1, <2>4 DEF Held
<1>16. /\ limit'[d] \in [Domain -> 0 .. MaxIndex + 1]
       /\ \A n \in N : New(i, n)[2] < limit'[d][Owner[n]]
  <2>1. limit'[d] = [f \in Domain |-> SetMax({limit[d][f]} \cup
           {a.new[2] + 1 : a \in {b \in {AnswerFor(i, m) : m \in F} : b.new[1] = f}})]
    BY <1>1, <1>8 DEF Shape
  <2>2. /\ limit'[d] \in [Domain -> 0 .. MaxIndex + 1]
        /\ \A f \in Domain : limit[d][f] <= limit'[d][f]
        /\ \A m \in F : New(i, m)[2] < limit'[d][Owner[m]]
    BY <1>9, <1>11, <2>1, ExtentsCover
  <2>3. ASSUME NEW n \in H PROVE New(i, n)[2] < limit'[d][Owner[n]]
    <3>1. n \in Node
      BY <1>9
    <3>2. Owner[n] \in Domain /\ New(i, n)[2] \in 0 .. MaxIndex
      BY <3>1, TagFacts
    <3>3. limit[d][Owner[n]] \in 0 .. MaxIndex + 1 /\ limit'[d][Owner[n]] \in 0 .. MaxIndex + 1
          /\ limit[d][Owner[n]] <= limit'[d][Owner[n]] /\ New(i, n)[2] < limit[d][Owner[n]]
      BY <1>11, <2>2, <3>2
    <3> QED BY <3>2, <3>3
  <2> QED BY <2>2, <2>3
<1>17. tagMap'[d] = Pairs(i, N)
  <2>1. \A m \in F : AnswerFor(i, m).old = Old(i, m) /\ AnswerFor(i, m).new = New(i, m)
    BY DEF AnswerFor
  <2>2. {[old |-> a.old, new |-> a.new] : a \in {b \in fresh : b.new # b.old}} = Pairs(i, F)
    BY <2>1 DEF Pairs
  <2> HIDE DEF fresh
  <2>3. tagMap'[d] = Pairs(i, Held(d)) \cup Pairs(i, F)
    BY <1>1, <1>8, <1>11, <2>2 DEF Shape
  <2> QED BY <2>3, PairsGrow
<1>18. ghostCount'[d] = Cardinality(N \ Own(d))
  <2>1. ghostCount'[d] = Cardinality(Held(d) \ Own(d)) + Cardinality(F)
    <3>1. Cardinality(fresh) = Cardinality(F)
      BY <1>9, AnswersCount
    <3> HIDE DEF fresh
    <3> QED BY <1>1, <1>8, <1>11, <3>1 DEF Shape
  <2> DEFINE R == Held(d) \ Own(d)
  <2>2. R \cup F = N \ Own(d) /\ R \cap F = {}
    BY <1>9
  <2>3. IsFiniteSet(R) /\ IsFiniteSet(F)
    BY <1>9, FiniteAssumption, FS_Subset
  <2>4. Cardinality(R) \in Nat /\ Cardinality(F) \in Nat
    BY <2>3, FS_CardinalityType
  <2>5. ghostCount'[d] = Cardinality(R) + Cardinality(F)
    BY <2>1
  <2> HIDE DEF R, N
  <2>6. Cardinality(R \cup F) = Cardinality(R) + Cardinality(F) - Cardinality(R \cap F)
    BY <2>3, FS_Union
  <2>7. Cardinality(R \cap F) = 0
    BY <2>2, FS_EmptySet
  <2>8. Cardinality(R \cup F) = Cardinality(R) + Cardinality(F)
    BY <2>4, <2>6, <2>7
  <2> QED BY <2>2, <2>5, <2>8
<1>19. /\ Shape'
       /\ OthersStay(d)
  <2>1. Shape'
    BY <1>1, <1>7, <1>8 DEF Shape
  <2>2. OthersStay(d)
    BY <1>7, <1>8 DEF OthersStay
  <2> QED BY <2>1, <2>2
<1>20. pc'[d] = "responses" /\ reqBuf'[d] = reqBuf[d] /\ ReqDomList(d)' = L
       /\ answered'[d] = answered[d] \cup {k} /\ inStatus'[d] = status
  BY <1>1, <1>7 DEF ReqDomList, Shape
<1>21. LocalInv(i, d)'
  <2> HIDE DEF fresh, status
  <2>1. \A n \in N : keys'[d][New(i, n)] =
          [node |-> n, arms |-> ArmsNow(i, d, n)', kind |-> KindOf(d, n)]
    <3>1. \A n : ArmsNow(i, d, n)' = OldArms(i, n)
      BY <1>20 DEF ArmsNow
    <3> QED BY <1>14, <1>15, <3>1
  <2>2. N \subseteq Node /\ H \subseteq N
    BY <1>9
  <2>3. DOMAIN keys'[d] = {New(i, n) : n \in N}
    BY <1>13, <1>15 DEF NewTags
  <2>4. AskedInv(i, d)'
    <3>1. \A g \in Seen(d) : \A m \in Nbrs(g) :
            \/ m \in Held(d)'
            \/ Owner[g] \in DOMAIN reqBuf[d] /\ Old(i, m) \in reqBuf[d][Owner[g]]
      BY <1>1, <1>15, <2>2 DEF AskedInv, Asked
    <3>2. /\ DOMAIN reqBuf[d] \subseteq RemoteDomains(d)
          /\ \A f \in DOMAIN reqBuf[d] : reqBuf[d][f] \subseteq {Old(i, m) : m \in InReach(f)}
      BY <1>1 DEF AskedInv
    <3>3. answered[d] \cup {k} \subseteq DOMAIN L
      BY <1>1 DEF AskedInv
    <3>4. \A j \in answered[d] \cup {k} : \A m \in Node :
            Old(i, m) \in reqBuf[d][L[j]] => m \in N
      <4>1. \A j \in answered[d] : \A m \in Node : Old(i, m) \in reqBuf[d][L[j]] => m \in Held(d)
        BY <1>1 DEF AskedInv
      <4> QED BY <1>10, <2>2, <4>1
    <3> HIDE DEF N, L
    <3> QED BY <1>15, <1>20, <3>1, <3>2, <3>3, <3>4 DEF AskedInv
  <2>5. StatusInv(d)'
    BY <1>3, <1>20 DEF StatusInv
  <2>6. SortedInv(i, d)'
    BY <1>20 DEF SortedInv
  <2>7. HeldInv(i, d)'
    BY <1>9, <1>15, <1>20, <2>2 DEF HeldInv
  <2> HIDE DEF N
  <2>8. KeysInv(i, d)'
    BY <1>15, <1>16, <1>17, <1>18, <1>20, <2>1, <2>2, <2>3 DEF KeysInv
  <2> QED BY <2>4, <2>5, <2>6, <2>7, <2>8 DEF LocalInv
<1>22. SlotsInv(d)'
  BY <1>1, <1>7, SlotsStay
<1>23. ASSUME NEW g \in Domain, NEW f \in Domain PROVE PairInv(i, g, f)'
  <2>1. GhostBufInv(i, f, g) /\ RequestInv(g, f) /\ ResponseInv(i, f, g)
    BY DEF Inv, PairInv
  <2>2. <<f, g>> \in Pair
    BY DEF Pair
  <2>3. response'[<<f, g>>] \in {response[<<f, g>>], None}
    BY <1>1, <1>7, <2>2 DEF Shape
  <2>4. GhostBufInv(i, f, g)' /\ RequestInv(g, f)'
    BY <1>7, <2>1 DEF GhostBufInv, RequestInv
  <2>5. ResponseInv(i, f, g)'
    BY <1>7, <2>1, <2>3, ResponseStays
  <2> QED BY <2>4, <2>5 DEF PairInv
<1> QED BY <1>7, <1>19, <1>21, <1>22, <1>23, StepKeepsInv

(* When all responses are in, a domain has every node its ghosts lead to;  *)
(* the arms get the new tags of the nodes it has, once.                    *)
LEMMA ReconcileKeysKeepsInv ==
  ASSUME NEW i \in Indices, Inv(i), NEW d \in Domain, ReconcileKeys(d)
  PROVE  Inv(i)'
<1>1. /\ Shape /\ KeysInv(i, d) /\ HeldInv(i, d) /\ AskedInv(i, d)
      /\ SlotsInv(d) /\ pc[d] = "responses"
  BY DEF Inv, LocalInv, ReconcileKeys
<1> DEFINE K == [t \in DOMAIN keys[d] |->
                   [keys[d][t] EXCEPT !.arms = [m \in DOMAIN keys[d][t].arms |->
                                          NewTagOf(tagMap[d], keys[d][t].arms[m])]]]
<1>2. /\ answered[d] = DOMAIN ReqDomList(d)
      /\ pc' = [pc EXCEPT ![d] = "done"]
      /\ keys' = [keys EXCEPT ![d] = K]
      /\ tagMap' = [tagMap EXCEPT ![d] = {}]
      /\ inStatus' = [inStatus EXCEPT ![d] = <<>>]
      /\ answered' = [answered EXCEPT ![d] = {}]
      /\ UNCHANGED <<limit, ghostCount, ghostBuf, reqBuf, request, slots, response>>
  BY <1>1 DEF ReconcileKeys, Reconciled, ToReconcile, Goto, reqVars, Shape
<1>3. pc' \in [Domain -> Place \ {"fatal"}] /\ pc'[d] = "done"
      /\ \A e \in Domain \ {d} : pc'[e] = pc[e]
  BY <1>1, <1>2 DEF Shape, Place
<1>4. Shape' /\ OthersStay(d)
  BY <1>1, <1>2, <1>3 DEF Shape, OthersStay
<1>5. /\ Held(d) \subseteq Node /\ DOMAIN keys[d] = {New(i, n) : n \in Held(d)}
      /\ \A n \in Held(d) : keys[d][New(i, n)] =
           [node |-> n, arms |-> OldArms(i, n), kind |-> KindOf(d, n)]
      /\ \A n \in Held(d) : New(i, n)[2] < limit[d][Owner[n]]
      /\ limit[d] \in [Domain -> 0 .. MaxIndex + 1]
      /\ tagMap[d] = Pairs(i, Held(d))
      /\ ghostCount[d] = Cardinality(Held(d) \ Own(d))
  BY <1>1 DEF KeysInv, ArmsNow
<1> DEFINE arms(n) == [m \in Nbrs(n) |-> IF m \in Held(d) THEN New(i, m) ELSE Old(i, m)]
<1>6. ASSUME NEW n \in Held(d)
      PROVE  K[New(i, n)] = [node |-> n, arms |-> arms(n), kind |-> KindOf(d, n)]
  <2> DEFINE copy == keys[d][New(i, n)]
             new == [m \in DOMAIN copy.arms |-> NewTagOf(tagMap[d], copy.arms[m])]
  <2>1. New(i, n) \in DOMAIN keys[d]
        /\ copy = [node |-> n, arms |-> OldArms(i, n), kind |-> KindOf(d, n)]
    BY <1>5
  <2>2. K[New(i, n)] = [copy EXCEPT !.arms = new]
    BY <2>1
  <2> HIDE DEF copy
  <2>3. copy.arms = OldArms(i, n)
    BY <2>1, CopyFields
  <2>4. new = arms(n)
    <3>1. \A m \in Nbrs(n) : m \in Node
      BY DEF Nbrs
    <3>2. \A m \in Nbrs(n) : NewTagOf(tagMap[d], Old(i, m)) =
            IF m \in Held(d) THEN New(i, m) ELSE Old(i, m)
      BY <1>5, <3>1, PairsLookUp
    <3> QED BY <2>3, <3>2 DEF OldArms
  <2> HIDE DEF new, arms
  <2> QED BY <2>1, <2>2, <2>4
<1>7. DOMAIN K = {New(i, n) : n \in Held(d)}
  BY <1>5
<1> HIDE DEF K
<1>8. keys'[d] = K /\ tagMap'[d] = {} /\ answered'[d] = {} /\ inStatus'[d] = <<>>
  BY <1>1, <1>2 DEF Shape
<1>9. Held(d)' = Held(d)
  <2> HIDE DEF arms
  <2>1. \A n \in Held(d) : K[New(i, n)].node = n
    <3> TAKE n \in Held(d)
    <3>1. K[New(i, n)] = [node |-> n, arms |-> arms(n), kind |-> KindOf(d, n)]
      BY <1>6
    <3> QED BY <3>1, CopyFields
  <2>2. {K[t].node : t \in DOMAIN K} = Held(d)
    BY <1>7, <2>1, HeldIs
  <2>3. Held(d)' = {K[t].node : t \in DOMAIN K}
    BY <1>8 DEF Held
  <2> QED BY <2>2, <2>3
<1>10. \A g \in Seen(d) : Nbrs(g) \subseteq Held(d)
  <2> SUFFICES ASSUME NEW g \in Seen(d), NEW m \in Nbrs(g), m \notin Held(d) PROVE FALSE
    OBVIOUS
  <2>1. Owner[g] \in DOMAIN reqBuf[d] /\ Old(i, m) \in reqBuf[d][Owner[g]]
    BY <1>1 DEF AskedInv, Asked
  <2>2. IsFiniteSet(DOMAIN reqBuf[d])
    <3>1. DOMAIN reqBuf[d] \subseteq Domain
      BY <1>1 DEF AskedInv, RemoteDomains
    <3> QED BY <3>1, FiniteAssumption, FS_Subset
  <2>3. PICK k \in DOMAIN ReqDomList(d) : ReqDomList(d)[k] = Owner[g]
    BY <2>1, <2>2, ListedFacts DEF ReqDomList
  <2>4. m \in Node
    BY DEF Nbrs
  <2> QED BY <1>1, <1>2, <2>1, <2>3, <2>4 DEF AskedInv
<1>11. LocalInv(i, d)'
  <2>1. \A n \in Held(d) : ArmsNow(i, d, n)' = arms(n)
    BY <1>3, <1>9 DEF ArmsNow
  <2> HIDE DEF arms
  <2>2. \A n \in Held(d) : keys'[d][New(i, n)] =
          [node |-> n, arms |-> ArmsNow(i, d, n)', kind |-> KindOf(d, n)]
    BY <1>6, <1>8, <2>1
  <2>3. KeysInv(i, d)'
    BY <1>2, <1>3, <1>5, <1>7, <1>8, <1>9, <2>2 DEF KeysInv
  <2>4. SortedInv(i, d)' /\ StatusInv(d)'
    BY <1>3 DEF SortedInv, StatusInv
  <2>5. HeldInv(i, d)'
    BY <1>1, <1>3, <1>9, <1>10 DEF HeldInv
  <2>6. AskedInv(i, d)'
    <3>1. ReqDomList(d)' = ReqDomList(d) /\ reqBuf'[d] = reqBuf[d]
      BY <1>2 DEF ReqDomList
    <3> QED BY <1>1, <1>3, <1>8, <3>1 DEF AskedInv, Asked
  <2> QED BY <2>3, <2>4, <2>5, <2>6 DEF LocalInv
<1>12. SlotsInv(d)'
  BY <1>1, <1>2, SlotsStay
<1>13. ASSUME NEW e \in Domain, NEW f \in Domain PROVE PairInv(i, e, f)'
  <2>1. GhostBufInv(i, f, e) /\ RequestInv(e, f) /\ ResponseInv(i, f, e)
    BY DEF Inv, PairInv
  <2>2. pc'[e] = pc[e] \/ pc'[e] \in HasAsked
    BY <1>3 DEF HasAsked
  <2>3. pc'[f] = pc[f] \/ pc'[f] # "sorted"
    BY <1>3
  <2>4. GhostBufInv(i, f, e)'
    BY <1>2, <2>1, <2>3, GhostBufStays
  <2>5. RequestInv(e, f)' /\ ResponseInv(i, f, e)'
    BY <1>2, <2>1, <2>2, RequestStays, ResponseStays
  <2> QED BY <2>4, <2>5 DEF PairInv
<1> QED BY <1>2, <1>4, <1>11, <1>12, <1>13, StepKeepsInv
-----------------------------------------------------------------------------
LEMMA NextKeepsInv ==
  ASSUME NEW i \in Indices, Inv(i), [Next]_vars
  PROVE  Inv(i)'
<1>1. CASE UNCHANGED vars
  <2>1. UNCHANGED <<pc, keys, limit, tagMap, ghostCount, ghostBuf, reqBuf, request, slots,
                    response, inStatus, answered>>
    BY <1>1 DEF vars, keyVars, reqVars, respVars
  <2>2. Shape'
    BY <2>1 DEF Inv, Shape
  <2>3. ASSUME NEW d \in Domain PROVE LocalInv(i, d)' /\ SlotsInv(d)'
    <3>1. LocalInv(i, d) /\ SlotsInv(d)
      BY DEF Inv
    <3>2. LocalInv(i, d)'
      BY <2>1, <3>1, LocalStays
    <3>3. SlotsInv(d)'
      BY <2>1, <3>1 DEF SlotsInv
    <3> QED BY <3>2, <3>3
  <2>4. ASSUME NEW d \in Domain, NEW e \in Domain PROVE PairInv(i, d, e)'
    <3>1. PairInv(i, d, e)
      BY DEF Inv
    <3> QED BY <2>1, <3>1 DEF PairInv, GhostBufInv, RequestInv, ResponseInv
  <2> QED BY <2>2, <2>3, <2>4 DEF Inv
<1>2. ASSUME NEW d \in Domain, DomainStep(d) PROVE Inv(i)'
  <2>1. CASE PackGhosts(d)
    BY <2>1, PackGhostsKeepsInv
  <2>2. CASE UnpackGhosts(d)
    BY <2>2, UnpackGhostsKeepsInv
  <2>3. CASE RequestSecondary(d)
    BY <2>3, RequestSecondaryKeepsInv
  <2>4. CASE SendRequests(d)
    BY <2>4, SendRequestsKeepsInv
  <2>5. CASE \E e \in Domain : RecvRequest(d, e)
    BY <2>5, RecvRequestKeepsInv
  <2>6. CASE ServeRequests(d)
    BY <2>6, ServeRequestsKeepsInv
  <2>7. CASE \E k \in DOMAIN ReqDomList(d) : RecvResponse(d, k)
    BY <2>7, RecvResponseKeepsInv
  <2>8. CASE ReconcileKeys(d)
    BY <2>8, ReconcileKeysKeepsInv
  <2> QED BY <1>2, <2>1, <2>2, <2>3, <2>4, <2>5, <2>6, <2>7, <2>8 DEF DomainStep
<1> QED BY <1>1, <1>2 DEF Next, Finished

(* The inductive invariant: which nodes a domain knows at each place of    *)
(* the exchange, under which tags and with which arms, and what every      *)
(* message under way says.                                                 *)
THEOREM AlwaysExchangeInv == Spec => []ExchangeInv
<1>1. Init => ExchangeInv
  BY InitHasInv
<1>2. ExchangeInv /\ [Next]_vars => ExchangeInv'
  BY NextKeepsInv DEF ExchangeInv
<1> QED BY <1>1, <1>2, PTL DEF Spec

(* Every tag a domain uses, in its table, in the arms or in the map of     *)
(* tags, is a tag of the owner's index range, and a node only moves down.  *)
THEOREM GhostsTyped == Spec => []TypeOK
<1>1. ExchangeInv => TypeOK
  BY InvSaysAll DEF ExchangeInv
<1> QED BY <1>1, AlwaysExchangeInv, PTL

(* Whatever the indices before the compression and the order of domains    *)
(* and messages: one copy of a node, under its present tag; arms that      *)
(* resolve after the exchange; and no domain stops with an error.          *)
THEOREM GhostsAreKnown == Spec => []GhostsKnown
<1>1. ExchangeInv => GhostsKnown
  BY InvSaysAll DEF ExchangeInv
<1> QED BY <1>1, AlwaysExchangeInv, PTL
=============================================================================
