--------------------------- MODULE MigrationProofs ---------------------------
(***************************************************************************)
(* Migration loses no node and leaves every arm on the node it leads to,   *)
(* for every set of domains and nodes, every sequence of placements and    *)
(* every order of domains and messages.                                    *)
(***************************************************************************)
EXTENDS Migration, TLAPS, FiniteSetTheorems, WellFoundedInduction
-----------------------------------------------------------------------------
(* The invariant.  A move is the migration under way: its round, where the *)
(* nodes come from and go to, and the tags they had when it began.  Before *)
(* the first migration nothing moves.                                      *)
Move == [round : Nat, from : [Node -> Domain], to : [Node -> Domain],
         tag : [Node -> Tag]]

(* How far a domain is in the move: "next" when it has begun the following *)
(* one, which no domain can take further before all have.                  *)
Stages == {"reduce", "lengths", "nodes", "unpack", "maps", "step", "next"}
Stage(g, d) == IF round[d] = g.round THEN pc[d] ELSE "next"

HasPacked(g, d)   == Stage(g, d) # "reduce"
HasSent(g, d)     == Stage(g, d) \notin {"reduce", "lengths"}
HasReceived(g, d) == Stage(g, d) \notin {"reduce", "lengths", "nodes"}
HasUnpacked(g, d) == Stage(g, d) \in {"maps", "step", "next"}
IsDone(g, d)      == Stage(g, d) \in {"step", "next"}

Leaving(g, e, d) == {n \in Node : g.from[n] = e /\ g.to[n] = d}
Dests(g, e)      == {g.to[n] : n \in {m \in Node : g.from[m] = e}} \ {e}
Has(d, i, n)     == i \in DOMAIN nodeKeys[d] /\ nodeKeys[d][i] = n

(* A buffer lists nodes once each, with the tags they had.                 *)
Index == 0 .. Cardinality(Node) - 1
Keys  == UNION {[S -> Node] : S \in SUBSET Index}
Item  == [node : Node, old : Tag]
Buf   == [nodes : Seq(Item), round : Nat]
NodesIn(q) == {q[k].node : k \in DOMAIN q}
Lists(g, q) ==
  \A j \in DOMAIN q :
    /\ q[j].old = g.tag[q[j].node]
    /\ \A k \in DOMAIN q : q[j].node = q[k].node => j = k
Carries(g, b, e, d) ==
  /\ b \in Buf /\ b.round = g.round
  /\ Lists(g, b.nodes) /\ NodesIn(b.nodes) = Leaving(g, e, d)

HasLength(d, e) == \E k \in DOMAIN recvLen[d] : recvLen[d][k].from = e
HasBuffer(d, e) == \E k \in DOMAIN recvBuf[d] : recvLen[d][k].from = e
Pending(d, n)   == \E k \in DOMAIN recvBuf[d] : n \in NodesIn(recvBuf[d][k].nodes)

Shape ==
  /\ nodeKeys \in [Domain -> Keys]
  /\ arms \in [Node -> UNION {[S -> Tag] : S \in SUBSET Node}]
  /\ \A n \in Node : DOMAIN arms[n] = Nbrs(n)
  /\ round \in [Domain -> Nat]
  /\ pc \in [Domain -> Stages \ {"next"}]
  /\ DOMAIN commLists = Domain /\ DOMAIN sendBuf = Domain
  /\ DOMAIN lengths = Pair /\ DOMAIN nodeBufs = Pair /\ DOMAIN maps = Pair
  /\ DOMAIN recvLen = Domain /\ DOMAIN recvBuf = Domain
  /\ DOMAIN tagMap = Domain /\ DOMAIN mapsFrom = Domain

(* The move is one of the schedule, and the tags tell the nodes apart.     *)
Places(g) ==
  /\ schedule \in Schedules /\ g.round < Len(schedule)
  /\ g.to = schedule[g.round + 1]
  /\ g.from = IF g.round = 0 THEN g.to ELSE schedule[g.round]
  /\ \A n \in Node : g.tag[n][1] = g.from[n]
  /\ \A m, n \in Node : g.tag[m] = g.tag[n] => m = n

(* Every domain is in the move or waits in the next one, and has announced *)
(* to whom it sends.                                                       *)
NextDests(g, d) ==
  {schedule[g.round + 2][n] : n \in {m \in Node : g.to[m] = d}} \ {d}
RoundAt(g, d) ==
  /\ \/ round[d] = g.round
     \/ /\ round[d] = g.round + 1 /\ pc[d] = "reduce"
        /\ g.round + 2 <= Len(schedule)
        /\ commLists[d][g.round + 1] = NextDests(g, d)
  /\ g.round = 0 => IsDone(g, d)
  /\ commLists[d] \in Seq(SUBSET Domain) /\ Len(commLists[d]) = round[d]
  /\ g.round > 0 => commLists[d][g.round] = Dests(g, d)

(* The nodes a domain has, each under one tag; those that stay keep theirs. *)
Here(g, d, n) ==
  IF HasReceived(g, d) THEN g.to[n] = d /\ ~Pending(d, n)
  ELSE g.from[n] = d /\ (HasPacked(g, d) => g.to[n] = d)
KeysAt(g, d) ==
  /\ \A i, j \in DOMAIN nodeKeys[d] : nodeKeys[d][i] = nodeKeys[d][j] => i = j
  /\ \A n \in Node : Here(g, d, n) <=> \E i \in Index : Has(d, i, n)
  /\ \A n \in Node : /\ g.from[n] = d
                     /\ HasPacked(g, d) => g.to[n] = d
                     => Has(d, g.tag[n][2], n)

(* What a domain has packed and what it has received of each sender.       *)
SendBufAt(g, e) ==
  IF Stage(g, e) = "lengths"
  THEN /\ DOMAIN sendBuf[e] = Dests(g, e)
       /\ \A d \in Dests(g, e) : Carries(g, sendBuf[e][d], e, d)
  ELSE sendBuf[e] = <<>>

LengthOf(g, e, d) == [len |-> Cardinality(Leaving(g, e, d)), round |-> g.round]
Receipt == [from : Domain, msg : [len : Nat, round : Nat]]
RecvLenAt(g, d) ==
  IF Stage(g, d) \in {"lengths", "nodes", "unpack"}
  THEN /\ recvLen[d] \in Seq(Receipt)
       /\ \A k \in DOMAIN recvLen[d] :
            /\ d \in Dests(g, recvLen[d][k].from)
            /\ recvLen[d][k].msg = LengthOf(g, recvLen[d][k].from, d)
            /\ \A j \in DOMAIN recvLen[d] :
                 recvLen[d][j].from = recvLen[d][k].from => j = k
       /\ HasSent(g, d) => \A e \in Domain : d \in Dests(g, e) => HasLength(d, e)
  ELSE recvLen[d] = <<>>
RecvBufAt(g, d) ==
  IF Stage(g, d) \in {"nodes", "unpack"}
  THEN /\ DOMAIN recvBuf[d] \subseteq DOMAIN recvLen[d]
       /\ HasReceived(g, d) => DOMAIN recvBuf[d] = DOMAIN recvLen[d]
       /\ \A k \in DOMAIN recvBuf[d] :
            /\ recvBuf[d][k] \in Buf /\ recvBuf[d][k].round = g.round
            /\ Lists(g, recvBuf[d][k].nodes)
            /\ NodesIn(recvBuf[d][k].nodes)
                 \subseteq Leaving(g, recvLen[d][k].from, d)
            /\ ~HasReceived(g, d) => NodesIn(recvBuf[d][k].nodes)
                                       = Leaving(g, recvLen[d][k].from, d)
  ELSE recvBuf[d] = <<>>

(* A map covers a domain when it has the old tags of the nodes that moved  *)
(* there.                                                                  *)
Covers(g, map, d) ==
  \A n \in Node : g.to[n] = d /\ g.from[n] # d => \E p \in map : p.old = g.tag[n]
TagMapAt(g, d) ==
  /\ Stage(g, d) \notin {"unpack", "maps"} => tagMap[d] = {}
  /\ Stage(g, d) \in {"unpack", "maps"} =>
       \A n \in Node : g.to[n] = d /\ g.from[n] # d /\ ~Pending(d, n)
                         => \E p \in tagMap[d] : p.old = g.tag[n]
  /\ mapsFrom[d] \subseteq RemoteDomains(d)
  /\ Stage(g, d) # "maps" => mapsFrom[d] = {}
  /\ \A e \in mapsFrom[d] : Covers(g, tagMap[d], e)

Local(g, d) == /\ RoundAt(g, d) /\ KeysAt(g, d) /\ SendBufAt(g, d)
               /\ RecvLenAt(g, d) /\ RecvBufAt(g, d) /\ TagMapAt(g, d)

(* What is under way from e to d.                                          *)
LengthDue(g, e, d) ==
  /\ d \in Dests(g, e) /\ HasPacked(g, e)
  /\ ~HasSent(g, d) /\ ~HasLength(d, e)
LengthAt(g, e, d) ==
  IF LengthDue(g, e, d) THEN lengths[<<e, d>>] = <<LengthOf(g, e, d)>>
                        ELSE lengths[<<e, d>>] = <<>>

BufferDue(g, e, d) ==
  /\ d \in Dests(g, e) /\ HasSent(g, e)
  /\ ~HasReceived(g, d) /\ ~HasBuffer(d, e)
BufferAt(g, e, d) ==
  IF BufferDue(g, e, d)
  THEN \E b \in Buf : nodeBufs[<<e, d>>] = <<b>> /\ Carries(g, b, e, d)
  ELSE nodeBufs[<<e, d>>] = <<>>

MapDue(g, e, d) ==
  /\ d \in RemoteDomains(e) /\ HasUnpacked(g, e)
  /\ ~IsDone(g, d) /\ e \notin mapsFrom[d]
MapAt(g, e, d) ==
  IF MapDue(g, e, d)
  THEN \E x : maps[<<e, d>>] = <<x>> /\ Covers(g, x.pairs, e)
  ELSE maps[<<e, d>>] = <<>>

(* No domain is ahead of one it needs something of.                        *)
InStep(g, e, d) ==
  /\ d \in Dests(g, e) =>
       /\ HasLength(d, e) \/ HasSent(g, d) => HasPacked(g, e)
       /\ HasBuffer(d, e) \/ HasReceived(g, d) => HasSent(g, e)
  /\ e \in RemoteDomains(d) /\ (e \in mapsFrom[d] \/ IsDone(g, d))
       => HasUnpacked(g, e)

Between(g, e, d) == /\ LengthAt(g, e, d) /\ BufferAt(g, e, d) /\ MapAt(g, e, d)
                    /\ InStep(g, e, d)

(* Every mapping leads from the tag a moved node had to the one it has.    *)
Settled(g, n, t) ==
  /\ t \in Tag /\ t[1] = g.to[n] /\ HasReceived(g, t[1]) /\ Has(t[1], t[2], n)
Sound(g, map) ==
  \A p \in map : /\ p \in [old : Tag, new : Tag]
                 /\ \E n \in Node : /\ g.from[n] # g.to[n]
                                    /\ p.old = g.tag[n] /\ Settled(g, n, p.new)
MapsSound(g) ==
  /\ \A d \in Domain : Sound(g, tagMap[d])
  /\ \A p \in Pair : \A k \in DOMAIN maps[p] : Sound(g, maps[p][k].pairs)

(* The arms of a domain's nodes hold the old tags until it remaps them.    *)
ArmsFit(g) ==
  \A n \in Node : \A m \in Nbrs(n) :
    IF IsDone(g, g.to[n]) THEN Settled(g, m, arms[n][m])
                          ELSE arms[n][m] = g.tag[m]

Inv(g) ==
  /\ Shape /\ Places(g)
  /\ \A d \in Domain : Local(g, d)
  /\ \A e, d \in Domain : Between(g, e, d)
  /\ MapsSound(g) /\ ArmsFit(g)

MigrationInv == \E g \in Move : Inv(g)
-----------------------------------------------------------------------------
(* A set of natural numbers has a least element.                           *)
LEMMA LeastNumber ==
  ASSUME NEW S, S \subseteq Nat, S # {}
  PROVE  \E n \in S : \A m \in S : n <= m
<1> DEFINE R == OpToRel(<, Nat)
<1>1. IsWellFoundedOn(R, Nat)
  BY NatLessThanWellFounded
<1>2. \A m \in Nat : \A k \in Nat : m < k => <<m, k>> \in R
  BY DEF OpToRel
<1> HIDE DEF R
<1>3. PICK n \in S : \A m \in S : ~(<<m, n>> \in R)
  BY <1>1, WFMin
<1>4. ASSUME NEW m \in S PROVE n <= m
  <2>1. m \in Nat /\ n \in Nat /\ ~(<<m, n>> \in R)
    BY <1>3
  <2>2. ~(m < n)
    BY <1>2, <2>1
  <2> QED BY <2>1, <2>2
<1> QED BY <1>4

(* A finite set of numbers can be enumerated in ascending order: if not,   *)
(* take a smallest set that cannot, and put its least number before an     *)
(* enumeration of the others.                                              *)
LEMMA AscendingExists ==
  ASSUME NEW S \in SUBSET Nat, IsFiniteSet(S)
  PROVE  \E q \in [1 .. Cardinality(S) -> S] :
           \A j, k \in DOMAIN q : j < k => q[j] < q[k]
<1> DEFINE Good(T) == \E q \in [1 .. Cardinality(T) -> T] :
                        \A j, k \in DOMAIN q : j < k => q[j] < q[k]
           Bad == {c \in Nat : \E T \in SUBSET Nat :
                     IsFiniteSet(T) /\ Cardinality(T) = c /\ ~Good(T)}
<1> SUFFICES Good(S)
  OBVIOUS
<1> SUFFICES ASSUME ~Good(S) PROVE FALSE
  OBVIOUS
<1>1. Cardinality(S) \in Bad
  BY FS_CardinalityType
<1>2. PICK c \in Bad : \A b \in Bad : c <= b
  <2> HIDE DEF Bad
  <2>1. Bad \subseteq Nat
    BY DEF Bad
  <2> QED BY <1>1, <2>1, LeastNumber
<1>3. PICK T \in SUBSET Nat : IsFiniteSet(T) /\ Cardinality(T) = c /\ ~Good(T)
  BY <1>2
<1>4. c \in Nat
  BY <1>2
<1>5. T # {}
  <2> SUFFICES ASSUME T = {} PROVE Good(T)
    BY <1>3
  <2>1. Cardinality(T) = 0
    BY FS_EmptySet
  <2>2. 1 .. Cardinality(T) = {}
    BY <2>1
  <2> DEFINE q == [k \in {} |-> 0]
  <2>3. q \in [{} -> T] /\ DOMAIN q = {}
    OBVIOUS
  <2> QED BY <2>2, <2>3
<1>6. PICK m \in T : \A n \in T : m <= n
  BY <1>5, LeastNumber
<1> DEFINE U == T \ {m}
<1>7. IsFiniteSet(U) /\ Cardinality(U) = c - 1 /\ Cardinality(U) \in Nat
  BY <1>3, <1>6, FS_RemoveElement, FS_CardinalityType
<1>8. c - 1 \notin Bad
  BY <1>2, <1>4
<1>9. Good(U)
  <2> HIDE DEF Good
  <2>1. U \in SUBSET Nat
    OBVIOUS
  <2> QED BY <1>7, <1>8, <2>1
<1>10. PICK p \in [1 .. c - 1 -> U] :
         \A j, k \in 1 .. c - 1 : j < k => p[j] < p[k]
  BY <1>7, <1>9
<1> DEFINE q == [k \in 1 .. c |-> IF k = 1 THEN m ELSE p[k - 1]]
<1> HIDE DEF Good, Bad
<1>11. \A k \in 1 .. c : k # 1 => k - 1 \in 1 .. c - 1
  BY <1>4
<1>12. q \in [1 .. c -> T]
  BY <1>10, <1>11
<1>13. ASSUME NEW j \in 1 .. c, NEW k \in 1 .. c, j < k PROVE q[j] < q[k]
  <2>1. k # 1 /\ q[k] = p[k - 1] /\ p[k - 1] \in U
    BY <1>4, <1>10, <1>11, <1>13
  <2>2. CASE j = 1
    <3>1. q[j] = m /\ m <= q[k] /\ q[k] # m
      BY <1>6, <2>1, <2>2
    <3>2. m \in Nat /\ q[k] \in Nat
      BY <1>6, <2>1
    <3> HIDE DEF q
    <3> QED BY <3>1, <3>2
  <2>3. CASE j # 1
    <3>1. j - 1 < k - 1
      BY <1>13
    <3>2. q[j] = p[j - 1] /\ j - 1 \in 1 .. c - 1 /\ k - 1 \in 1 .. c - 1
      BY <1>11, <2>1, <2>3
    <3>3. p[j - 1] < p[k - 1]
      BY <1>10, <3>1, <3>2
    <3> QED BY <2>1, <3>2, <3>3
  <2> QED BY <2>2, <2>3
<1>14. Good(T)
  BY <1>3, <1>12, <1>13 DEF Good
<1> QED BY <1>3, <1>14

(* Ascending lists every number of the set once.                           *)
LEMMA AscendingLists ==
  ASSUME NEW S \in SUBSET Nat, IsFiniteSet(S)
  PROVE  /\ Ascending(S) \in [1 .. Cardinality(S) -> S]
         /\ Cardinality(S) \in Nat
         /\ \A i \in S : \E k \in 1 .. Cardinality(S) : Ascending(S)[k] = i
         /\ \A j, k \in 1 .. Cardinality(S) :
              Ascending(S)[j] = Ascending(S)[k] => j = k
<1> DEFINE q == Ascending(S)
           n == Cardinality(S)
<1>1. n \in Nat
  BY FS_CardinalityType
<1>2. q \in [1 .. n -> S] /\ \A j, k \in 1 .. n : j < k => q[j] < q[k]
  BY AscendingExists DEF Ascending
<1>3. \A j, k \in 1 .. n : q[j] = q[k] => j = k
  <2> SUFFICES ASSUME NEW j \in 1 .. n, NEW k \in 1 .. n, q[j] = q[k], j # k
               PROVE  FALSE
    OBVIOUS
  <2>1. q[j] \in Nat /\ q[k] \in Nat
    BY <1>2
  <2>2. j < k \/ k < j
    BY <1>1
  <2> HIDE DEF q, n
  <2> QED BY <1>2, <2>1, <2>2
<1>4. q \in Injection(1 .. n, S)
  BY <1>2, <1>3 DEF Injection, IsInjective
<1>5. Cardinality(1 .. n) = n
  BY <1>1, FS_Interval
<1>6. q \in Surjection(1 .. n, S)
  BY <1>4, <1>5, FS_Injection
<1> QED BY <1>1, <1>2, <1>3, <1>6 DEF Surjection

(* GetFreeNodeTag finds an index that is not in use.                       *)
LEMMA FreeIndexIsFree ==
  ASSUME NEW used \in SUBSET Nat, IsFiniteSet(used)
  PROVE  FreeIndex(used) \in 0 .. Cardinality(used) /\ FreeIndex(used) \notin used
<1> DEFINE c == Cardinality(used)
           Free == {i \in 0 .. c : i \notin used}
<1>1. c \in Nat
  BY FS_CardinalityType
<1>2. Free # {}
  <2> SUFFICES ASSUME Free = {} PROVE FALSE
    OBVIOUS
  <2>1. 0 .. c \in SUBSET used
    OBVIOUS
  <2>2. Cardinality(0 .. c) <= c
    BY <2>1, FS_Subset
  <2>3. Cardinality(0 .. c) = c + 1
    BY <1>1, FS_Interval
  <2> QED BY <1>1, <2>2, <2>3
<1>3. Free \subseteq Nat
  BY <1>1
<1> HIDE DEF c
<1>4. PICK i \in Free : \A j \in Free : i <= j
  <2> HIDE DEF Free
  <2> QED BY <1>2, <1>3, LeastNumber
<1>5. \A j \in 0 .. i - 1 : j \in used
  BY <1>1, <1>4
<1>6. i \in 0 .. c /\ i \notin used
  BY <1>4
<1> QED BY <1>5, <1>6 DEF FreeIndex, c

(* A buffer is as long as the set of its nodes is large.                   *)
LEMMA ListsCount ==
  ASSUME NEW g, NEW q \in Seq(Item), Lists(g, q)
  PROVE  Cardinality(NodesIn(q)) = Len(q)
<1> DEFINE f == [k \in 1 .. Len(q) |-> q[k].node]
<1>1. DOMAIN q = 1 .. Len(q) /\ Len(q) \in Nat
  OBVIOUS
<1>2. f \in [1 .. Len(q) -> NodesIn(q)]
  BY <1>1 DEF NodesIn
<1>3. \A j, k \in 1 .. Len(q) : f[j] = f[k] => j = k
  BY <1>1 DEF Lists
<1>4. \A n \in NodesIn(q) : \E k \in 1 .. Len(q) : f[k] = n
  BY <1>1 DEF NodesIn
<1>5. f \in Bijection(1 .. Len(q), NodesIn(q))
  BY <1>2, <1>3, <1>4 DEF Bijection, Injection, Surjection, IsInjective
<1>6. ExistsBijection(1 .. Len(q), NodesIn(q))
  BY <1>5 DEF ExistsBijection
<1> QED BY <1>1, <1>6, FS_CountingElements

-----------------------------------------------------------------------------
(* Facts about the constants and the stages. *)

(* The nodes are finitely many, so are sets of indices.                    *)
LEMMA NodeFacts ==
  /\ IsFiniteSet(Node) /\ Cardinality(Node) \in Nat /\ Index \in SUBSET Nat
  /\ \A S \in SUBSET Index : IsFiniteSet(S) /\ S \in SUBSET Nat
<1>1. IsFiniteSet(Node) /\ Cardinality(Node) \in Nat
  BY NodeAssumption, FS_CardinalityType
<1>2. Index \in SUBSET Nat /\ IsFiniteSet(Index)
  BY <1>1, FS_Interval DEF Index
<1> QED BY <1>1, <1>2, FS_Subset

(* Neighbours are neighbours of each other.                                *)
LEMMA RemoteIsMutual ==
  ASSUME NEW d \in Domain, NEW e \in Domain
  PROVE  e \in RemoteDomains(d) <=> d \in RemoteDomains(e)
<1>1. \A x, y \in Domain : <<x, y>> \in Adjacent => <<y, x>> \in Adjacent
  BY AdjacentAssumption
<1> QED BY <1>1 DEF RemoteDomains

(* The ends of a link are in one domain or in neighbouring ones.           *)
LEMMA LinksAreShort ==
  ASSUME NEW s \in Schedules, NEW r \in 1 .. Len(s), NEW n \in Node, NEW m \in Nbrs(n)
  PROVE  m \in Node /\ (s[r][m] = s[r][n] \/ s[r][m] \in RemoteDomains(s[r][n]))
<1>1. m \in Node /\ {m, n} \in Link
  BY DEF Nbrs
<1>2. s \in Seq([Node -> Domain]) /\ DOMAIN s = 1 .. Len(s)
  BY SchedulesAssumption
<1>3. s[r] \in [Node -> Domain]
  BY <1>2
<1>4. s[r][m] = s[r][n] \/ <<s[r][m], s[r][n]>> \in Adjacent
  BY <1>1, <1>2, SchedulesAssumption
<1>5. s[r][m] = s[r][n] \/ <<s[r][n], s[r][m]>> \in Adjacent
  BY <1>4, AdjacentAssumption
<1> QED BY <1>1, <1>3, <1>5 DEF RemoteDomains

(* A move is well typed, and its domains are where the schedule says.      *)
LEMMA MoveFacts ==
  ASSUME NEW g \in Move, Inv(g)
  PROVE  /\ g.round \in Nat /\ schedule \in Schedules
         /\ schedule \in Seq([Node -> Domain]) /\ Len(schedule) \in Nat
         /\ g.round + 1 \in 1 .. Len(schedule) /\ g.to = schedule[g.round + 1]
         /\ \A n \in Node : /\ g.from[n] \in Domain /\ g.to[n] \in Domain
                            /\ g.tag[n] \in Tag /\ g.tag[n] = <<g.tag[n][1], g.tag[n][2]>>
                            /\ g.tag[n][1] = g.from[n] /\ g.tag[n][2] \in Index
         /\ \A m, n \in Node : g.tag[m] = g.tag[n] => m = n
         /\ \A d \in Domain : Dests(g, d) \in SUBSET (Domain \ {d})
<1>1. schedule \in Schedules /\ g.round < Len(schedule) /\ g.to = schedule[g.round + 1]
  BY DEF Inv, Places
<1>2. schedule \in Seq([Node -> Domain]) /\ Len(schedule) \in Nat
  BY <1>1, SchedulesAssumption
<1>3. g.round \in Nat /\ g.from \in [Node -> Domain] /\ g.to \in [Node -> Domain]
      /\ g.tag \in [Node -> Tag]
  BY DEF Move
<1>4. \A t \in Tag : t = <<t[1], t[2]>> /\ t[2] \in Index
  BY DEF Tag, Index
<1>5. \A n \in Node : g.tag[n] \in Tag /\ g.tag[n][1] = g.from[n]
  BY <1>3 DEF Inv, Places
<1>6. \A m, n \in Node : g.tag[m] = g.tag[n] => m = n
  BY DEF Inv, Places
<1>7. \A d \in Domain : Dests(g, d) \in SUBSET (Domain \ {d})
  BY <1>3 DEF Dests
<1> QED BY <1>1, <1>2, <1>3, <1>4, <1>5, <1>6, <1>7

(* A domain sends to those that one of its nodes moves to.                 *)
LEMMA DestsAre ==
  ASSUME NEW g \in Move, NEW e \in Domain, NEW d
  PROVE  d \in Dests(g, e) <=> d # e /\ \E n \in Node : n \in Leaving(g, e, d)
BY DEF Dests, Leaving

(* A domain's stage is its pc, or it waits in the next migration.          *)
LEMMA StageFacts ==
  ASSUME NEW g \in Move, Inv(g), NEW d \in Domain
  PROVE  /\ Stage(g, d) \in Stages
         /\ Stage(g, d) # "next" => round[d] = g.round /\ pc[d] = Stage(g, d)
         /\ Stage(g, d) = "next" => round[d] = g.round + 1 /\ pc[d] = "reduce"
         /\ pc[d] # "reduce" => Stage(g, d) = pc[d]
         /\ ~IsDone(g, d) => g.round > 0
         /\ round[d] \in Nat /\ pc[d] \in Stages
<1>1. RoundAt(g, d) /\ pc[d] \in Stages \ {"next"} /\ round[d] \in Nat
  BY DEF Inv, Local, Shape
<1>2. g.round \in Nat
  BY DEF Move
<1>3. round[d] = g.round \/ (round[d] = g.round + 1 /\ pc[d] = "reduce")
  BY <1>1 DEF RoundAt
<1>4. g.round = 0 => IsDone(g, d)
  BY <1>1 DEF RoundAt
<1>5. CASE round[d] = g.round
  <2>1. Stage(g, d) = pc[d]
    BY <1>5 DEF Stage
  <2> QED BY <1>1, <1>2, <1>4, <1>5, <2>1 DEF Stages
<1>6. CASE round[d] = g.round + 1 /\ pc[d] = "reduce"
  <2>1. Stage(g, d) = "next"
    BY <1>2, <1>6 DEF Stage
  <2> QED BY <1>1, <1>2, <1>4, <1>6, <2>1 DEF Stages
<1> QED BY <1>3, <1>5, <1>6
-----------------------------------------------------------------------------
(* What a step of one domain leaves as it was. *)

SameAt(e) ==
  /\ nodeKeys'[e] = nodeKeys[e] /\ round'[e] = round[e] /\ pc'[e] = pc[e]
  /\ commLists'[e] = commLists[e] /\ sendBuf'[e] = sendBuf[e]
  /\ recvLen'[e] = recvLen[e] /\ recvBuf'[e] = recvBuf[e]
  /\ tagMap'[e] = tagMap[e] /\ mapsFrom'[e] = mapsFrom[e]

(* Domains go forward, and those that have unpacked keep what they have.   *)
Forward(g) ==
  \A e \in Domain :
    /\ HasPacked(g, e) => HasPacked(g, e)'
    /\ HasSent(g, e) => HasSent(g, e)'
    /\ HasReceived(g, e) =>
         /\ HasReceived(g, e)'
         /\ \A i \in Index : \A n \in Node : Has(e, i, n) => Has(e, i, n)'
    /\ HasUnpacked(g, e) => HasUnpacked(g, e)'

(* A domain whose state is the same has done what it had done.             *)
LEMMA StageStays ==
  ASSUME NEW g, NEW e, SameAt(e)
  PROVE  /\ Stage(g, e)' = Stage(g, e)
         /\ HasPacked(g, e)' <=> HasPacked(g, e)
         /\ HasSent(g, e)' <=> HasSent(g, e)
         /\ HasReceived(g, e)' <=> HasReceived(g, e)
         /\ HasUnpacked(g, e)' <=> HasUnpacked(g, e)
         /\ IsDone(g, e)' <=> IsDone(g, e)
         /\ \A x : /\ HasLength(e, x)' <=> HasLength(e, x)
                   /\ HasBuffer(e, x)' <=> HasBuffer(e, x)
                   /\ Pending(e, x)' <=> Pending(e, x)
         /\ \A i, n : Has(e, i, n)' <=> Has(e, i, n)
<1>1. Stage(g, e)' = Stage(g, e)
  BY DEF SameAt, Stage
<1>2. \A x : /\ HasLength(e, x)' <=> HasLength(e, x)
             /\ HasBuffer(e, x)' <=> HasBuffer(e, x)
  BY DEF SameAt, HasLength, HasBuffer
<1>3. \A x : Pending(e, x)' <=> Pending(e, x)
  BY DEF SameAt, Pending, NodesIn
<1>4. \A i, n : Has(e, i, n)' <=> Has(e, i, n)
  BY DEF SameAt, Has
<1> QED BY <1>1, <1>2, <1>3, <1>4
       DEF HasPacked, HasSent, HasReceived, HasUnpacked, IsDone

(* Its part of the invariant is the same too.                              *)
LEMMA LocalStays ==
  ASSUME NEW g, NEW e, schedule' = schedule, SameAt(e), Local(g, e)
  PROVE  Local(g, e)'
<1>1. /\ Stage(g, e)' = Stage(g, e)
      /\ HasPacked(g, e)' <=> HasPacked(g, e)
      /\ HasSent(g, e)' <=> HasSent(g, e)
      /\ HasReceived(g, e)' <=> HasReceived(g, e)
      /\ IsDone(g, e)' <=> IsDone(g, e)
      /\ \A x : /\ HasLength(e, x)' <=> HasLength(e, x)
                /\ Pending(e, x)' <=> Pending(e, x)
      /\ \A i, n : Has(e, i, n)' <=> Has(e, i, n)
  BY StageStays
<1>2. RoundAt(g, e)'
  <2>1. RoundAt(g, e)
    BY DEF Local
  <2>2. NextDests(g, e)' = NextDests(g, e)
    BY DEF NextDests
  <2> QED BY <1>1, <2>1, <2>2 DEF RoundAt, SameAt
<1>3. KeysAt(g, e)'
  <2>1. KeysAt(g, e)
    BY DEF Local
  <2>2. \A n : Here(g, e, n)' <=> Here(g, e, n)
    BY <1>1 DEF Here
  <2> QED BY <1>1, <2>1, <2>2 DEF KeysAt, SameAt
<1>4. SendBufAt(g, e)'
  <2>1. SendBufAt(g, e)
    BY DEF Local
  <2> QED BY <1>1, <2>1 DEF SendBufAt, SameAt, Carries
<1>5. RecvLenAt(g, e)'
  <2>1. RecvLenAt(g, e)
    BY DEF Local
  <2> QED BY <1>1, <2>1 DEF RecvLenAt, SameAt
<1>6. RecvBufAt(g, e)'
  <2>1. RecvBufAt(g, e)
    BY DEF Local
  <2> QED BY <1>1, <2>1 DEF RecvBufAt, SameAt
<1>7. TagMapAt(g, e)'
  <2>1. TagMapAt(g, e)
    BY DEF Local
  <2> QED BY <1>1, <2>1 DEF TagMapAt, SameAt, Covers
<1> QED BY <1>2, <1>3, <1>4, <1>5, <1>6, <1>7 DEF Local

(* A settled node stays settled when no domain goes back.                  *)
LEMMA SettledStays ==
  ASSUME NEW g \in Move, NEW n \in Node, NEW t, Forward(g), Settled(g, n, t)
  PROVE  Settled(g, n, t)'
<1>1. t \in Tag /\ t[1] = g.to[n] /\ HasReceived(g, t[1]) /\ Has(t[1], t[2], n)
  BY DEF Settled
<1>2. t[1] \in Domain /\ t[2] \in Index
  BY <1>1 DEF Tag, Index
<1>3. PICK e \in Domain : e = t[1]
  BY <1>2
<1>4. PICK i \in Index : i = t[2]
  BY <1>2
<1>5. HasReceived(g, e)' /\ Has(e, i, n)'
  BY <1>1, <1>3, <1>4 DEF Forward
<1> QED BY <1>1, <1>3, <1>4, <1>5 DEF Settled

(* A channel keeps what it holds while the same is due.                    *)
LEMMA LengthStays ==
  ASSUME NEW g, NEW e, NEW d, lengths'[<<e, d>>] = lengths[<<e, d>>],
         LengthDue(g, e, d)' <=> LengthDue(g, e, d), LengthAt(g, e, d)
  PROVE  LengthAt(g, e, d)'
BY DEF LengthAt

(* The same of the buffer under way ...                                    *)
LEMMA BufferStays ==
  ASSUME NEW g, NEW e, NEW d, nodeBufs'[<<e, d>>] = nodeBufs[<<e, d>>],
         BufferDue(g, e, d)' <=> BufferDue(g, e, d), BufferAt(g, e, d)
  PROVE  BufferAt(g, e, d)'
BY DEF BufferAt, Carries

(* ... and of the tag map.                                                 *)
LEMMA MapStays ==
  ASSUME NEW g, NEW e, NEW d, maps'[<<e, d>>] = maps[<<e, d>>],
         MapDue(g, e, d)' <=> MapDue(g, e, d), MapAt(g, e, d)
  PROVE  MapAt(g, e, d)'
BY DEF MapAt, Covers

(* A step of d keeps the invariant if it keeps d's part of it, the         *)
(* channels, the maps and the arms.                                        *)
LEMMA StepKeepsInv ==
  ASSUME NEW g \in Move, Inv(g), NEW d \in Domain,
         schedule' = schedule, \A e \in Domain \ {d} : SameAt(e),
         Shape', Local(g, d)', Forward(g),
         \A e, x \in Domain : LengthAt(g, e, x)' /\ BufferAt(g, e, x)' /\ MapAt(g, e, x)',
         \A e \in Domain : InStep(g, e, d)',
         MapsSound(g)', ArmsFit(g)'
  PROVE  Inv(g)'
<1>1. Places(g)'
  BY DEF Inv, Places
<1>2. \A e \in Domain : Local(g, e)'
  BY LocalStays DEF Inv
<1>3. ASSUME NEW e \in Domain, NEW x \in Domain PROVE InStep(g, e, x)'
  <2>1. CASE x = d
    BY <2>1
  <2>2. CASE x # d
    <3>1. InStep(g, e, x)
      BY DEF Inv, Between
    <3>2. SameAt(x)
      BY <2>2
    <3>3. /\ HasSent(g, x)' <=> HasSent(g, x)
          /\ HasReceived(g, x)' <=> HasReceived(g, x)
          /\ IsDone(g, x)' <=> IsDone(g, x)
          /\ HasLength(x, e)' <=> HasLength(x, e)
          /\ HasBuffer(x, e)' <=> HasBuffer(x, e)
          /\ mapsFrom'[x] = mapsFrom[x]
      BY <3>2, StageStays DEF SameAt
    <3>4. /\ HasPacked(g, e) => HasPacked(g, e)'
          /\ HasSent(g, e) => HasSent(g, e)'
          /\ HasUnpacked(g, e) => HasUnpacked(g, e)'
      BY DEF Forward
    <3> QED BY <3>1, <3>3, <3>4 DEF InStep
  <2> QED BY <2>1, <2>2
<1>4. \A e, x \in Domain : Between(g, e, x)'
  BY <1>3 DEF Between
<1> QED BY <1>1, <1>2, <1>4 DEF Inv

(* Sound maps stay sound, and arms stay on their nodes.                    *)
LEMMA MapsStaySound ==
  ASSUME NEW g \in Move, Forward(g), MapsSound(g),
         tagMap' = tagMap, maps' = maps
  PROVE  MapsSound(g)'
<1>1. \A n \in Node : \A t : Settled(g, n, t) => Settled(g, n, t)'
  BY SettledStays
<1>2. \A d \in Domain : Sound(g, tagMap[d])'
  BY <1>1 DEF MapsSound, Sound
<1>3. \A p \in Pair : \A k \in DOMAIN maps[p] : Sound(g, maps[p][k].pairs)'
  BY <1>1 DEF MapsSound, Sound
<1> QED BY <1>2, <1>3 DEF MapsSound

(* Arms stay on their nodes when no domain remaps them.                    *)
LEMMA ArmsStay ==
  ASSUME NEW g \in Move, Forward(g), ArmsFit(g), arms' = arms,
         \A e \in Domain : IsDone(g, e)' <=> IsDone(g, e)
  PROVE  ArmsFit(g)'
<1> SUFFICES ASSUME NEW n \in Node, NEW m \in Nbrs(n)
             PROVE  /\ IsDone(g, g.to[n])' => Settled(g, m, arms[n][m])'
                    /\ ~IsDone(g, g.to[n])' => arms[n][m] = g.tag[m]
  BY DEF ArmsFit
<1>1. PICK e \in Domain : e = g.to[n]
  BY DEF Move
<1>2. PICK t : t = arms[n][m]
  OBVIOUS
<1>3. m \in Node
  BY DEF Nbrs
<1>4. IsDone(g, e)' <=> IsDone(g, e)
  OBVIOUS
<1>5. IsDone(g, e) => Settled(g, m, t)
  BY <1>1, <1>2 DEF ArmsFit
<1>6. ~IsDone(g, e) => t = g.tag[m]
  BY <1>1, <1>2 DEF ArmsFit
<1>7. Settled(g, m, t) => Settled(g, m, t)'
  BY <1>3, SettledStays
<1> QED BY <1>1, <1>2, <1>4, <1>5, <1>6, <1>7

-----------------------------------------------------------------------------
(* Initially nothing moves.                                                *)

(* The nodes of a domain can be numbered from zero.                        *)
LEMMA InitialKeysExist ==
  ASSUME NEW place \in [Node -> Domain]
  PROVE  InitialKeys(place) # {}
<1> DEFINE own(d) == {n \in Node : place[n] = d}
           c(d) == Cardinality(own(d))
           b(d) == CHOOSE f : f \in Bijection(1 .. c(d), own(d))
           k == [d \in Domain |-> [i \in 0 .. c(d) - 1 |-> b(d)[i + 1]]]
<1>1. \A d \in Domain : c(d) \in 0 .. Cardinality(Node)
                        /\ b(d) \in Bijection(1 .. c(d), own(d))
  <2> SUFFICES ASSUME NEW d \in Domain
               PROVE  c(d) \in 0 .. Cardinality(Node)
                      /\ b(d) \in Bijection(1 .. c(d), own(d))
    OBVIOUS
  <2>1. own(d) \in SUBSET Node
    OBVIOUS
  <2> HIDE DEF own
  <2>2. IsFiniteSet(own(d)) /\ c(d) <= Cardinality(Node) /\ Cardinality(Node) \in Nat
    BY <2>1, NodeFacts, FS_Subset
  <2>3. c(d) \in Nat /\ ExistsBijection(1 .. c(d), own(d))
    BY <2>2, FS_CardinalityType
  <2>4. c(d) \in 0 .. Cardinality(Node)
    <3> HIDE DEF c
    <3> QED BY <2>2, <2>3
  <2> QED BY <2>3, <2>4 DEF ExistsBijection
<1>2. \A d \in Domain : own(d) \in SUBSET Node
  OBVIOUS
<1> HIDE DEF own, c, b
<1>3. ASSUME NEW d \in Domain
      PROVE  /\ k[d] \in [0 .. c(d) - 1 -> Node]
             /\ {k[d][i] : i \in DOMAIN k[d]} = own(d)
  <2>1. /\ b(d) \in [1 .. c(d) -> own(d)] /\ c(d) \in Nat
        /\ \A n \in own(d) : \E i \in 1 .. c(d) : b(d)[i] = n
    BY <1>1, NodeFacts DEF Bijection, Injection, Surjection
  <2>2. \A i \in 0 .. c(d) - 1 : i + 1 \in 1 .. c(d) /\ k[d][i] = b(d)[i + 1]
    BY <2>1
  <2>3. k[d] \in [0 .. c(d) - 1 -> Node] /\ DOMAIN k[d] = 0 .. c(d) - 1
    BY <1>2, <2>1, <2>2
  <2>4. \A n \in own(d) : \E i \in 0 .. c(d) - 1 : k[d][i] = n
    <3> SUFFICES ASSUME NEW n \in own(d) PROVE \E i \in 0 .. c(d) - 1 : k[d][i] = n
      OBVIOUS
    <3>1. PICK j \in 1 .. c(d) : b(d)[j] = n
      BY <2>1
    <3>2. j - 1 \in 0 .. c(d) - 1 /\ (j - 1) + 1 = j
      BY <2>1
    <3> QED BY <2>2, <3>1, <3>2
  <2>5. \A i \in 0 .. c(d) - 1 : k[d][i] \in own(d)
    BY <2>1, <2>2
  <2> HIDE DEF k
  <2> QED BY <2>3, <2>4, <2>5
<1>4. k \in [Domain -> UNION {[0 .. x - 1 -> Node] : x \in 0 .. Cardinality(Node)}]
  <2>1. \A d \in Domain :
          k[d] \in UNION {[0 .. x - 1 -> Node] : x \in 0 .. Cardinality(Node)}
    BY <1>1, <1>3
  <2> QED BY <2>1
<1>5. \A d \in Domain : /\ DOMAIN k[d] = 0 .. c(d) - 1
                        /\ {k[d][i] : i \in DOMAIN k[d]} = own(d)
  BY <1>3
<1>6. k \in InitialKeys(place)
  BY <1>4, <1>5 DEF InitialKeys, own, c
<1> QED BY <1>6

(* Numbered so, each node has one index.                                   *)
LEMMA InitialKeysFit ==
  ASSUME NEW place \in [Node -> Domain], NEW keys \in InitialKeys(place)
  PROVE  /\ keys \in [Domain -> Keys]
         /\ \A d \in Domain :
              /\ \A i, j \in DOMAIN keys[d] : keys[d][i] = keys[d][j] => i = j
              /\ \A n \in Node : place[n] = d
                   <=> \E i \in Index : i \in DOMAIN keys[d] /\ keys[d][i] = n
<1>1. ASSUME NEW d \in Domain
      PROVE  /\ keys[d] \in Keys
             /\ \A i, j \in DOMAIN keys[d] : keys[d][i] = keys[d][j] => i = j
             /\ \A n \in Node : place[n] = d
                   <=> \E i \in Index : i \in DOMAIN keys[d] /\ keys[d][i] = n
  <2> DEFINE own == {n \in Node : place[n] = d}
             c == Cardinality(own)
             f == keys[d]
  <2>1. /\ DOMAIN f = 0 .. c - 1 /\ {f[i] : i \in DOMAIN f} = own
        /\ f \in UNION {[0 .. x - 1 -> Node] : x \in 0 .. Cardinality(Node)}
    BY DEF InitialKeys
  <2>2. f \in [0 .. c - 1 -> Node]
    BY <2>1
  <2>3. IsFiniteSet(own) /\ c \in Nat /\ c <= Cardinality(Node) /\ Cardinality(Node) \in Nat
    <3>1. own \in SUBSET Node
      OBVIOUS
    <3> QED BY <3>1, NodeFacts, FS_Subset, FS_CardinalityType
  <2>4. \A i \in 0 .. c - 1 : f[i] \in own
    BY <2>1
  <2>5. \A n \in own : \E i \in 0 .. c - 1 : f[i] = n
    BY <2>1
  <2>6. own \in SUBSET Node /\ \A n \in Node : n \in own <=> place[n] = d
    OBVIOUS
  <2>7. 0 .. c - 1 \in SUBSET Index
    BY <2>3 DEF Index
  <2> HIDE DEF own, c, f
  <2>8. f \in Surjection(0 .. c - 1, own)
    BY <2>2, <2>4, <2>5 DEF Surjection
  <2>9. IsFiniteSet(0 .. c - 1) /\ Cardinality(0 .. c - 1) = c
    <3>1. /\ IsFiniteSet(0 .. c - 1)
          /\ Cardinality(0 .. c - 1) = IF 0 > c - 1 THEN 0 ELSE (c - 1) - 0 + 1
      <4>1. 0 \in Int /\ c - 1 \in Int
        BY <2>3
      <4> QED BY <4>1, FS_Interval
    <3> QED BY <2>3, <3>1
  <2>10. f \in Injection(0 .. c - 1, own)
    BY <2>8, <2>9, FS_SurjSameCardinalityImpliesInj DEF c
  <2>11. \A i, j \in DOMAIN f : f[i] = f[j] => i = j
    BY <2>10 DEF Injection, IsInjective
  <2>12. f \in Keys
    BY <2>2, <2>7 DEF Keys
  <2>13. \A n \in Node : place[n] = d <=> \E i \in Index : i \in DOMAIN f /\ f[i] = n
    BY <2>1, <2>4, <2>5, <2>6, <2>7
  <2> QED BY <2>11, <2>12, <2>13 DEF f
<1>2. keys = [d \in Domain |-> keys[d]]
  BY DEF InitialKeys
<1> QED BY <1>1, <1>2

(* The invariant holds initially, of the move that leads from the first    *)
(* placement to itself.                                                    *)
LEMMA InitHasInv ==
  ASSUME Init PROVE MigrationInv
<1> DEFINE place == schedule[1]
           g == [round |-> 0, from |-> place, to |-> place,
                 tag |-> [n \in Node |-> <<place[n], IndexOf(place[n], n)>>]]
<1>1. /\ schedule \in Schedules /\ schedule \in Seq([Node -> Domain])
      /\ Len(schedule) \in Nat /\ Len(schedule) > 0 /\ place \in [Node -> Domain]
  <2>1. schedule \in Schedules
    BY DEF Init
  <2>2. schedule \in Seq([Node -> Domain]) /\ schedule # <<>>
    BY <2>1, SchedulesAssumption
  <2> QED BY <2>1, <2>2
<1>2. nodeKeys \in InitialKeys(place)
  <2>1. nodeKeys = CHOOSE k \in InitialKeys(schedule[1]) : TRUE
    BY DEF Init
  <2> QED BY <1>1, <2>1, InitialKeysExist
<1>3. /\ nodeKeys \in [Domain -> Keys]
      /\ \A d \in Domain :
           /\ \A i, j \in DOMAIN nodeKeys[d] : nodeKeys[d][i] = nodeKeys[d][j] => i = j
           /\ \A n \in Node : place[n] = d <=> \E i \in Index : Has(d, i, n)
  BY <1>1, <1>2, InitialKeysFit DEF Has
<1>4. \A n \in Node : /\ place[n] \in Domain /\ IndexOf(place[n], n) \in Index
                      /\ Has(place[n], IndexOf(place[n], n), n)
  <2> SUFFICES ASSUME NEW n \in Node
               PROVE  /\ place[n] \in Domain /\ IndexOf(place[n], n) \in Index
                      /\ Has(place[n], IndexOf(place[n], n), n)
    OBVIOUS
  <2>1. place[n] \in Domain
    BY <1>1
  <2>2. PICK i \in Index : Has(place[n], i, n)
    BY <1>3, <2>1
  <2>3. Has(place[n], IndexOf(place[n], n), n)
    BY <2>2 DEF IndexOf, Has
  <2>4. DOMAIN nodeKeys[place[n]] \subseteq Index
    BY <1>3, <2>1 DEF Keys
  <2> QED BY <2>1, <2>3, <2>4 DEF Has
<1>5. g \in Move
  <2>1. \A n \in Node : <<place[n], IndexOf(place[n], n)>> \in Tag
    BY <1>4 DEF Tag, Index
  <2> HIDE DEF place
  <2> QED BY <1>1, <2>1 DEF Move, place
<1>6. /\ g.round = 0 /\ g.from = place /\ g.to = place
      /\ \A n \in Node : g.tag[n] = <<place[n], IndexOf(place[n], n)>>
  OBVIOUS
<1>7. \A d \in Domain : round[d] = 0 /\ pc[d] = "step" /\ Stage(g, d) = "step"
  BY <1>6 DEF Init, Stage
<1> HIDE DEF g
<1>8. \A d \in Domain : /\ HasPacked(g, d) /\ HasSent(g, d) /\ HasReceived(g, d)
                        /\ HasUnpacked(g, d) /\ IsDone(g, d)
  BY <1>7 DEF HasPacked, HasSent, HasReceived, HasUnpacked, IsDone
<1>9. \A d \in Domain : /\ commLists[d] = <<>> /\ sendBuf[d] = <<>>
                        /\ recvLen[d] = <<>> /\ recvBuf[d] = <<>>
                        /\ tagMap[d] = {} /\ mapsFrom[d] = {}
  BY DEF Init
<1>10. \A p \in Pair : lengths[p] = <<>> /\ nodeBufs[p] = <<>> /\ maps[p] = <<>>
  BY DEF Init
<1>11. \A n \in Node : \A m \in Nbrs(n) :
         m \in Node /\ arms[n][m] = <<place[m], IndexOf(place[m], m)>>
  BY DEF Init, Nbrs
<1>12. Shape
  <2>1. \A n \in Node : arms[n] \in [Nbrs(n) -> Tag] /\ DOMAIN arms[n] = Nbrs(n)
                        /\ Nbrs(n) \in SUBSET Node
    <3>1. \A n \in Node : <<place[n], IndexOf(place[n], n)>> \in Tag
      BY <1>4 DEF Tag, Index
    <3>2. \A n \in Node : Nbrs(n) \in SUBSET Node
      BY DEF Nbrs
    <3>3. arms = [n \in Node |-> [m \in Nbrs(n) |-> <<place[m], IndexOf(place[m], m)>>]]
      BY DEF Init
    <3> HIDE DEF place
    <3> QED BY <3>1, <3>2, <3>3
  <2>2. arms = [n \in Node |-> arms[n]]
    BY DEF Init
  <2>3. arms \in [Node -> UNION {[S -> Tag] : S \in SUBSET Node}]
    BY <2>1, <2>2
  <2>4. round \in [Domain -> Nat] /\ pc \in [Domain -> Stages \ {"next"}]
    BY DEF Init, Stages
  <2> QED BY <1>3, <2>1, <2>3, <2>4 DEF Shape, Init
<1>13. Places(g)
  <2>1. \A m, n \in Node : g.tag[m] = g.tag[n] => m = n
    <3> SUFFICES ASSUME NEW m \in Node, NEW n \in Node, g.tag[m] = g.tag[n]
                 PROVE  m = n
      OBVIOUS
    <3>1. place[m] = place[n] /\ IndexOf(place[m], m) = IndexOf(place[n], n)
      BY <1>6
    <3> QED BY <1>4, <3>1 DEF Has
  <2> QED BY <1>1, <1>6, <2>1 DEF Places
<1>14. ASSUME NEW d \in Domain PROVE Local(g, d)
  <2>1. RoundAt(g, d)
    <3>1. commLists[d] \in Seq(SUBSET Domain) /\ Len(commLists[d]) = 0
      <4>1. \A S : <<>> \in Seq(S) /\ Len(<<>>) = 0
        OBVIOUS
      <4>2. commLists[d] = <<>>
        BY <1>9
      <4> QED BY <4>1, <4>2
    <3>2. g.round = 0 /\ round[d] = 0 /\ IsDone(g, d)
      BY <1>6, <1>7, <1>8
    <3> QED BY <3>1, <3>2 DEF RoundAt
  <2>2. KeysAt(g, d)
    <3>1. \A n : ~Pending(d, n)
      BY <1>9 DEF Pending
    <3>2. \A n \in Node : Here(g, d, n) <=> place[n] = d
      BY <1>6, <1>8, <3>1 DEF Here
    <3>3. \A n \in Node : place[n] = d => Has(d, g.tag[n][2], n)
      BY <1>4, <1>6
    <3> QED BY <1>3, <1>6, <3>2, <3>3 DEF KeysAt
  <2>3. SendBufAt(g, d) /\ RecvLenAt(g, d) /\ RecvBufAt(g, d) /\ TagMapAt(g, d)
    BY <1>7, <1>9 DEF SendBufAt, RecvLenAt, RecvBufAt, TagMapAt
  <2> QED BY <2>1, <2>2, <2>3 DEF Local
<1>15. ASSUME NEW e \in Domain, NEW d \in Domain PROVE Between(g, e, d)
  <2>1. <<e, d>> \in Pair
    BY DEF Pair
  <2>2. ~LengthDue(g, e, d) /\ ~BufferDue(g, e, d) /\ ~MapDue(g, e, d)
    BY <1>8 DEF LengthDue, BufferDue, MapDue
  <2>3. LengthAt(g, e, d) /\ BufferAt(g, e, d) /\ MapAt(g, e, d)
    BY <1>10, <2>1, <2>2 DEF LengthAt, BufferAt, MapAt
  <2>4. InStep(g, e, d)
    BY <1>8 DEF InStep
  <2> QED BY <2>3, <2>4 DEF Between
<1>16. MapsSound(g)
  BY <1>9, <1>10 DEF MapsSound, Sound
<1>17. ArmsFit(g)
  <2> SUFFICES ASSUME NEW n \in Node, NEW m \in Nbrs(n)
               PROVE  IsDone(g, g.to[n]) /\ Settled(g, m, arms[n][m])
    BY DEF ArmsFit
  <2>1. m \in Node /\ arms[n][m] = <<place[m], IndexOf(place[m], m)>>
    BY <1>11
  <2>2. place[m] \in Domain /\ Has(place[m], IndexOf(place[m], m), m)
        /\ IndexOf(place[m], m) \in Index /\ place[n] \in Domain
    BY <1>4, <2>1
  <2>3. Settled(g, m, <<place[m], IndexOf(place[m], m)>>)
    BY <1>6, <1>8, <2>2 DEF Settled, Tag, Index
  <2> QED BY <1>6, <1>8, <2>1, <2>2, <2>3
<1> QED BY <1>5, <1>12, <1>13, <1>14, <1>15, <1>16, <1>17 DEF Inv, MigrationInv

-----------------------------------------------------------------------------
(* A domain that begins the next migration changes nothing of this one.    *)
LEMMA BuildKeepsInv ==
  ASSUME NEW g \in Move, Inv(g), NEW d \in Domain, BuildMigLists(d)
  PROVE  Inv(g)'
<1>1. /\ pc[d] = "step" /\ round[d] + 1 < Len(schedule)
      /\ round' = [round EXCEPT ![d] = @ + 1]
      /\ commLists' = [commLists EXCEPT ![d] = Append(@,
           {schedule[round[d] + 2][n] : n \in Native(d)} \ {d})]
      /\ pc' = [pc EXCEPT ![d] = "reduce"]
      /\ schedule' = schedule /\ nodeKeys' = nodeKeys /\ arms' = arms
      /\ sendBuf' = sendBuf /\ lengths' = lengths /\ nodeBufs' = nodeBufs
      /\ maps' = maps /\ recvLen' = recvLen /\ recvBuf' = recvBuf
      /\ tagMap' = tagMap /\ mapsFrom' = mapsFrom
  BY DEF BuildMigLists, keyVars, msgVars, recvVars, mapVars
<1>2. Shape /\ Local(g, d) /\ MapsSound(g) /\ ArmsFit(g)
  BY DEF Inv
<1>3. /\ g.round \in Nat /\ Stage(g, d) = "step" /\ round[d] = g.round
      /\ Len(schedule) \in Nat
  BY <1>1, StageFacts, MoveFacts
<1>4. round'[d] = g.round + 1 /\ pc'[d] = "reduce" /\ Stage(g, d)' = "next"
  <2>1. round'[d] = g.round + 1 /\ pc'[d] = "reduce"
    BY <1>1, <1>2, <1>3 DEF Shape
  <2> QED BY <1>3, <2>1 DEF Stage
<1>5. \A e \in Domain \ {d} : SameAt(e)
  BY <1>1, <1>2 DEF Shape, SameAt
<1>6. \A e \in Domain : /\ HasPacked(g, e)' <=> HasPacked(g, e)
                        /\ HasSent(g, e)' <=> HasSent(g, e)
                        /\ HasReceived(g, e)' <=> HasReceived(g, e)
                        /\ HasUnpacked(g, e)' <=> HasUnpacked(g, e)
                        /\ IsDone(g, e)' <=> IsDone(g, e)
  <2>1. ASSUME NEW e \in Domain, e # d
        PROVE  /\ HasPacked(g, e)' <=> HasPacked(g, e)
               /\ HasSent(g, e)' <=> HasSent(g, e)
               /\ HasReceived(g, e)' <=> HasReceived(g, e)
               /\ HasUnpacked(g, e)' <=> HasUnpacked(g, e)
               /\ IsDone(g, e)' <=> IsDone(g, e)
    BY <1>5, <2>1, StageStays
  <2>2. /\ HasPacked(g, d)' <=> HasPacked(g, d)
        /\ HasSent(g, d)' <=> HasSent(g, d)
        /\ HasReceived(g, d)' <=> HasReceived(g, d)
        /\ HasUnpacked(g, d)' <=> HasUnpacked(g, d)
        /\ IsDone(g, d)' <=> IsDone(g, d)
    BY <1>3, <1>4 DEF HasPacked, HasSent, HasReceived, HasUnpacked, IsDone
  <2> QED BY <2>1, <2>2
<1>7. \A e, x : /\ HasLength(e, x)' <=> HasLength(e, x)
                /\ HasBuffer(e, x)' <=> HasBuffer(e, x)
                /\ Pending(e, x)' <=> Pending(e, x)
  BY <1>1 DEF HasLength, HasBuffer, Pending, NodesIn
<1>8. \A e, i, n : Has(e, i, n)' <=> Has(e, i, n)
  BY <1>1 DEF Has
<1>9. Shape'
  BY <1>1, <1>2 DEF Shape, Stages
<1>10. RoundAt(g, d)'
  <2>1. /\ commLists[d] \in Seq(SUBSET Domain) /\ Len(commLists[d]) = g.round
        /\ g.round > 0 => commLists[d][g.round] = Dests(g, d)
    BY <1>2, <1>3 DEF Local, RoundAt
  <2>2. Native(d) = {m \in Node : g.to[m] = d}
    <3>1. recvBuf[d] = <<>> /\ KeysAt(g, d)
      BY <1>2, <1>3 DEF Local, RecvBufAt
    <3>2. \A n : ~Pending(d, n)
      BY <3>1 DEF Pending
    <3>3. HasReceived(g, d)
      BY <1>3 DEF HasReceived
    <3>4. \A n \in Node : g.to[n] = d <=> \E i \in Index : Has(d, i, n)
      BY <3>1, <3>2, <3>3 DEF KeysAt, Here
    <3>5. \A i \in DOMAIN nodeKeys[d] : i \in Index /\ nodeKeys[d][i] \in Node
      BY <1>2 DEF Shape, Keys
    <3> QED BY <3>4, <3>5 DEF Native, Has
  <2>3. g.round + 2 <= Len(schedule) /\ round[d] + 2 = g.round + 2
    BY <1>1, <1>3
  <2>4. commLists'[d] = Append(commLists[d], NextDests(g, d))
    <3>1. commLists'[d] = Append(commLists[d],
            {schedule[round[d] + 2][n] : n \in Native(d)} \ {d})
      BY <1>1, <1>2 DEF Shape
    <3> QED BY <2>2, <2>3, <3>1 DEF NextDests
  <2>5. NextDests(g, d) \in SUBSET Domain
    <3>1. schedule[g.round + 2] \in [Node -> Domain]
      BY <1>3, <2>3, MoveFacts
    <3> QED BY <3>1 DEF NextDests
  <2>6. /\ commLists'[d] \in Seq(SUBSET Domain) /\ Len(commLists'[d]) = g.round + 1
        /\ commLists'[d][g.round + 1] = NextDests(g, d)
        /\ g.round > 0 => commLists'[d][g.round] = commLists[d][g.round]
    <3> DEFINE S == SUBSET Domain
               a == NextDests(g, d)
    <3>1. a \in S
      BY <2>5
    <3> HIDE DEF S, a
    <3>2. commLists[d] \in Seq(S) /\ commLists'[d] = Append(commLists[d], a)
      BY <2>1, <2>4 DEF S, a
    <3>3. /\ commLists'[d] \in Seq(S) /\ Len(commLists'[d]) = g.round + 1
          /\ commLists'[d][g.round + 1] = a
          /\ g.round > 0 => commLists'[d][g.round] = commLists[d][g.round]
      BY <1>3, <2>1, <3>1, <3>2
    <3> QED BY <3>3 DEF S, a
  <2>7. NextDests(g, d)' = NextDests(g, d) /\ IsDone(g, d)'
    BY <1>1, <1>4 DEF NextDests, IsDone
  <2> QED BY <1>1, <1>4, <2>1, <2>3, <2>6, <2>7 DEF RoundAt
<1>11. KeysAt(g, d)'
  <2>1. KeysAt(g, d)
    BY <1>2 DEF Local
  <2>2. \A n : Here(g, d, n)' <=> Here(g, d, n)
    BY <1>6, <1>7 DEF Here
  <2> QED BY <1>1, <1>6, <1>8, <2>1, <2>2 DEF KeysAt
<1>12. SendBufAt(g, d)' /\ RecvLenAt(g, d)' /\ RecvBufAt(g, d)' /\ TagMapAt(g, d)'
  BY <1>1, <1>2, <1>3, <1>4 DEF Local, SendBufAt, RecvLenAt, RecvBufAt, TagMapAt
<1>13. Forward(g)
  BY <1>6, <1>8 DEF Forward
<1>14. ASSUME NEW e \in Domain, NEW x \in Domain
       PROVE  LengthAt(g, e, x)' /\ BufferAt(g, e, x)' /\ MapAt(g, e, x)'
  <2>1. LengthAt(g, e, x) /\ BufferAt(g, e, x) /\ MapAt(g, e, x)
    BY DEF Inv, Between
  <2>2. /\ LengthDue(g, e, x)' <=> LengthDue(g, e, x)
        /\ BufferDue(g, e, x)' <=> BufferDue(g, e, x)
        /\ MapDue(g, e, x)' <=> MapDue(g, e, x)
    BY <1>1, <1>6, <1>7 DEF LengthDue, BufferDue, MapDue
  <2> QED BY <1>1, <2>1, <2>2, LengthStays, BufferStays, MapStays
<1>15. ASSUME NEW e \in Domain PROVE InStep(g, e, d)'
  <2>1. InStep(g, e, d)
    BY DEF Inv, Between
  <2> QED BY <1>1, <1>6, <1>7, <2>1 DEF InStep
<1>16. MapsSound(g)' /\ ArmsFit(g)'
  BY <1>1, <1>2, <1>6, <1>13, MapsStaySound, ArmsStay
<1>17. Local(g, d)'
  BY <1>10, <1>11, <1>12 DEF Local
<1> QED BY <1>1, <1>5, <1>9, <1>13, <1>14, <1>15, <1>16, <1>17, StepKeepsInv

-----------------------------------------------------------------------------
(* The length that arrives is the one the sender announced.                *)
LEMMA LengthIsTyped ==
  ASSUME NEW g \in Move, NEW e, NEW d
  PROVE  LengthOf(g, e, d) \in [len : Nat, round : Nat]
<1>1. Leaving(g, e, d) \in SUBSET Node
  BY DEF Leaving
<1>2. Cardinality(Leaving(g, e, d)) \in Nat
  BY <1>1, NodeFacts, FS_Subset, FS_CardinalityType
<1>3. g.round \in Nat
  BY DEF Move
<1> QED BY <1>2, <1>3 DEF LengthOf

(* A length that arrives is the one its sender announced.                  *)
LEMMA RecvLengthKeepsInv ==
  ASSUME NEW g \in Move, Inv(g), NEW d \in Domain, NEW s \in Domain, RecvLength(d, s)
  PROVE  Inv(g)'
<1>1. /\ pc[d] = "lengths" /\ lengths[<<s, d>>] # <<>>
      /\ recvLen' = [recvLen EXCEPT ![d] = Append(@,
           [from |-> s, msg |-> Head(lengths[<<s, d>>])])]
      /\ lengths' = [lengths EXCEPT ![<<s, d>>] = Tail(@)]
      /\ schedule' = schedule /\ nodeKeys' = nodeKeys /\ arms' = arms
      /\ round' = round /\ pc' = pc /\ commLists' = commLists
      /\ sendBuf' = sendBuf /\ nodeBufs' = nodeBufs /\ maps' = maps
      /\ recvBuf' = recvBuf /\ tagMap' = tagMap /\ mapsFrom' = mapsFrom
  BY DEF RecvLength, Arrived, First, Receive, keyVars, mapVars
<1>2. Shape /\ Local(g, d) /\ MapsSound(g) /\ ArmsFit(g)
  BY DEF Inv
<1>3. Stage(g, d) = "lengths"
  BY <1>1, StageFacts
<1>4. \A e, x \in Domain : LengthAt(g, e, x) /\ BufferAt(g, e, x) /\ MapAt(g, e, x)
                           /\ InStep(g, e, x)
  BY DEF Inv, Between
<1>5. LengthDue(g, s, d) /\ lengths[<<s, d>>] = <<LengthOf(g, s, d)>>
  BY <1>1, <1>4 DEF LengthAt
<1>6. <<s, d>> \in Pair
  BY DEF Pair
<1>7. /\ recvLen'[d] = Append(recvLen[d], [from |-> s, msg |-> LengthOf(g, s, d)])
      /\ lengths'[<<s, d>>] = <<>>
      /\ \A e, x \in Domain : e # s \/ x # d => lengths'[<<e, x>>] = lengths[<<e, x>>]
  <2> DEFINE l == LengthOf(g, s, d)
  <2> HIDE DEF l
  <2>1. lengths[<<s, d>>] = <<l>>
    BY <1>5 DEF l
  <2>2. Head(lengths[<<s, d>>]) = l /\ Tail(lengths[<<s, d>>]) = <<>>
    BY <2>1
  <2>3. recvLen'[d] = Append(recvLen[d], [from |-> s, msg |-> l])
    BY <1>1, <1>2, <2>2 DEF Shape
  <2>4. lengths'[<<s, d>>] = <<>>
    BY <1>1, <1>2, <1>6, <2>2 DEF Shape
  <2>5. \A e, x \in Domain : e # s \/ x # d => lengths'[<<e, x>>] = lengths[<<e, x>>]
    <3>1. \A e, x \in Domain : e # s \/ x # d =>
            <<e, x>> \in Pair /\ <<e, x>> # <<s, d>>
      BY DEF Pair
    <3> QED BY <1>1, <1>2, <3>1 DEF Shape
  <2> QED BY <2>3, <2>4, <2>5 DEF l
<1>8. \A e \in Domain \ {d} : SameAt(e)
  BY <1>1, <1>2 DEF Shape, SameAt
<1>9. \A e : /\ Stage(g, e)' = Stage(g, e)
             /\ HasPacked(g, e)' <=> HasPacked(g, e)
             /\ HasSent(g, e)' <=> HasSent(g, e)
             /\ HasReceived(g, e)' <=> HasReceived(g, e)
             /\ HasUnpacked(g, e)' <=> HasUnpacked(g, e)
             /\ IsDone(g, e)' <=> IsDone(g, e)
             /\ \A n : Pending(e, n)' <=> Pending(e, n)
             /\ \A i, n : Has(e, i, n)' <=> Has(e, i, n)
  BY <1>1 DEF Stage, HasPacked, HasSent, HasReceived, HasUnpacked, IsDone,
              Pending, NodesIn, Has
<1>10. RecvLenAt(g, d) /\ recvLen[d] \in Seq(Receipt) /\ recvBuf[d] = <<>>
  BY <1>2, <1>3 DEF Local, RecvLenAt, RecvBufAt
<1>11. /\ \A x : HasLength(d, x)' <=> HasLength(d, x) \/ x = s
       /\ \A x : ~HasBuffer(d, x) /\ ~HasBuffer(d, x)'
  <2> DEFINE q == recvLen[d]
             r == [from |-> s, msg |-> LengthOf(g, s, d)]
  <2>1. \A x : HasLength(d, x) <=> \E k \in DOMAIN q : q[k].from = x
    BY DEF HasLength
  <2>2. \A x : HasLength(d, x)' <=>
                 \E k \in DOMAIN Append(q, r) : Append(q, r)[k].from = x
    BY <1>7 DEF HasLength
  <2>3. r.from = s
    OBVIOUS
  <2> HIDE DEF q, r
  <2>4. q \in Seq(Receipt)
    BY <1>10 DEF q
  <2>5. /\ DOMAIN q = 1 .. Len(q) /\ Len(q) \in Nat
        /\ DOMAIN Append(q, r) = 1 .. Len(q) + 1
        /\ \A k \in 1 .. Len(q) : Append(q, r)[k] = q[k]
        /\ Append(q, r)[Len(q) + 1] = r
    BY <2>4
  <2>6. \A x : HasLength(d, x)' <=> HasLength(d, x) \/ x = s
    BY <2>1, <2>2, <2>3, <2>5
  <2>7. \A x : ~HasBuffer(d, x) /\ ~HasBuffer(d, x)'
    BY <1>1, <1>10 DEF HasBuffer
  <2> QED BY <2>6, <2>7
<1>12. \A x \in Domain \ {d} : \A e : /\ HasLength(x, e)' <=> HasLength(x, e)
                                      /\ HasBuffer(x, e)' <=> HasBuffer(x, e)
  BY <1>8, StageStays
<1>13. Shape'
  BY <1>1, <1>2 DEF Shape
<1>14. Local(g, d)'
  <2>1. RoundAt(g, d)' /\ KeysAt(g, d)' /\ SendBufAt(g, d)' /\ RecvBufAt(g, d)'
        /\ TagMapAt(g, d)'
    <3>1. RoundAt(g, d)'
      <4>1. NextDests(g, d)' = NextDests(g, d)
        BY <1>1 DEF NextDests
      <4> QED BY <1>1, <1>2, <1>9, <4>1 DEF Local, RoundAt
    <3>2. KeysAt(g, d)'
      <4>1. \A n : Here(g, d, n)' <=> Here(g, d, n)
        BY <1>9 DEF Here
      <4> QED BY <1>1, <1>2, <1>9, <4>1 DEF Local, KeysAt
    <3>3. SendBufAt(g, d)'
      BY <1>1, <1>2, <1>9 DEF Local, SendBufAt, Carries
    <3>4. RecvBufAt(g, d)'
      BY <1>1, <1>3, <1>9, <1>10 DEF RecvBufAt
    <3>5. TagMapAt(g, d)'
      BY <1>1, <1>2, <1>9 DEF Local, TagMapAt, Covers
    <3> QED BY <3>1, <3>2, <3>3, <3>4, <3>5
  <2>2. RecvLenAt(g, d)'
    <3> DEFINE q == recvLen[d]
               l == LengthOf(g, s, d)
               r == [from |-> s, msg |-> l]
    <3>1. r \in Receipt /\ r.from = s /\ r.msg = l
      BY LengthIsTyped DEF Receipt
    <3>2. d \in Dests(g, s) /\ \A k \in DOMAIN q : q[k].from # s
      BY <1>5 DEF LengthDue, HasLength
    <3>3. /\ q \in Seq(Receipt)
          /\ \A k \in DOMAIN q :
               /\ d \in Dests(g, q[k].from)
               /\ q[k].msg = LengthOf(g, q[k].from, d)
               /\ \A j \in DOMAIN q : q[j].from = q[k].from => j = k
      BY <1>3, <1>10 DEF RecvLenAt
    <3>4. recvLen'[d] = Append(q, r)
      BY <1>7
    <3>5. l = LengthOf(g, s, d)
      OBVIOUS
    <3> HIDE DEF q, r, l
    <3>6. /\ DOMAIN q = 1 .. Len(q) /\ Len(q) \in Nat
          /\ Append(q, r) \in Seq(Receipt)
          /\ DOMAIN Append(q, r) = 1 .. Len(q) + 1
          /\ \A k \in 1 .. Len(q) : Append(q, r)[k] = q[k]
          /\ Append(q, r)[Len(q) + 1] = r
      BY <3>1, <3>3
    <3> DEFINE p == Append(q, r)
    <3> HIDE DEF p
    <3>7. ASSUME NEW k \in DOMAIN p
          PROVE  /\ d \in Dests(g, p[k].from)
                 /\ p[k].msg = LengthOf(g, p[k].from, d)
                 /\ \A j \in DOMAIN p : p[j].from = p[k].from => j = k
      <4>1. k \in 1 .. Len(q) + 1
        BY <3>6 DEF p
      <4>2. CASE k = Len(q) + 1
        BY <3>1, <3>2, <3>5, <3>6, <4>2 DEF p
      <4>3. CASE k \in 1 .. Len(q)
        BY <3>1, <3>2, <3>3, <3>6, <4>3 DEF p
      <4> QED BY <3>6, <4>1, <4>2, <4>3
    <3>8. ~HasSent(g, d)'
      BY <1>3, <1>9 DEF HasSent
    <3>9. recvLen'[d] = p /\ p \in Seq(Receipt)
      BY <3>4, <3>6 DEF p
    <3> QED BY <1>3, <1>9, <3>7, <3>8, <3>9 DEF RecvLenAt
  <2> QED BY <2>1, <2>2 DEF Local
<1>15. Forward(g)
  BY <1>9 DEF Forward
<1>16. ASSUME NEW e \in Domain, NEW x \in Domain
       PROVE  LengthAt(g, e, x)' /\ BufferAt(g, e, x)' /\ MapAt(g, e, x)'
  <2>1. /\ BufferDue(g, e, x)' <=> BufferDue(g, e, x)
        /\ MapDue(g, e, x)' <=> MapDue(g, e, x)
    BY <1>1, <1>9, <1>11, <1>12 DEF BufferDue, MapDue
  <2>2. BufferAt(g, e, x)' /\ MapAt(g, e, x)'
    BY <1>1, <1>4, <2>1, BufferStays, MapStays
  <2>3. CASE e = s /\ x = d
    <3>1. ~LengthDue(g, s, d)'
      BY <1>11 DEF LengthDue
    <3> QED BY <1>7, <2>2, <2>3, <3>1 DEF LengthAt
  <2>4. CASE e # s \/ x # d
    <3>1. LengthDue(g, e, x)' <=> LengthDue(g, e, x)
      BY <1>9, <1>11, <1>12, <2>4 DEF LengthDue
    <3> QED BY <1>4, <1>7, <2>2, <2>4, <3>1, LengthStays
  <2> QED BY <2>3, <2>4
<1>17. ASSUME NEW e \in Domain PROVE InStep(g, e, d)'
  <2>1. InStep(g, e, d)
    BY <1>4
  <2>2. HasPacked(g, s)
    BY <1>5 DEF LengthDue
  <2> QED BY <1>1, <1>9, <1>11, <2>1, <2>2 DEF InStep
<1>18. MapsSound(g)' /\ ArmsFit(g)'
  BY <1>1, <1>2, <1>9, <1>15, MapsStaySound, ArmsStay
<1> QED BY <1>1, <1>8, <1>13, <1>14, <1>15, <1>16, <1>17, <1>18, StepKeepsInv

-----------------------------------------------------------------------------
(* The collective count is the number of senders: when as many lengths are *)
(* in, there is one of each.                                               *)
LEMMA AllLengthsIn ==
  ASSUME NEW g \in Move, Inv(g), NEW d \in Domain, Stage(g, d) = "lengths",
         Len(recvLen[d]) = NumRecvBufs(d)
  PROVE  \A e \in Domain : d \in Dests(g, e) => HasLength(d, e)
<1> DEFINE q == recvLen[d]
           Known == {q[k].from : k \in DOMAIN q}
           From  == {e \in Domain : d \in Dests(g, e)}
<1>1. /\ q \in Seq(Receipt)
      /\ \A k \in DOMAIN q : /\ d \in Dests(g, q[k].from)
                             /\ \A j \in DOMAIN q : q[j].from = q[k].from => j = k
  <2>1. RecvLenAt(g, d)
    BY DEF Inv, Local
  <2> QED BY <2>1 DEF RecvLenAt
<1>2. DOMAIN q = 1 .. Len(q) /\ Len(q) \in Nat /\ \A k \in DOMAIN q : q[k].from \in Domain
  <2> HIDE DEF q
  <2>1. DOMAIN q = 1 .. Len(q) /\ Len(q) \in Nat /\ \A k \in DOMAIN q : q[k] \in Receipt
    BY <1>1
  <2> QED BY <2>1 DEF Receipt
<1>3. SendersTo(d) = From
  <2>1. round[d] = g.round /\ g.round > 0 /\ g.round \in Nat
    BY StageFacts, MoveFacts DEF IsDone
  <2>2. ASSUME NEW e \in Domain
        PROVE  Len(commLists[e]) >= g.round /\ commLists[e][g.round] = Dests(g, e)
    <3>1. RoundAt(g, e)
      BY DEF Inv, Local
    <3> QED BY <2>1, <3>1 DEF RoundAt
  <2> QED BY <2>1, <2>2 DEF SendersTo
<1>4. Known \in SUBSET From
  BY <1>1, <1>2
<1>5. IsFiniteSet(From)
  <2>1. From \in SUBSET Domain
    OBVIOUS
  <2> QED BY <2>1, NodeAssumption, FS_Subset
<1>6. Cardinality(Known) = Len(q)
  <2> DEFINE f == [k \in 1 .. Len(q) |-> q[k].from]
  <2>1. f \in [1 .. Len(q) -> Known]
    BY <1>2
  <2>2. \A j, k \in 1 .. Len(q) : f[j] = f[k] => j = k
    BY <1>1, <1>2
  <2>3. \A n \in Known : \E k \in 1 .. Len(q) : f[k] = n
    BY <1>2
  <2> HIDE DEF Known
  <2>4. f \in Bijection(1 .. Len(q), Known)
    BY <2>1, <2>2, <2>3 DEF Bijection, Injection, Surjection, IsInjective
  <2>5. ExistsBijection(1 .. Len(q), Known)
    BY <2>4 DEF ExistsBijection
  <2> QED BY <1>2, <2>5, FS_CountingElements
<1>7. Cardinality(From) = Cardinality(Known)
  BY <1>3, <1>6 DEF NumRecvBufs
<1>8. From = Known
  <2> HIDE DEF From, Known
  <2> QED BY <1>4, <1>5, <1>7, FS_Subset
<1> QED BY <1>8 DEF HasLength

(* All lengths are in, so each receive of a buffer knows its source.       *)
LEMMA SendMigratorsKeepsInv ==
  ASSUME NEW g \in Move, Inv(g), NEW d \in Domain, SendMigrators(d)
  PROVE  Inv(g)'
<1>1. /\ pc[d] = "lengths" /\ Len(recvLen[d]) = NumRecvBufs(d)
      /\ nodeBufs' = Send(nodeBufs, d, sendBuf[d])
      /\ sendBuf' = [sendBuf EXCEPT ![d] = <<>>]
      /\ pc' = [pc EXCEPT ![d] = "nodes"]
      /\ schedule' = schedule /\ nodeKeys' = nodeKeys /\ arms' = arms
      /\ round' = round /\ commLists' = commLists /\ lengths' = lengths
      /\ maps' = maps /\ recvLen' = recvLen /\ recvBuf' = recvBuf
      /\ tagMap' = tagMap /\ mapsFrom' = mapsFrom
  BY DEF SendMigrators, keyVars, recvVars, mapVars
<1>2. Shape /\ Local(g, d) /\ MapsSound(g) /\ ArmsFit(g)
  BY DEF Inv
<1>3. Stage(g, d) = "lengths" /\ round[d] = g.round
  BY <1>1, StageFacts
<1>4. \A e, x \in Domain : LengthAt(g, e, x) /\ BufferAt(g, e, x) /\ MapAt(g, e, x)
                           /\ InStep(g, e, x)
  BY DEF Inv, Between
<1>5. Stage(g, d)' = "nodes" /\ pc'[d] = "nodes"
  BY <1>1, <1>2, <1>3 DEF Shape, Stage
<1>6. \A e \in Domain \ {d} : SameAt(e)
  BY <1>1, <1>2 DEF Shape, SameAt
<1>7. \A e \in Domain \ {d} : /\ Stage(g, e)' = Stage(g, e)
                              /\ HasSent(g, e)' <=> HasSent(g, e)
  BY <1>6, StageStays
<1>8. HasSent(g, d)' /\ ~HasSent(g, d)
  BY <1>3, <1>5 DEF HasSent
<1>9. \A e \in Domain : /\ HasPacked(g, e)' <=> HasPacked(g, e)
                        /\ HasReceived(g, e)' <=> HasReceived(g, e)
                        /\ HasUnpacked(g, e)' <=> HasUnpacked(g, e)
                        /\ IsDone(g, e)' <=> IsDone(g, e)
  <2>1. ASSUME NEW e \in Domain, e # d
        PROVE  /\ HasPacked(g, e)' <=> HasPacked(g, e)
               /\ HasReceived(g, e)' <=> HasReceived(g, e)
               /\ HasUnpacked(g, e)' <=> HasUnpacked(g, e)
               /\ IsDone(g, e)' <=> IsDone(g, e)
    BY <1>6, <2>1, StageStays
  <2>2. /\ HasPacked(g, d)' <=> HasPacked(g, d)
        /\ HasReceived(g, d)' <=> HasReceived(g, d)
        /\ HasUnpacked(g, d)' <=> HasUnpacked(g, d)
        /\ IsDone(g, d)' <=> IsDone(g, d)
    BY <1>3, <1>5 DEF HasPacked, HasReceived, HasUnpacked, IsDone
  <2> QED BY <2>1, <2>2
<1>10. /\ \A e, x : /\ HasLength(e, x)' <=> HasLength(e, x)
                    /\ HasBuffer(e, x)' <=> HasBuffer(e, x)
                    /\ Pending(e, x)' <=> Pending(e, x)
       /\ \A e, i, n : Has(e, i, n)' <=> Has(e, i, n)
  BY <1>1 DEF HasLength, HasBuffer, Pending, NodesIn, Has
<1>11. \A e \in Domain : d \in Dests(g, e) => HasLength(d, e)
  BY <1>1, <1>3, AllLengthsIn
<1>12. /\ DOMAIN sendBuf[d] = Dests(g, d)
       /\ \A x \in Dests(g, d) : Carries(g, sendBuf[d][x], d, x)
  BY <1>2, <1>3 DEF Local, SendBufAt
<1>13. \A e, x \in Domain :
         nodeBufs'[<<e, x>>] = IF e = d /\ x \in Dests(g, d)
                               THEN Append(nodeBufs[<<e, x>>], sendBuf[d][x])
                               ELSE nodeBufs[<<e, x>>]
  <2>1. \A p \in Pair : nodeBufs'[p] = IF p[1] = d /\ p[2] \in DOMAIN sendBuf[d]
                                       THEN Append(nodeBufs[p], sendBuf[d][p[2]])
                                       ELSE nodeBufs[p]
    BY <1>1 DEF Send
  <2> SUFFICES ASSUME NEW e \in Domain, NEW x \in Domain
               PROVE  nodeBufs'[<<e, x>>] = IF e = d /\ x \in Dests(g, d)
                               THEN Append(nodeBufs[<<e, x>>], sendBuf[d][x])
                               ELSE nodeBufs[<<e, x>>]
    OBVIOUS
  <2>2. <<e, x>> \in Pair /\ <<e, x>>[1] = e /\ <<e, x>>[2] = x
    BY DEF Pair
  <2> QED BY <1>12, <2>1, <2>2
<1>14. Shape'
  <2>1. DOMAIN nodeBufs' = Pair
    BY <1>1 DEF Send
  <2> QED BY <1>1, <1>2, <2>1 DEF Shape, Stages
<1>15. Local(g, d)'
  <2>1. RoundAt(g, d)'
    <3>1. NextDests(g, d)' = NextDests(g, d)
      BY <1>1 DEF NextDests
    <3> QED BY <1>1, <1>2, <1>3, <1>9, <3>1 DEF Local, RoundAt
  <2>2. KeysAt(g, d)'
    <3>1. \A n : Here(g, d, n)' <=> Here(g, d, n)
      BY <1>9, <1>10 DEF Here
    <3> QED BY <1>1, <1>2, <1>9, <1>10, <3>1 DEF Local, KeysAt
  <2>3. SendBufAt(g, d)'
    BY <1>1, <1>2, <1>5 DEF SendBufAt, Shape
  <2>4. RecvLenAt(g, d)'
    <3>1. RecvLenAt(g, d)
      BY <1>2 DEF Local
    <3> QED BY <1>1, <1>3, <1>5, <1>8, <1>10, <1>11, <3>1 DEF RecvLenAt
  <2>5. RecvBufAt(g, d)'
    <3>1. recvBuf'[d] = <<>> /\ DOMAIN recvBuf'[d] = {}
      BY <1>1, <1>2, <1>3 DEF Local, RecvBufAt
    <3>2. ~HasReceived(g, d)'
      BY <1>5 DEF HasReceived
    <3> QED BY <1>5, <3>1, <3>2 DEF RecvBufAt
  <2>6. TagMapAt(g, d)'
    BY <1>1, <1>2, <1>3, <1>5 DEF Local, TagMapAt, Covers
  <2> QED BY <2>1, <2>2, <2>3, <2>4, <2>5, <2>6 DEF Local
<1>16. Forward(g)
  BY <1>7, <1>8, <1>9, <1>10 DEF Forward
<1>17. ASSUME NEW e \in Domain, NEW x \in Domain
       PROVE  LengthAt(g, e, x)' /\ BufferAt(g, e, x)' /\ MapAt(g, e, x)'
  <2>1. /\ LengthDue(g, e, x)' <=> LengthDue(g, e, x)
        /\ MapDue(g, e, x)' <=> MapDue(g, e, x)
    BY <1>1, <1>7, <1>8, <1>9, <1>10, <1>11 DEF LengthDue, MapDue
  <2>2. LengthAt(g, e, x)' /\ MapAt(g, e, x)'
    BY <1>1, <1>4, <2>1, LengthStays, MapStays
  <2>3. CASE e = d /\ x \in Dests(g, d)
    <3>1. ~BufferDue(g, d, x)
      BY <1>8 DEF BufferDue
    <3>2. ~HasBuffer(x, d) /\ ~HasReceived(g, x)
      BY <1>4, <1>8, <2>3 DEF InStep
    <3>3. BufferDue(g, d, x)'
      BY <1>8, <1>9, <1>10, <2>3, <3>2 DEF BufferDue
    <3>4. nodeBufs[<<d, x>>] = <<>>
      BY <1>4, <3>1 DEF BufferAt
    <3>5. PICK b : b = sendBuf[d][x]
      OBVIOUS
    <3>6. nodeBufs'[<<d, x>>] = <<b>>
      <4>1. nodeBufs'[<<d, x>>] = Append(<<>>, b)
        BY <1>13, <2>3, <3>4, <3>5
      <4>2. \A y : Append(<<>>, y) = <<y>>
        OBVIOUS
      <4> QED BY <4>1, <4>2
    <3>7. b \in Buf /\ Carries(g, b, d, x)
      BY <1>12, <2>3, <3>5 DEF Carries
    <3>8. Carries(g, b, d, x)'
      BY <3>7 DEF Carries
    <3> QED BY <2>2, <2>3, <3>3, <3>6, <3>7, <3>8 DEF BufferAt
  <2>4. CASE ~(e = d /\ x \in Dests(g, d))
    <3>1. nodeBufs'[<<e, x>>] = nodeBufs[<<e, x>>]
      BY <1>13, <2>4
    <3>2. BufferDue(g, e, x)' <=> BufferDue(g, e, x)
      BY <1>7, <1>9, <1>10, <2>4 DEF BufferDue
    <3> QED BY <1>4, <2>2, <3>1, <3>2, BufferStays
  <2> QED BY <2>3, <2>4
<1>18. ASSUME NEW e \in Domain PROVE InStep(g, e, d)'
  <2>1. InStep(g, e, d)
    BY <1>4
  <2>2. HasSent(g, e) => HasSent(g, e)'
    BY <1>16 DEF Forward
  <2> QED BY <1>1, <1>9, <1>10, <1>11, <2>1, <2>2 DEF InStep
<1>19. MapsSound(g)' /\ ArmsFit(g)'
  BY <1>1, <1>2, <1>9, <1>16, MapsStaySound, ArmsStay
<1> QED BY <1>1, <1>6, <1>14, <1>15, <1>16, <1>17, <1>18, <1>19, StepKeepsInv

-----------------------------------------------------------------------------
(* The buffer that arrives is the one of the slot's source.                *)
LEMMA RecvMigratorsKeepsInv ==
  ASSUME NEW g \in Move, Inv(g), NEW d \in Domain, NEW k \in DOMAIN recvLen[d],
         RecvMigrators(d, k)
  PROVE  Inv(g)'
<1> DEFINE s == recvLen[d][k].from
<1>1. /\ pc[d] = "nodes" /\ k \notin DOMAIN recvBuf[d] /\ nodeBufs[<<s, d>>] # <<>>
      /\ recvBuf' = [recvBuf EXCEPT ![d] = Put(@, k, Head(nodeBufs[<<s, d>>]))]
      /\ nodeBufs' = [nodeBufs EXCEPT ![<<s, d>>] = Tail(@)]
      /\ schedule' = schedule /\ nodeKeys' = nodeKeys /\ arms' = arms
      /\ round' = round /\ pc' = pc /\ commLists' = commLists
      /\ sendBuf' = sendBuf /\ lengths' = lengths /\ maps' = maps
      /\ recvLen' = recvLen /\ tagMap' = tagMap /\ mapsFrom' = mapsFrom
  BY DEF RecvMigrators, Arrived, First, Receive, SourceOfSlot, keyVars, mapVars
<1>2. Shape /\ Local(g, d) /\ MapsSound(g) /\ ArmsFit(g)
  BY DEF Inv
<1>3. Stage(g, d) = "nodes"
  BY <1>1, StageFacts
<1>4. \A e, x \in Domain : LengthAt(g, e, x) /\ BufferAt(g, e, x) /\ MapAt(g, e, x)
                           /\ InStep(g, e, x)
  BY DEF Inv, Between
<1>5. /\ RecvLenAt(g, d) /\ RecvBufAt(g, d)
      /\ \A j \in DOMAIN recvLen[d] : recvLen[d][j].from \in Domain
  <2>1. RecvLenAt(g, d) /\ RecvBufAt(g, d)
    BY <1>2 DEF Local
  <2>2. recvLen[d] \in Seq(Receipt)
    BY <1>3, <2>1 DEF RecvLenAt
  <2>3. \A j \in DOMAIN recvLen[d] : recvLen[d][j] \in Receipt
    BY <2>2
  <2> QED BY <2>1, <2>3 DEF Receipt
<1>6. PICK r \in Domain : r = s
  BY <1>5
<1>7. BufferDue(g, r, d)
  BY <1>1, <1>4, <1>6 DEF BufferAt
<1>8. PICK b \in Buf : nodeBufs[<<r, d>>] = <<b>> /\ Carries(g, b, r, d)
  BY <1>4, <1>7 DEF BufferAt
<1>9. /\ recvBuf'[d] = Put(recvBuf[d], k, b) /\ nodeBufs'[<<r, d>>] = <<>>
      /\ \A e, x \in Domain : e # r \/ x # d => nodeBufs'[<<e, x>>] = nodeBufs[<<e, x>>]
  <2>1. Head(nodeBufs[<<r, d>>]) = b /\ Tail(nodeBufs[<<r, d>>]) = <<>>
    BY <1>8
  <2>2. recvBuf'[d] = Put(recvBuf[d], k, b)
    BY <1>1, <1>2, <1>6, <2>1 DEF Shape
  <2>3. \A e, x \in Domain : <<e, x>> \in Pair /\ (e # r \/ x # d => <<e, x>> # <<r, d>>)
    BY DEF Pair
  <2> QED BY <1>1, <1>2, <1>6, <2>1, <2>2, <2>3 DEF Shape
<1>10. \A e \in Domain \ {d} : SameAt(e)
  BY <1>1, <1>2 DEF Shape, SameAt
<1>11. \A e : /\ Stage(g, e)' = Stage(g, e)
              /\ HasPacked(g, e)' <=> HasPacked(g, e)
              /\ HasSent(g, e)' <=> HasSent(g, e)
              /\ HasReceived(g, e)' <=> HasReceived(g, e)
              /\ HasUnpacked(g, e)' <=> HasUnpacked(g, e)
              /\ IsDone(g, e)' <=> IsDone(g, e)
              /\ \A x : HasLength(e, x)' <=> HasLength(e, x)
              /\ \A i, n : Has(e, i, n)' <=> Has(e, i, n)
  BY <1>1 DEF Stage, HasPacked, HasSent, HasReceived, HasUnpacked, IsDone,
              HasLength, Has
<1>12. \A x \in Domain \ {d} : \A e : HasBuffer(x, e)' <=> HasBuffer(x, e)
  BY <1>10, StageStays
<1>13. /\ DOMAIN recvBuf'[d] = DOMAIN recvBuf[d] \cup {k} /\ recvBuf'[d][k] = b
       /\ \A j \in DOMAIN recvBuf[d] : recvBuf'[d][j] = recvBuf[d][j]
  BY <1>1, <1>9 DEF Put
<1>14. \A x : HasBuffer(d, x)' <=> HasBuffer(d, x) \/ x = r
  BY <1>1, <1>6, <1>13 DEF HasBuffer
<1>15. Shape'
  BY <1>1, <1>2 DEF Shape
<1>16. ~HasReceived(g, d) /\ ~HasReceived(g, d)'
  BY <1>3, <1>11 DEF HasReceived
<1>17. Local(g, d)'
  <2>1. RoundAt(g, d)'
    <3>1. NextDests(g, d)' = NextDests(g, d)
      BY <1>1 DEF NextDests
    <3> QED BY <1>1, <1>2, <1>11, <3>1 DEF Local, RoundAt
  <2>2. KeysAt(g, d)'
    <3>1. \A n : Here(g, d, n)' <=> Here(g, d, n)
      BY <1>11, <1>16 DEF Here
    <3> QED BY <1>1, <1>2, <1>11, <3>1 DEF Local, KeysAt
  <2>3. SendBufAt(g, d)'
    BY <1>1, <1>2, <1>11 DEF Local, SendBufAt, Carries
  <2>4. RecvLenAt(g, d)'
    BY <1>1, <1>5, <1>11 DEF RecvLenAt
  <2>5. RecvBufAt(g, d)'
    <3>1. /\ DOMAIN recvBuf[d] \subseteq DOMAIN recvLen[d]
          /\ \A j \in DOMAIN recvBuf[d] :
              /\ recvBuf[d][j] \in Buf /\ recvBuf[d][j].round = g.round
              /\ Lists(g, recvBuf[d][j].nodes)
              /\ NodesIn(recvBuf[d][j].nodes) = Leaving(g, recvLen[d][j].from, d)
      BY <1>3, <1>5, <1>16 DEF RecvBufAt
    <3>2. /\ b \in Buf /\ b.round = g.round /\ Lists(g, b.nodes)
          /\ NodesIn(b.nodes) = Leaving(g, recvLen[d][k].from, d)
      BY <1>6, <1>8 DEF Carries
    <3>3. \A j \in DOMAIN recvBuf'[d] :
              /\ recvBuf'[d][j] \in Buf /\ recvBuf'[d][j].round = g.round
              /\ Lists(g, recvBuf'[d][j].nodes)
              /\ NodesIn(recvBuf'[d][j].nodes) = Leaving(g, recvLen[d][j].from, d)
      BY <1>13, <3>1, <3>2
    <3>4. DOMAIN recvBuf'[d] \subseteq DOMAIN recvLen[d]
      BY <1>13, <3>1
    <3>5. recvLen'[d] = recvLen[d] /\ Stage(g, d)' = "nodes"
      BY <1>1, <1>3, <1>11
    <3> QED BY <1>16, <3>3, <3>4, <3>5 DEF RecvBufAt
  <2>6. TagMapAt(g, d)'
    BY <1>1, <1>2, <1>3, <1>11 DEF Local, TagMapAt, Covers
  <2> QED BY <2>1, <2>2, <2>3, <2>4, <2>5, <2>6 DEF Local
<1>18. Forward(g)
  BY <1>11 DEF Forward
<1>19. ASSUME NEW e \in Domain, NEW x \in Domain
       PROVE  LengthAt(g, e, x)' /\ BufferAt(g, e, x)' /\ MapAt(g, e, x)'
  <2>1. /\ LengthDue(g, e, x)' <=> LengthDue(g, e, x)
        /\ MapDue(g, e, x)' <=> MapDue(g, e, x)
    BY <1>1, <1>11 DEF LengthDue, MapDue
  <2>2. LengthAt(g, e, x)' /\ MapAt(g, e, x)'
    BY <1>1, <1>4, <2>1, LengthStays, MapStays
  <2>3. CASE e = r /\ x = d
    <3>1. ~BufferDue(g, r, d)'
      BY <1>14 DEF BufferDue
    <3> QED BY <1>9, <2>2, <2>3, <3>1 DEF BufferAt
  <2>4. CASE e # r \/ x # d
    <3>1. BufferDue(g, e, x)' <=> BufferDue(g, e, x)
      BY <1>11, <1>12, <1>14, <2>4 DEF BufferDue
    <3> QED BY <1>4, <1>9, <2>2, <2>4, <3>1, BufferStays
  <2> QED BY <2>3, <2>4
<1>20. ASSUME NEW e \in Domain PROVE InStep(g, e, d)'
  <2>1. InStep(g, e, d)
    BY <1>4
  <2>2. HasSent(g, r)
    BY <1>7 DEF BufferDue
  <2> QED BY <1>1, <1>11, <1>14, <2>1, <2>2 DEF InStep
<1>21. MapsSound(g)' /\ ArmsFit(g)'
  BY <1>1, <1>2, <1>11, <1>18, MapsStaySound, ArmsStay
<1> QED BY <1>1, <1>10, <1>15, <1>17, <1>18, <1>19, <1>20, <1>21, StepKeepsInv

(* A node whose domain has all its buffers is there or in one of them.     *)
LEMMA WaitMigratorsKeepsInv ==
  ASSUME NEW g \in Move, Inv(g), NEW d \in Domain, WaitMigrators(d)
  PROVE  Inv(g)'
<1>1. /\ pc[d] = "nodes" /\ DOMAIN recvBuf[d] = DOMAIN recvLen[d]
      /\ pc' = [pc EXCEPT ![d] = "unpack"]
      /\ schedule' = schedule /\ nodeKeys' = nodeKeys /\ arms' = arms
      /\ round' = round /\ commLists' = commLists /\ sendBuf' = sendBuf
      /\ lengths' = lengths /\ nodeBufs' = nodeBufs /\ maps' = maps
      /\ recvLen' = recvLen /\ recvBuf' = recvBuf
      /\ tagMap' = tagMap /\ mapsFrom' = mapsFrom
  BY DEF WaitMigrators, keyVars, msgVars, recvVars, mapVars
<1>2. Shape /\ Local(g, d) /\ MapsSound(g) /\ ArmsFit(g)
  BY DEF Inv
<1>3. Stage(g, d) = "nodes" /\ round[d] = g.round
  BY <1>1, StageFacts
<1>4. \A e, x \in Domain : LengthAt(g, e, x) /\ BufferAt(g, e, x) /\ MapAt(g, e, x)
                           /\ InStep(g, e, x)
  BY DEF Inv, Between
<1>5. Stage(g, d)' = "unpack" /\ pc'[d] = "unpack"
  BY <1>1, <1>2, <1>3 DEF Shape, Stage
<1>6. \A e \in Domain \ {d} : SameAt(e)
  BY <1>1, <1>2 DEF Shape, SameAt
<1>7. \A e \in Domain \ {d} : HasReceived(g, e)' <=> HasReceived(g, e)
  BY <1>6, StageStays
<1>8. HasReceived(g, d)' /\ ~HasReceived(g, d)
  BY <1>3, <1>5 DEF HasReceived
<1>9. \A e \in Domain : /\ HasPacked(g, e)' <=> HasPacked(g, e)
                        /\ HasSent(g, e)' <=> HasSent(g, e)
                        /\ HasUnpacked(g, e)' <=> HasUnpacked(g, e)
                        /\ IsDone(g, e)' <=> IsDone(g, e)
  <2>1. ASSUME NEW e \in Domain, e # d
        PROVE  /\ HasPacked(g, e)' <=> HasPacked(g, e)
               /\ HasSent(g, e)' <=> HasSent(g, e)
               /\ HasUnpacked(g, e)' <=> HasUnpacked(g, e)
               /\ IsDone(g, e)' <=> IsDone(g, e)
    BY <1>6, <2>1, StageStays
  <2>2. /\ HasPacked(g, d)' <=> HasPacked(g, d)
        /\ HasSent(g, d)' <=> HasSent(g, d)
        /\ HasUnpacked(g, d)' <=> HasUnpacked(g, d)
        /\ IsDone(g, d)' <=> IsDone(g, d)
    BY <1>3, <1>5 DEF HasPacked, HasSent, HasUnpacked, IsDone
  <2> QED BY <2>1, <2>2
<1>10. /\ \A e, x : /\ HasLength(e, x)' <=> HasLength(e, x)
                    /\ HasBuffer(e, x)' <=> HasBuffer(e, x)
                    /\ Pending(e, x)' <=> Pending(e, x)
       /\ \A e, i, n : Has(e, i, n)' <=> Has(e, i, n)
  BY <1>1 DEF HasLength, HasBuffer, Pending, NodesIn, Has
<1>11. /\ RecvLenAt(g, d) /\ RecvBufAt(g, d)
       /\ \A e \in Domain : d \in Dests(g, e) => HasLength(d, e)
       /\ \A k \in DOMAIN recvLen[d] :
            /\ recvLen[d][k].from \in Domain /\ d \in Dests(g, recvLen[d][k].from)
            /\ NodesIn(recvBuf[d][k].nodes) = Leaving(g, recvLen[d][k].from, d)
  <2>1. RecvLenAt(g, d) /\ RecvBufAt(g, d)
    BY <1>2 DEF Local
  <2>2. HasSent(g, d) /\ ~HasReceived(g, d)
    BY <1>3 DEF HasSent, HasReceived
  <2>3. /\ recvLen[d] \in Seq(Receipt)
        /\ \A e \in Domain : d \in Dests(g, e) => HasLength(d, e)
        /\ \A k \in DOMAIN recvLen[d] : d \in Dests(g, recvLen[d][k].from)
    BY <1>3, <2>1, <2>2 DEF RecvLenAt
  <2>4. \A k \in DOMAIN recvLen[d] : recvLen[d][k] \in Receipt
    BY <2>3
  <2>5. \A k \in DOMAIN recvLen[d] :
          NodesIn(recvBuf[d][k].nodes) = Leaving(g, recvLen[d][k].from, d)
    BY <1>1, <1>3, <2>1, <2>2 DEF RecvBufAt
  <2> QED BY <2>1, <2>3, <2>4, <2>5 DEF Receipt
<1>12. \A e \in Domain : d \in Dests(g, e) => HasBuffer(d, e)
  BY <1>1, <1>11 DEF HasLength, HasBuffer
<1>13. \A n \in Node : g.to[n] = d => (Pending(d, n) <=> g.from[n] # d)
  <2> SUFFICES ASSUME NEW n \in Node, g.to[n] = d
               PROVE  Pending(d, n) <=> g.from[n] # d
    OBVIOUS
  <2>1. ASSUME Pending(d, n) PROVE g.from[n] # d
    <3>1. PICK k \in DOMAIN recvLen[d] : n \in Leaving(g, recvLen[d][k].from, d)
      BY <1>1, <1>11, <2>1 DEF Pending
    <3>2. g.from[n] = recvLen[d][k].from /\ d \in Dests(g, recvLen[d][k].from)
      BY <1>11, <3>1 DEF Leaving
    <3> QED BY <3>2 DEF Dests
  <2>2. ASSUME g.from[n] # d PROVE Pending(d, n)
    <3>1. PICK e \in Domain : e = g.from[n]
      BY MoveFacts
    <3>2. n \in Leaving(g, e, d)
      BY <3>1 DEF Leaving
    <3>3. d \in Dests(g, e)
      BY <2>2, <3>1, <3>2, DestsAre
    <3>4. PICK k \in DOMAIN recvLen[d] : recvLen[d][k].from = e
      BY <1>11, <3>3 DEF HasLength
    <3> QED BY <1>1, <1>11, <3>2, <3>4 DEF Pending
  <2> QED BY <2>1, <2>2
<1>14. Shape'
  BY <1>1, <1>2 DEF Shape, Stages
<1>15. Local(g, d)'
  <2>1. RoundAt(g, d)'
    <3>1. NextDests(g, d)' = NextDests(g, d)
      BY <1>1 DEF NextDests
    <3> QED BY <1>1, <1>2, <1>3, <1>9, <3>1 DEF Local, RoundAt
  <2>2. KeysAt(g, d)'
    <3>1. HasPacked(g, d)
      BY <1>3 DEF HasPacked
    <3>2. \A n \in Node : Here(g, d, n)' <=> Here(g, d, n)
      BY <1>8, <1>10, <1>13, <3>1 DEF Here
    <3> QED BY <1>1, <1>2, <1>9, <1>10, <3>2 DEF Local, KeysAt
  <2>3. SendBufAt(g, d)'
    BY <1>1, <1>2, <1>3, <1>5 DEF Local, SendBufAt
  <2>4. RecvLenAt(g, d)'
    BY <1>1, <1>3, <1>5, <1>9, <1>10, <1>11 DEF RecvLenAt
  <2>5. RecvBufAt(g, d)'
    <3>1. \A k \in DOMAIN recvBuf[d] :
            /\ recvBuf[d][k] \in Buf /\ recvBuf[d][k].round = g.round
            /\ Lists(g, recvBuf[d][k].nodes)
      BY <1>3, <1>11 DEF RecvBufAt
    <3> QED BY <1>1, <1>5, <1>8, <1>11, <3>1 DEF RecvBufAt, Lists
  <2>6. TagMapAt(g, d)'
    <3>1. TagMapAt(g, d)
      BY <1>2 DEF Local
    <3>2. mapsFrom'[d] = {}
      BY <1>1, <1>3, <3>1 DEF TagMapAt
    <3> QED BY <1>1, <1>5, <1>10, <1>13, <3>2 DEF TagMapAt
  <2> QED BY <2>1, <2>2, <2>3, <2>4, <2>5, <2>6 DEF Local
<1>16. Forward(g)
  BY <1>7, <1>8, <1>9, <1>10 DEF Forward
<1>17. ASSUME NEW e \in Domain, NEW x \in Domain
       PROVE  LengthAt(g, e, x)' /\ BufferAt(g, e, x)' /\ MapAt(g, e, x)'
  <2>1. /\ LengthDue(g, e, x)' <=> LengthDue(g, e, x)
        /\ MapDue(g, e, x)' <=> MapDue(g, e, x)
    BY <1>1, <1>9, <1>10 DEF LengthDue, MapDue
  <2>2. BufferDue(g, e, x)' <=> BufferDue(g, e, x)
    BY <1>7, <1>8, <1>9, <1>10, <1>12 DEF BufferDue
  <2> QED BY <1>1, <1>4, <2>1, <2>2, LengthStays, BufferStays, MapStays
<1>18. ASSUME NEW e \in Domain PROVE InStep(g, e, d)'
  <2>1. InStep(g, e, d)
    BY <1>4
  <2> QED BY <1>1, <1>9, <1>10, <1>12, <2>1 DEF InStep
<1>19. MapsSound(g)' /\ ArmsFit(g)'
  BY <1>1, <1>2, <1>9, <1>16, MapsStaySound, ArmsStay
<1> QED BY <1>1, <1>6, <1>14, <1>15, <1>16, <1>17, <1>18, <1>19, StepKeepsInv

-----------------------------------------------------------------------------
(* Unpacking the first node of a buffer leaves the others.                 *)
LEMMA TailLists ==
  ASSUME NEW g, NEW q \in Seq(Item), q # <<>>, Lists(g, q)
  PROVE  /\ q[1] \in Item /\ q[1].node \in NodesIn(q) /\ q[1].old = g.tag[q[1].node]
         /\ Tail(q) \in Seq(Item) /\ Lists(g, Tail(q))
         /\ NodesIn(Tail(q)) = NodesIn(q) \ {q[1].node}
<1>1. /\ DOMAIN q = 1 .. Len(q) /\ Len(q) \in Nat /\ Len(q) >= 1
      /\ Tail(q) \in Seq(Item) /\ DOMAIN Tail(q) = 1 .. Len(q) - 1
      /\ \A k \in 1 .. Len(q) - 1 : Tail(q)[k] = q[k + 1]
      /\ q[1] \in Item
  OBVIOUS
<1> DEFINE p == Tail(q)
<1> HIDE DEF p
<1>2. /\ DOMAIN p = 1 .. Len(q) - 1
      /\ \A k \in 1 .. Len(q) - 1 : p[k] = q[k + 1] /\ k + 1 \in DOMAIN q /\ k + 1 # 1
  BY <1>1 DEF p
<1>3. 1 \in DOMAIN q
  BY <1>1
<1>4. q[1].node \in NodesIn(q) /\ q[1].old = g.tag[q[1].node]
  BY <1>3 DEF NodesIn, Lists
<1>5. Lists(g, p)
  <2> SUFFICES ASSUME NEW j \in DOMAIN p
               PROVE  /\ p[j].old = g.tag[p[j].node]
                      /\ \A k \in DOMAIN p : p[j].node = p[k].node => j = k
    BY DEF Lists
  <2>1. p[j] = q[j + 1] /\ j + 1 \in DOMAIN q /\ j \in Nat
    BY <1>1, <1>2
  <2>2. ASSUME NEW k \in DOMAIN p, p[j].node = p[k].node PROVE j = k
    <3>1. p[k] = q[k + 1] /\ k + 1 \in DOMAIN q /\ k \in Nat
      BY <1>1, <1>2
    <3>2. j + 1 = k + 1
      BY <2>1, <2>2, <3>1 DEF Lists
    <3> QED BY <2>1, <3>1, <3>2
  <2> QED BY <2>1, <2>2 DEF Lists
<1>6. \A n \in NodesIn(p) : n \in NodesIn(q) /\ n # q[1].node
  BY <1>2, <1>3 DEF NodesIn, Lists
<1>7. \A n \in NodesIn(q) : n # q[1].node => n \in NodesIn(p)
  <2> SUFFICES ASSUME NEW n \in NodesIn(q), n # q[1].node PROVE n \in NodesIn(p)
    OBVIOUS
  <2>1. PICK j \in DOMAIN q : q[j].node = n
    BY DEF NodesIn
  <2>2. j - 1 \in 1 .. Len(q) - 1 /\ (j - 1) + 1 = j
    BY <1>1, <2>1
  <2>3. p[j - 1] = q[j] /\ j - 1 \in DOMAIN p
    BY <1>2, <2>2
  <2> QED BY <2>1, <2>3 DEF NodesIn
<1> QED BY <1>1, <1>4, <1>5, <1>6, <1>7 DEF p

(* There is a free index below the number of nodes for a node that is not  *)
(* there yet.                                                              *)
LEMMA IndexForArrival ==
  ASSUME NEW g \in Move, Inv(g), NEW d \in Domain, NEW x \in Node,
         \A i \in Index : ~Has(d, i, x)
  PROVE  FreeIndex(DOMAIN nodeKeys[d]) \in Index \ DOMAIN nodeKeys[d]
<1> DEFINE f == nodeKeys[d]
           used == DOMAIN f
           rest == Node \ {x}
<1>1. /\ f \in Keys /\ \A i, j \in used : f[i] = f[j] => i = j
  BY DEF Inv, Shape, Local, KeysAt
<1>2. used \in SUBSET Index /\ f \in [used -> Node]
  BY <1>1 DEF Keys
<1>3. \A i \in used : f[i] # x
  BY <1>2 DEF Has
<1>4. /\ IsFiniteSet(rest) /\ Cardinality(rest) = Cardinality(Node) - 1
      /\ Cardinality(Node) \in Nat
  BY NodeFacts, FS_RemoveElement
<1> HIDE DEF f, used, rest
<1>5. f \in Injection(used, rest)
  <2>1. f \in [used -> rest]
    BY <1>2, <1>3 DEF rest
  <2> QED BY <1>1, <2>1 DEF Injection, IsInjective
<1>6. IsFiniteSet(used) /\ Cardinality(used) <= Cardinality(rest)
  BY <1>4, <1>5, FS_Injection
<1>7. used \in SUBSET Nat
  BY <1>2, NodeFacts
<1>8. FreeIndex(used) \in 0 .. Cardinality(used) /\ FreeIndex(used) \notin used
  BY <1>6, <1>7, FreeIndexIsFree
<1>9. Cardinality(used) \in Nat
  BY <1>6, FS_CardinalityType
<1> QED BY <1>4, <1>6, <1>8, <1>9 DEF Index, used, f

(* An arriving node gets one tag, and the mapping to it.                   *)
LEMMA UnpackMigratorsKeepsInv ==
  ASSUME NEW g \in Move, Inv(g), NEW d \in Domain, NEW k \in DOMAIN recvLen[d],
         UnpackMigrators(d, k)
  PROVE  Inv(g)'
<1> DEFINE q == recvBuf[d][k].nodes
           s == recvLen[d][k].from
<1>1. /\ pc[d] = "unpack" /\ k \in DOMAIN recvBuf[d] /\ q # <<>>
      /\ nodeKeys' = [nodeKeys EXCEPT ![d] =
                        Put(@, FreeIndex(DOMAIN nodeKeys[d]), q[1].node)]
      /\ tagMap' = [tagMap EXCEPT ![d] = @ \cup
                      {[old |-> <<s, q[1].old[2]>>, new |-> <<d, FreeIndex(DOMAIN nodeKeys[d])>>]}]
      /\ recvBuf' = [recvBuf EXCEPT ![d][k].nodes = Tail(@)]
      /\ schedule' = schedule /\ arms' = arms
      /\ round' = round /\ pc' = pc /\ commLists' = commLists
      /\ sendBuf' = sendBuf /\ lengths' = lengths /\ nodeBufs' = nodeBufs
      /\ maps' = maps /\ recvLen' = recvLen /\ mapsFrom' = mapsFrom
  BY DEF UnpackMigrators, OldTag, SourceOfSlot, msgVars
<1>2. Shape /\ Local(g, d) /\ MapsSound(g) /\ ArmsFit(g)
  BY DEF Inv
<1>3. Stage(g, d) = "unpack"
  BY <1>1, StageFacts
<1>4. \A e, y \in Domain : LengthAt(g, e, y) /\ BufferAt(g, e, y) /\ MapAt(g, e, y)
                           /\ InStep(g, e, y)
  BY DEF Inv, Between
<1>5. /\ DOMAIN recvBuf[d] = DOMAIN recvLen[d]
      /\ \A j \in DOMAIN recvBuf[d] :
           /\ recvBuf[d][j] \in Buf /\ recvBuf[d][j].round = g.round
           /\ Lists(g, recvBuf[d][j].nodes)
           /\ NodesIn(recvBuf[d][j].nodes) \subseteq Leaving(g, recvLen[d][j].from, d)
      /\ d \in Dests(g, s)
      /\ \A j \in DOMAIN recvLen[d] : recvLen[d][j].from = s => j = k
      /\ s \in Domain
  <2>1. RecvLenAt(g, d) /\ RecvBufAt(g, d) /\ HasReceived(g, d)
    BY <1>2, <1>3 DEF Local, HasReceived
  <2>2. recvLen[d] \in Seq(Receipt) /\ recvLen[d][k] \in Receipt
    BY <1>3, <2>1 DEF RecvLenAt
  <2> QED BY <1>3, <2>1, <2>2 DEF RecvLenAt, RecvBufAt, Receipt
<1>6. /\ q \in Seq(Item) /\ Lists(g, q) /\ NodesIn(q) \subseteq Leaving(g, s, d)
      /\ recvBuf[d][k] \in Buf
  BY <1>1, <1>5 DEF Buf
<1>7. /\ q[1].node \in NodesIn(q) /\ q[1].old = g.tag[q[1].node]
      /\ Tail(q) \in Seq(Item) /\ Lists(g, Tail(q))
      /\ NodesIn(Tail(q)) = NodesIn(q) \ {q[1].node}
  <2> HIDE DEF q
  <2> QED BY <1>1, <1>6, TailLists
<1>8. PICK x \in Node : /\ x = q[1].node /\ x \in NodesIn(q)
                        /\ NodesIn(Tail(q)) = NodesIn(q) \ {x}
                        /\ g.from[x] = s /\ g.to[x] = d /\ s # d
                        /\ <<s, q[1].old[2]>> = g.tag[x]
  <2> DEFINE y == q[1].node
  <2>1. y \in Node /\ g.from[y] = s /\ g.to[y] = d /\ s # d
    BY <1>5, <1>6, <1>7 DEF Leaving, Dests
  <2>2. g.tag[y] = <<g.from[y], g.tag[y][2]>>
    BY <2>1, MoveFacts
  <2> QED BY <1>7, <2>1, <2>2
<1> HIDE DEF q
<1>9. Pending(d, x)
  BY <1>1, <1>8 DEF Pending, q
<1>10. \A j \in Index : ~Has(d, j, x)
  <2>1. ~Here(g, d, x)
    BY <1>3, <1>9 DEF Here, HasReceived
  <2> QED BY <1>2, <1>8, <2>1 DEF Local, KeysAt
<1>11. PICK i \in Index \ DOMAIN nodeKeys[d] : i = FreeIndex(DOMAIN nodeKeys[d])
  BY <1>8, <1>10, IndexForArrival
<1>12. /\ nodeKeys'[d] = Put(nodeKeys[d], i, x)
       /\ tagMap'[d] = tagMap[d] \cup {[old |-> g.tag[x], new |-> <<d, i>>]}
       /\ \A e \in Domain \ {d} : nodeKeys'[e] = nodeKeys[e] /\ tagMap'[e] = tagMap[e]
  BY <1>1, <1>2, <1>8, <1>11 DEF Shape
<1>13. /\ DOMAIN nodeKeys'[d] = DOMAIN nodeKeys[d] \cup {i} /\ nodeKeys'[d][i] = x
       /\ \A j \in DOMAIN nodeKeys[d] : nodeKeys'[d][j] = nodeKeys[d][j]
  BY <1>11, <1>12 DEF Put
<1>14. \A j, n : Has(d, j, n)' <=> Has(d, j, n) \/ (j = i /\ n = x)
  BY <1>11, <1>13 DEF Has
<1>15. /\ DOMAIN recvBuf'[d] = DOMAIN recvBuf[d]
       /\ recvBuf'[d][k] \in Buf /\ recvBuf'[d][k].round = recvBuf[d][k].round
       /\ recvBuf'[d][k].nodes = Tail(q)
       /\ \A j \in DOMAIN recvBuf[d] : j # k => recvBuf'[d][j] = recvBuf[d][j]
  <2> DEFINE b == recvBuf[d][k]
  <2>1. b \in Buf /\ b.nodes = q
    BY <1>6 DEF q
  <2>2. recvBuf'[d] = [recvBuf[d] EXCEPT ![k].nodes = Tail(q)]
    BY <1>1, <1>2, <2>1 DEF Shape
  <2>3. recvBuf'[d][k] = [b EXCEPT !.nodes = Tail(q)]
    BY <1>1, <2>2
  <2>4. \A j \in DOMAIN recvBuf[d] : j # k => recvBuf'[d][j] = recvBuf[d][j]
    BY <2>2
  <2>5. DOMAIN recvBuf'[d] = DOMAIN recvBuf[d]
    BY <2>2
  <2> HIDE DEF b
  <2>6. [b EXCEPT !.nodes = Tail(q)] \in Buf
        /\ [b EXCEPT !.nodes = Tail(q)].round = b.round
        /\ [b EXCEPT !.nodes = Tail(q)].nodes = Tail(q)
    <3> DEFINE t == Tail(q)
    <3>1. t \in Seq(Item)
      BY <1>7
    <3> HIDE DEF t
    <3>2. [b EXCEPT !.nodes = t] \in Buf
          /\ [b EXCEPT !.nodes = t].round = b.round
          /\ [b EXCEPT !.nodes = t].nodes = t
      BY <2>1, <3>1 DEF Buf
    <3> QED BY <3>2 DEF t
  <2> QED BY <2>3, <2>4, <2>5, <2>6 DEF b
<1>16. \A n : Pending(d, n)' <=> Pending(d, n) /\ n # x
  <2>1. \A n : Pending(d, n)' =>
          \E j \in DOMAIN recvBuf[d] : n \in NodesIn(recvBuf'[d][j].nodes)
    BY <1>15 DEF Pending
  <2>2. \A j \in DOMAIN recvBuf[d] :
          NodesIn(recvBuf'[d][j].nodes) = NodesIn(recvBuf[d][j].nodes) \ {x}
    <3> SUFFICES ASSUME NEW j \in DOMAIN recvBuf[d]
                 PROVE  NodesIn(recvBuf'[d][j].nodes) = NodesIn(recvBuf[d][j].nodes) \ {x}
      OBVIOUS
    <3>1. CASE j = k
      <4>1. recvBuf'[d][j].nodes = Tail(q) /\ recvBuf[d][j].nodes = q
        BY <1>15, <3>1 DEF q
      <4> QED BY <1>8, <4>1
    <3>2. CASE j # k
      <4>1. recvBuf'[d][j] = recvBuf[d][j]
        BY <1>15, <3>2
      <4>2. x \notin NodesIn(recvBuf[d][j].nodes)
        <5>1. NodesIn(recvBuf[d][j].nodes) \subseteq Leaving(g, recvLen[d][j].from, d)
          BY <1>5
        <5>2. recvLen[d][j].from # s
          BY <1>5, <3>2
        <5> QED BY <1>8, <5>1, <5>2 DEF Leaving
      <4> QED BY <4>1, <4>2
    <3> QED BY <3>1, <3>2
  <2> QED BY <1>15, <2>1, <2>2 DEF Pending
<1>17. \A e \in Domain \ {d} : SameAt(e)
  BY <1>1, <1>2, <1>12 DEF Shape, SameAt
<1>18. \A e : /\ Stage(g, e)' = Stage(g, e)
              /\ HasPacked(g, e)' <=> HasPacked(g, e)
              /\ HasSent(g, e)' <=> HasSent(g, e)
              /\ HasReceived(g, e)' <=> HasReceived(g, e)
              /\ HasUnpacked(g, e)' <=> HasUnpacked(g, e)
              /\ IsDone(g, e)' <=> IsDone(g, e)
              /\ \A y : HasLength(e, y)' <=> HasLength(e, y)
  BY <1>1 DEF Stage, HasPacked, HasSent, HasReceived, HasUnpacked, IsDone, HasLength
<1>19. \A y \in Domain : \A e : HasBuffer(y, e)' <=> HasBuffer(y, e)
  <2>1. \A e : HasBuffer(d, e)' <=> HasBuffer(d, e)
    BY <1>1, <1>15 DEF HasBuffer
  <2> QED BY <1>17, <2>1, StageStays
<1>20. Shape'
  <2>1. nodeKeys'[d] \in Keys
    <3>1. nodeKeys[d] \in Keys
      BY <1>2 DEF Shape
    <3>2. DOMAIN nodeKeys[d] \in SUBSET Index /\ nodeKeys[d] \in [DOMAIN nodeKeys[d] -> Node]
      BY <3>1 DEF Keys
    <3>3. nodeKeys'[d] \in [DOMAIN nodeKeys[d] \cup {i} -> Node]
      BY <1>8, <1>12, <3>2 DEF Put
    <3>4. DOMAIN nodeKeys[d] \cup {i} \in SUBSET Index
      BY <1>11, <3>2
    <3> QED BY <3>3, <3>4 DEF Keys
  <2>2. nodeKeys' \in [Domain -> Keys]
    BY <1>1, <1>2, <1>12, <2>1 DEF Shape
  <2> QED BY <1>1, <1>2, <2>2 DEF Shape
<1>21. HasReceived(g, d) /\ HasReceived(g, d)'
  BY <1>3, <1>18 DEF HasReceived
<1>22. Local(g, d)'
  <2>1. RoundAt(g, d)'
    <3>1. NextDests(g, d)' = NextDests(g, d)
      BY <1>1 DEF NextDests
    <3> QED BY <1>1, <1>2, <1>18, <3>1 DEF Local, RoundAt
  <2>2. KeysAt(g, d)'
    <3>1. KeysAt(g, d)
      BY <1>2 DEF Local
    <3>2. \A n \in Node : Here(g, d, n)' <=> Here(g, d, n) \/ n = x
      BY <1>8, <1>16, <1>21 DEF Here
    <3>3. \A n \in Node : Here(g, d, n)' <=> \E j \in Index : Has(d, j, n)'
      BY <1>11, <1>14, <3>1, <3>2 DEF KeysAt
    <3>4. \A j \in DOMAIN nodeKeys[d] : nodeKeys[d][j] # x
      <4>1. DOMAIN nodeKeys[d] \subseteq Index
        BY <1>2 DEF Shape, Keys
      <4> QED BY <1>10, <4>1 DEF Has
    <3>5. \A j, l \in DOMAIN nodeKeys'[d] : nodeKeys'[d][j] = nodeKeys'[d][l] => j = l
      BY <1>13, <3>1, <3>4 DEF KeysAt
    <3>6. \A n \in Node : g.from[n] = d /\ (HasPacked(g, d) => g.to[n] = d)'
                            => Has(d, g.tag[n][2], n)'
      BY <1>14, <1>18, <3>1 DEF KeysAt
    <3> QED BY <1>18, <3>3, <3>5, <3>6 DEF KeysAt
  <2>3. SendBufAt(g, d)'
    BY <1>1, <1>2, <1>3, <1>18 DEF Local, SendBufAt
  <2>4. RecvLenAt(g, d)'
    BY <1>1, <1>2, <1>18 DEF Local, RecvLenAt
  <2>5. RecvBufAt(g, d)'
    <3>1. ASSUME NEW j \in DOMAIN recvBuf'[d]
          PROVE  /\ recvBuf'[d][j] \in Buf /\ recvBuf'[d][j].round = g.round
                 /\ Lists(g, recvBuf'[d][j].nodes)
                 /\ NodesIn(recvBuf'[d][j].nodes) \subseteq Leaving(g, recvLen[d][j].from, d)
      <4>1. CASE j = k
        BY <1>1, <1>5, <1>6, <1>7, <1>15, <4>1
      <4>2. CASE j # k
        BY <1>5, <1>15, <4>2
      <4> QED BY <4>1, <4>2
    <3>2. recvLen'[d] = recvLen[d] /\ Stage(g, d)' = "unpack"
      BY <1>1, <1>3, <1>18
    <3> QED BY <1>5, <1>15, <1>21, <3>1, <3>2 DEF RecvBufAt
  <2>6. TagMapAt(g, d)'
    <3>1. TagMapAt(g, d)
      BY <1>2 DEF Local
    <3>2. mapsFrom'[d] = {} /\ mapsFrom[d] = {}
      BY <1>1, <1>3, <3>1 DEF TagMapAt
    <3>3. ASSUME NEW n \in Node, g.to[n] = d, g.from[n] # d, ~Pending(d, n)'
          PROVE  \E p \in tagMap'[d] : p.old = g.tag[n]
      <4>1. CASE n = x
        <5>1. [old |-> g.tag[x], new |-> <<d, i>>] \in tagMap'[d]
          BY <1>12
        <5> QED BY <4>1, <5>1
      <4>2. CASE n # x
        <5>1. ~Pending(d, n)
          BY <1>16, <3>3, <4>2
        <5>2. \E p \in tagMap[d] : p.old = g.tag[n]
          BY <1>3, <3>1, <3>3, <5>1 DEF TagMapAt
        <5> QED BY <1>12, <5>2
      <4> QED BY <4>1, <4>2
    <3> QED BY <1>3, <1>18, <3>2, <3>3 DEF TagMapAt
  <2> QED BY <2>1, <2>2, <2>3, <2>4, <2>5, <2>6 DEF Local
<1>23. Forward(g)
  <2>1. \A e \in Domain : \A j, n : Has(e, j, n) => Has(e, j, n)'
    <3>1. \A e \in Domain \ {d} : \A j, n : Has(e, j, n) => Has(e, j, n)'
      BY <1>17, StageStays
    <3> QED BY <1>14, <3>1
  <2> QED BY <1>18, <2>1 DEF Forward
<1>24. ASSUME NEW e \in Domain, NEW y \in Domain
       PROVE  LengthAt(g, e, y)' /\ BufferAt(g, e, y)' /\ MapAt(g, e, y)'
  <2>1. /\ LengthDue(g, e, y)' <=> LengthDue(g, e, y)
        /\ BufferDue(g, e, y)' <=> BufferDue(g, e, y)
        /\ MapDue(g, e, y)' <=> MapDue(g, e, y)
    BY <1>1, <1>18, <1>19 DEF LengthDue, BufferDue, MapDue
  <2> QED BY <1>1, <1>4, <2>1, LengthStays, BufferStays, MapStays
<1>25. ASSUME NEW e \in Domain PROVE InStep(g, e, d)'
  <2>1. InStep(g, e, d)
    BY <1>4
  <2> QED BY <1>1, <1>18, <1>19, <2>1 DEF InStep
<1>26. MapsSound(g)'
  <2>1. \A n \in Node : \A t : Settled(g, n, t) => Settled(g, n, t)'
    BY <1>23, SettledStays
  <2>2. Settled(g, x, <<d, i>>)'
    <3>1. <<d, i>> \in Tag
      BY <1>11 DEF Tag, Index
    <3>2. Has(d, i, x)'
      BY <1>14
    <3> QED BY <1>8, <1>21, <3>1, <3>2 DEF Settled
  <2>3. \A e \in Domain : Sound(g, tagMap[e])
    BY <1>2 DEF MapsSound
  <2>4. Sound(g, tagMap[d])'
    <3> SUFFICES ASSUME NEW p \in tagMap'[d]
                 PROVE  /\ p \in [old : Tag, new : Tag]
                        /\ \E n \in Node : /\ g.from[n] # g.to[n]
                                           /\ p.old = g.tag[n] /\ Settled(g, n, p.new)'
      BY DEF Sound
    <3>1. CASE p \in tagMap[d]
      BY <2>1, <2>3, <3>1 DEF Sound
    <3>2. CASE p = [old |-> g.tag[x], new |-> <<d, i>>]
      <4>1. g.tag[x] \in Tag /\ <<d, i>> \in Tag
        BY <1>8, <1>11, MoveFacts DEF Tag, Index
      <4>2. p.old = g.tag[x] /\ p.new = <<d, i>> /\ p \in [old : Tag, new : Tag]
        BY <3>2, <4>1
      <4>3. Settled(g, x, p.new)'
        BY <2>2, <4>2
      <4> QED BY <1>8, <4>2, <4>3
    <3> QED BY <1>12, <3>1, <3>2
  <2>5. \A e \in Domain \ {d} : Sound(g, tagMap[e])'
    BY <1>12, <2>1, <2>3 DEF Sound
  <2>6. \A p \in Pair : \A j \in DOMAIN maps[p] : Sound(g, maps[p][j].pairs)'
    BY <1>1, <1>2, <2>1 DEF MapsSound, Sound
  <2> QED BY <1>1, <2>4, <2>5, <2>6 DEF MapsSound
<1>27. ArmsFit(g)'
  BY <1>1, <1>2, <1>18, <1>23, ArmsStay
<1> QED BY <1>1, <1>17, <1>20, <1>22, <1>23, <1>24, <1>25, <1>26, <1>27, StepKeepsInv

-----------------------------------------------------------------------------
(* A domain that has unpacked everything sends what it knows.              *)
LEMMA SendTagMapKeepsInv ==
  ASSUME NEW g \in Move, Inv(g), NEW d \in Domain, SendTagMap(d)
  PROVE  Inv(g)'
<1>1. /\ pc[d] = "unpack" /\ \A k \in DOMAIN recvBuf[d] : recvBuf[d][k].nodes = <<>>
      /\ maps' = Send(maps, d, [e \in RemoteDomains(d) |->
                                  [pairs |-> tagMap[d], round |-> round[d]]])
      /\ recvLen' = [recvLen EXCEPT ![d] = <<>>]
      /\ recvBuf' = [recvBuf EXCEPT ![d] = <<>>]
      /\ pc' = [pc EXCEPT ![d] = "maps"]
      /\ schedule' = schedule /\ nodeKeys' = nodeKeys /\ arms' = arms
      /\ round' = round /\ commLists' = commLists /\ sendBuf' = sendBuf
      /\ lengths' = lengths /\ nodeBufs' = nodeBufs
      /\ tagMap' = tagMap /\ mapsFrom' = mapsFrom
  BY DEF SendTagMap, MapDests, keyVars, mapVars
<1>2. Shape /\ Local(g, d) /\ MapsSound(g) /\ ArmsFit(g)
  BY DEF Inv
<1>3. Stage(g, d) = "unpack" /\ round[d] = g.round
  BY <1>1, StageFacts
<1>4. \A e, x \in Domain : LengthAt(g, e, x) /\ BufferAt(g, e, x) /\ MapAt(g, e, x)
                           /\ InStep(g, e, x)
  BY DEF Inv, Between
<1>5. Stage(g, d)' = "maps" /\ pc'[d] = "maps"
  BY <1>1, <1>2, <1>3 DEF Shape, Stage
<1>6. \A e \in Domain \ {d} : SameAt(e)
  BY <1>1, <1>2 DEF Shape, SameAt
<1>7. /\ \A e \in Domain \ {d} : HasUnpacked(g, e)' <=> HasUnpacked(g, e)
      /\ \A x \in Domain \ {d} : \A e : /\ HasLength(x, e)' <=> HasLength(x, e)
                                        /\ HasBuffer(x, e)' <=> HasBuffer(x, e)
  BY <1>6, StageStays
<1>8. /\ HasSent(g, d) /\ HasSent(g, d)' /\ HasReceived(g, d) /\ HasReceived(g, d)'
      /\ HasUnpacked(g, d)' /\ ~HasUnpacked(g, d)
  BY <1>3, <1>5 DEF HasSent, HasReceived, HasUnpacked
<1>9. \A e \in Domain : /\ HasPacked(g, e)' <=> HasPacked(g, e)
                        /\ HasSent(g, e)' <=> HasSent(g, e)
                        /\ HasReceived(g, e)' <=> HasReceived(g, e)
                        /\ IsDone(g, e)' <=> IsDone(g, e)
  <2>1. ASSUME NEW e \in Domain, e # d
        PROVE  /\ HasPacked(g, e)' <=> HasPacked(g, e)
               /\ HasSent(g, e)' <=> HasSent(g, e)
               /\ HasReceived(g, e)' <=> HasReceived(g, e)
               /\ IsDone(g, e)' <=> IsDone(g, e)
    BY <1>6, <2>1, StageStays
  <2>2. /\ HasPacked(g, d)' <=> HasPacked(g, d)
        /\ IsDone(g, d)' <=> IsDone(g, d)
    BY <1>3, <1>5 DEF HasPacked, IsDone
  <2> QED BY <1>8, <2>1, <2>2
<1>10. \A n : ~Pending(d, n) /\ ~Pending(d, n)'
  <2>1. recvBuf'[d] = <<>>
    BY <1>1, <1>2 DEF Shape
  <2> QED BY <1>1, <2>1 DEF Pending, NodesIn
<1>11. \A e, i, n : Has(e, i, n)' <=> Has(e, i, n)
  BY <1>1 DEF Has
<1>12. \A e, x \in Domain :
         maps'[<<e, x>>] = IF e = d /\ x \in RemoteDomains(d)
           THEN Append(maps[<<e, x>>], [pairs |-> tagMap[d], round |-> round[d]])
           ELSE maps[<<e, x>>]
  <2> DEFINE m == [pairs |-> tagMap[d], round |-> round[d]]
             msgs == [e \in RemoteDomains(d) |-> m]
  <2>1. \A p \in Pair : maps'[p] = IF p[1] = d /\ p[2] \in DOMAIN msgs
                                   THEN Append(maps[p], msgs[p[2]]) ELSE maps[p]
    BY <1>1 DEF Send
  <2>2. DOMAIN msgs = RemoteDomains(d) /\ \A x \in RemoteDomains(d) : msgs[x] = m
    OBVIOUS
  <2> HIDE DEF m, msgs
  <2>3. \A e, x \in Domain : maps'[<<e, x>>] = IF e = d /\ x \in RemoteDomains(d)
                                 THEN Append(maps[<<e, x>>], m) ELSE maps[<<e, x>>]
    <3> SUFFICES ASSUME NEW e \in Domain, NEW x \in Domain
                 PROVE  maps'[<<e, x>>] = IF e = d /\ x \in RemoteDomains(d)
                                 THEN Append(maps[<<e, x>>], m) ELSE maps[<<e, x>>]
      OBVIOUS
    <3>1. <<e, x>> \in Pair /\ <<e, x>>[1] = e /\ <<e, x>>[2] = x
      BY DEF Pair
    <3> QED BY <2>1, <2>2, <3>1
  <2> QED BY <2>3 DEF m
<1>13. Shape'
  <2>1. DOMAIN maps' = Pair
    BY <1>1 DEF Send
  <2> QED BY <1>1, <1>2, <2>1 DEF Shape, Stages
<1>14. TagMapAt(g, d)
  BY <1>2 DEF Local
<1>15. PICK map : map = tagMap[d]
  OBVIOUS
<1>16. Covers(g, map, d) /\ Sound(g, map)
  BY <1>2, <1>3, <1>10, <1>14, <1>15 DEF TagMapAt, Covers, MapsSound
<1>17. Local(g, d)'
  <2>1. RoundAt(g, d)'
    <3>1. NextDests(g, d)' = NextDests(g, d)
      BY <1>1 DEF NextDests
    <3> QED BY <1>1, <1>2, <1>3, <1>9, <3>1 DEF Local, RoundAt
  <2>2. KeysAt(g, d)'
    <3>1. \A n : Here(g, d, n)' <=> Here(g, d, n)
      BY <1>9, <1>10 DEF Here
    <3> QED BY <1>1, <1>2, <1>9, <1>11, <3>1 DEF Local, KeysAt
  <2>3. SendBufAt(g, d)'
    BY <1>1, <1>2, <1>3, <1>5 DEF Local, SendBufAt
  <2>4. RecvLenAt(g, d)' /\ RecvBufAt(g, d)'
    <3>1. recvLen'[d] = <<>> /\ recvBuf'[d] = <<>>
      BY <1>1, <1>2 DEF Shape
    <3> QED BY <1>5, <3>1 DEF RecvLenAt, RecvBufAt
  <2>5. TagMapAt(g, d)'
    <3>1. mapsFrom'[d] = {} /\ tagMap'[d] = tagMap[d]
      BY <1>1, <1>3, <1>14 DEF TagMapAt
    <3>2. \A n \in Node : g.to[n] = d /\ g.from[n] # d => \E p \in tagMap[d] : p.old = g.tag[n]
      BY <1>15, <1>16 DEF Covers
    <3> QED BY <1>5, <3>1, <3>2 DEF TagMapAt
  <2> QED BY <2>1, <2>2, <2>3, <2>4, <2>5 DEF Local
<1>18. Forward(g)
  BY <1>7, <1>8, <1>9, <1>11 DEF Forward
<1>19. ASSUME NEW e \in Domain, NEW x \in Domain
       PROVE  LengthAt(g, e, x)' /\ BufferAt(g, e, x)' /\ MapAt(g, e, x)'
  <2>1. /\ LengthDue(g, e, x)' <=> LengthDue(g, e, x)
        /\ BufferDue(g, e, x)' <=> BufferDue(g, e, x)
    BY <1>7, <1>8, <1>9 DEF LengthDue, BufferDue
  <2>2. LengthAt(g, e, x)' /\ BufferAt(g, e, x)'
    BY <1>1, <1>4, <2>1, LengthStays, BufferStays
  <2>3. CASE e = d /\ x \in RemoteDomains(d)
    <3>1. ~MapDue(g, d, x)
      BY <1>8 DEF MapDue
    <3>2. d \in RemoteDomains(x)
      BY <2>3, RemoteIsMutual
    <3>3. ~IsDone(g, x) /\ d \notin mapsFrom[x]
      BY <1>4, <1>8, <3>2 DEF InStep
    <3>4. MapDue(g, d, x)'
      BY <1>1, <1>8, <1>9, <2>3, <3>3 DEF MapDue
    <3>5. maps[<<d, x>>] = <<>>
      BY <1>4, <3>1 DEF MapAt
    <3>6. PICK m : m = [pairs |-> map, round |-> round[d]]
      OBVIOUS
    <3>7. maps'[<<d, x>>] = <<m>>
      <4>1. maps'[<<d, x>>] = Append(<<>>, m)
        BY <1>12, <1>15, <2>3, <3>5, <3>6
      <4>2. \A y : Append(<<>>, y) = <<y>>
        OBVIOUS
      <4> QED BY <4>1, <4>2
    <3>8. Covers(g, m.pairs, d)
      BY <1>16, <3>6
    <3> QED BY <2>2, <2>3, <3>4, <3>7, <3>8 DEF MapAt
  <2>4. CASE ~(e = d /\ x \in RemoteDomains(d))
    <3>1. maps'[<<e, x>>] = maps[<<e, x>>]
      BY <1>12, <2>4
    <3>2. MapDue(g, e, x)' <=> MapDue(g, e, x)
      BY <1>1, <1>7, <1>9, <2>4 DEF MapDue
    <3> QED BY <1>4, <2>2, <3>1, <3>2, MapStays
  <2> QED BY <2>3, <2>4
<1>20. ASSUME NEW e \in Domain PROVE InStep(g, e, d)'
  <2>1. InStep(g, e, d)
    BY <1>4
  <2>2. HasUnpacked(g, e) => HasUnpacked(g, e)'
    BY <1>18 DEF Forward
  <2> QED BY <1>1, <1>8, <1>9, <2>1, <2>2 DEF InStep
<1>21. MapsSound(g)'
  <2>1. \A n \in Node : \A t : Settled(g, n, t) => Settled(g, n, t)'
    BY <1>18, SettledStays
  <2>2. \A m : Sound(g, m) => \A p \in m :
          /\ p \in [old : Tag, new : Tag]
          /\ \E n \in Node : /\ g.from[n] # g.to[n]
                             /\ p.old = g.tag[n] /\ Settled(g, n, p.new)'
    BY <2>1 DEF Sound
  <2>3. \A e \in Domain : Sound(g, tagMap[e])'
    BY <1>1, <1>2, <2>2 DEF MapsSound, Sound
  <2>4. ASSUME NEW e \in Domain, NEW x \in Domain, NEW k \in DOMAIN maps'[<<e, x>>]
        PROVE  Sound(g, maps[<<e, x>>][k].pairs)'
    <3>1. <<e, x>> \in Pair
      BY DEF Pair
    <3>2. CASE e = d /\ x \in RemoteDomains(d)
      <4>1. maps[<<d, x>>] = <<>>
        BY <1>4, <1>8, <3>2 DEF MapAt, MapDue
      <4>2. PICK m : m = [pairs |-> map, round |-> round[d]]
        OBVIOUS
      <4>3. maps'[<<d, x>>] = Append(<<>>, m)
        BY <1>12, <1>15, <3>2, <4>1, <4>2
      <4>4. \A y : Append(<<>>, y) = <<y>> /\ DOMAIN <<y>> = {1} /\ <<y>>[1] = y
        OBVIOUS
      <4>5. maps'[<<e, x>>][k].pairs = map
        BY <2>4, <3>2, <4>2, <4>3, <4>4
      <4> QED BY <1>16, <2>2, <4>5 DEF Sound
    <3>3. CASE ~(e = d /\ x \in RemoteDomains(d))
      <4>1. maps'[<<e, x>>] = maps[<<e, x>>]
        BY <1>12, <3>3
      <4>2. Sound(g, maps[<<e, x>>][k].pairs)
        BY <1>2, <2>4, <3>1, <4>1 DEF MapsSound
      <4> QED BY <2>2, <4>1, <4>2 DEF Sound
    <3> QED BY <3>2, <3>3
  <2>5. \A p \in Pair : \A k \in DOMAIN maps'[p] : Sound(g, maps[p][k].pairs)'
    BY <2>4 DEF Pair
  <2> QED BY <2>3, <2>5 DEF MapsSound
<1>22. ArmsFit(g)'
  BY <1>1, <1>2, <1>9, <1>18, ArmsStay
<1> QED BY <1>1, <1>6, <1>13, <1>17, <1>18, <1>19, <1>20, <1>21, <1>22, StepKeepsInv

(* A neighbour's map covers the neighbour.                                 *)
LEMMA RecvTagMapKeepsInv ==
  ASSUME NEW g \in Move, Inv(g), NEW d \in Domain, NEW s \in Domain, RecvTagMap(d, s)
  PROVE  Inv(g)'
<1>1. /\ pc[d] = "maps" /\ s \in RemoteDomains(d) \ mapsFrom[d] /\ maps[<<s, d>>] # <<>>
      /\ tagMap' = [tagMap EXCEPT ![d] = @ \cup Head(maps[<<s, d>>]).pairs]
      /\ mapsFrom' = [mapsFrom EXCEPT ![d] = @ \cup {s}]
      /\ maps' = [maps EXCEPT ![<<s, d>>] = Tail(@)]
      /\ schedule' = schedule /\ nodeKeys' = nodeKeys /\ arms' = arms
      /\ round' = round /\ pc' = pc /\ commLists' = commLists
      /\ sendBuf' = sendBuf /\ lengths' = lengths /\ nodeBufs' = nodeBufs
      /\ recvLen' = recvLen /\ recvBuf' = recvBuf
  BY DEF RecvTagMap, Arrived, First, Receive, keyVars, recvVars
<1>2. Shape /\ Local(g, d) /\ MapsSound(g) /\ ArmsFit(g)
  BY DEF Inv
<1>3. Stage(g, d) = "maps"
  BY <1>1, StageFacts
<1>4. \A e, x \in Domain : LengthAt(g, e, x) /\ BufferAt(g, e, x) /\ MapAt(g, e, x)
                           /\ InStep(g, e, x)
  BY DEF Inv, Between
<1>5. <<s, d>> \in Pair
  BY DEF Pair
<1>6. MapDue(g, s, d)
  BY <1>1, <1>4 DEF MapAt
<1>7. PICK m : maps[<<s, d>>] = <<m>> /\ Covers(g, m.pairs, s)
  BY <1>4, <1>6 DEF MapAt
<1>8. Sound(g, m.pairs)
  <2>1. DOMAIN maps[<<s, d>>] = {1} /\ maps[<<s, d>>][1] = m
    BY <1>7
  <2> QED BY <1>2, <1>5, <2>1 DEF MapsSound
<1>9. /\ tagMap'[d] = tagMap[d] \cup m.pairs /\ mapsFrom'[d] = mapsFrom[d] \cup {s}
      /\ maps'[<<s, d>>] = <<>>
      /\ \A e \in Domain \ {d} : tagMap'[e] = tagMap[e] /\ mapsFrom'[e] = mapsFrom[e]
      /\ \A e, x \in Domain : e # s \/ x # d => maps'[<<e, x>>] = maps[<<e, x>>]
  <2>1. Head(maps[<<s, d>>]) = m /\ Tail(maps[<<s, d>>]) = <<>>
    BY <1>7
  <2>2. /\ tagMap'[d] = tagMap[d] \cup m.pairs /\ mapsFrom'[d] = mapsFrom[d] \cup {s}
        /\ \A e \in Domain \ {d} : tagMap'[e] = tagMap[e] /\ mapsFrom'[e] = mapsFrom[e]
    BY <1>1, <1>2, <2>1 DEF Shape
  <2>3. \A e, x \in Domain : <<e, x>> \in Pair /\ (e # s \/ x # d => <<e, x>> # <<s, d>>)
    BY DEF Pair
  <2>4. /\ maps'[<<s, d>>] = <<>>
        /\ \A e, x \in Domain : e # s \/ x # d => maps'[<<e, x>>] = maps[<<e, x>>]
    BY <1>1, <1>2, <1>5, <2>1, <2>3 DEF Shape
  <2> QED BY <2>2, <2>4
<1>10. \A e \in Domain \ {d} : SameAt(e)
  BY <1>1, <1>9 DEF SameAt
<1>11. \A e : /\ Stage(g, e)' = Stage(g, e)
              /\ HasPacked(g, e)' <=> HasPacked(g, e)
              /\ HasSent(g, e)' <=> HasSent(g, e)
              /\ HasReceived(g, e)' <=> HasReceived(g, e)
              /\ HasUnpacked(g, e)' <=> HasUnpacked(g, e)
              /\ IsDone(g, e)' <=> IsDone(g, e)
              /\ \A x : /\ HasLength(e, x)' <=> HasLength(e, x)
                        /\ HasBuffer(e, x)' <=> HasBuffer(e, x)
                        /\ Pending(e, x)' <=> Pending(e, x)
              /\ \A i, n : Has(e, i, n)' <=> Has(e, i, n)
  BY <1>1 DEF Stage, HasPacked, HasSent, HasReceived, HasUnpacked, IsDone,
              HasLength, HasBuffer, Pending, NodesIn, Has
<1>12. Shape'
  BY <1>1, <1>2 DEF Shape
<1>13. Local(g, d)'
  <2>1. RoundAt(g, d)'
    <3>1. NextDests(g, d)' = NextDests(g, d)
      BY <1>1 DEF NextDests
    <3> QED BY <1>1, <1>2, <1>11, <3>1 DEF Local, RoundAt
  <2>2. KeysAt(g, d)'
    <3>1. \A n : Here(g, d, n)' <=> Here(g, d, n)
      BY <1>11 DEF Here
    <3> QED BY <1>1, <1>2, <1>11, <3>1 DEF Local, KeysAt
  <2>3. SendBufAt(g, d)' /\ RecvLenAt(g, d)' /\ RecvBufAt(g, d)'
    BY <1>1, <1>2, <1>3, <1>11 DEF Local, SendBufAt, RecvLenAt, RecvBufAt
  <2>4. TagMapAt(g, d)'
    <3>1. TagMapAt(g, d)
      BY <1>2 DEF Local
    <3>2. \A n \in Node : g.to[n] = d /\ g.from[n] # d /\ ~Pending(d, n)'
                            => \E p \in tagMap'[d] : p.old = g.tag[n]
      BY <1>3, <1>9, <1>11, <3>1 DEF TagMapAt
    <3>3. \A e \in mapsFrom'[d] : Covers(g, tagMap[d], e)'
      BY <1>7, <1>9, <3>1 DEF TagMapAt, Covers
    <3> QED BY <1>1, <1>3, <1>9, <1>11, <3>1, <3>2, <3>3 DEF TagMapAt
  <2> QED BY <2>1, <2>2, <2>3, <2>4 DEF Local
<1>14. Forward(g)
  BY <1>11 DEF Forward
<1>15. ASSUME NEW e \in Domain, NEW x \in Domain
       PROVE  LengthAt(g, e, x)' /\ BufferAt(g, e, x)' /\ MapAt(g, e, x)'
  <2>1. /\ LengthDue(g, e, x)' <=> LengthDue(g, e, x)
        /\ BufferDue(g, e, x)' <=> BufferDue(g, e, x)
    BY <1>11 DEF LengthDue, BufferDue
  <2>2. LengthAt(g, e, x)' /\ BufferAt(g, e, x)'
    BY <1>1, <1>4, <2>1, LengthStays, BufferStays
  <2>3. CASE e = s /\ x = d
    <3>1. ~MapDue(g, s, d)'
      BY <1>9 DEF MapDue
    <3> QED BY <1>9, <2>2, <2>3, <3>1 DEF MapAt
  <2>4. CASE e # s \/ x # d
    <3>1. MapDue(g, e, x)' <=> MapDue(g, e, x)
      BY <1>9, <1>11, <2>4 DEF MapDue
    <3> QED BY <1>4, <1>9, <2>2, <2>4, <3>1, MapStays
  <2> QED BY <2>3, <2>4
<1>16. ASSUME NEW e \in Domain PROVE InStep(g, e, d)'
  <2>1. InStep(g, e, d)
    BY <1>4
  <2>2. HasUnpacked(g, s)
    BY <1>6 DEF MapDue
  <2> QED BY <1>9, <1>11, <2>1, <2>2 DEF InStep
<1>17. MapsSound(g)'
  <2>1. \A n \in Node : \A t : Settled(g, n, t) => Settled(g, n, t)'
    BY <1>14, SettledStays
  <2>2. \A map : Sound(g, map) => \A p \in map :
          /\ p \in [old : Tag, new : Tag]
          /\ \E n \in Node : /\ g.from[n] # g.to[n]
                             /\ p.old = g.tag[n] /\ Settled(g, n, p.new)'
    BY <2>1 DEF Sound
  <2>3. \A e \in Domain : Sound(g, tagMap[e])'
    <3>1. Sound(g, tagMap[d])'
      BY <1>2, <1>8, <1>9, <2>2 DEF MapsSound, Sound
    <3>2. \A e \in Domain \ {d} : Sound(g, tagMap[e])'
      BY <1>2, <1>9, <2>2 DEF MapsSound, Sound
    <3> QED BY <3>1, <3>2
  <2>4. ASSUME NEW e \in Domain, NEW x \in Domain, NEW k \in DOMAIN maps'[<<e, x>>]
        PROVE  Sound(g, maps[<<e, x>>][k].pairs)'
    <3>1. <<e, x>> \in Pair
      BY DEF Pair
    <3>2. ~(e = s /\ x = d)
      BY <1>9, <2>4
    <3>3. maps'[<<e, x>>] = maps[<<e, x>>]
      BY <1>9, <3>2
    <3>4. Sound(g, maps[<<e, x>>][k].pairs)
      BY <1>2, <2>4, <3>1, <3>3 DEF MapsSound
    <3> QED BY <2>2, <3>3, <3>4 DEF Sound
  <2>5. \A p \in Pair : \A k \in DOMAIN maps'[p] : Sound(g, maps[p][k].pairs)'
    BY <2>4 DEF Pair
  <2> QED BY <2>3, <2>5 DEF MapsSound
<1>18. ArmsFit(g)'
  BY <1>1, <1>2, <1>11, <1>14, ArmsStay
<1> QED BY <1>1, <1>10, <1>12, <1>13, <1>14, <1>15, <1>16, <1>17, <1>18, StepKeepsInv

-----------------------------------------------------------------------------
(* The maps of the domain and of its neighbours have the new tag of every  *)
(* node that an arm of the domain leads to, if it moved.                   *)
LEMMA LookupSettles ==
  ASSUME NEW g \in Move, Inv(g), NEW d \in Domain, Stage(g, d) = "maps",
         mapsFrom[d] = RemoteDomains(d),
         NEW n \in Node, g.to[n] = d, NEW m \in Nbrs(n)
  PROVE  Settled(g, m, Lookup(tagMap[d], g.tag[m]))
<1>1. /\ m \in Node /\ g.to[m] \in Domain /\ g.from[m] \in Domain /\ g.tag[m] \in Tag
      /\ g.tag[m][1] = g.from[m] /\ \A l \in Node : g.tag[l] = g.tag[m] => l = m
      /\ g.to[m] = d \/ g.to[m] \in RemoteDomains(d)
  <2>1. /\ schedule \in Schedules /\ g.round + 1 \in 1 .. Len(schedule)
        /\ g.to = schedule[g.round + 1]
    BY MoveFacts
  <2>2. m \in Node /\ (g.to[m] = g.to[n] \/ g.to[m] \in RemoteDomains(g.to[n]))
    BY <2>1, LinksAreShort
  <2> QED BY <2>2, MoveFacts
<1>2. PICK e \in Domain : e = g.to[m]
  BY <1>1
<1>3. e = d \/ e \in mapsFrom[d]
  BY <1>1, <1>2
<1>4. TagMapAt(g, d) /\ RecvBufAt(g, d) /\ Sound(g, tagMap[d]) /\ KeysAt(g, e)
      /\ InStep(g, e, d)
  BY DEF Inv, Local, MapsSound, Between
<1>5. CASE \E p \in tagMap[d] : p.old = g.tag[m]
  <2>1. PICK p \in tagMap[d] : /\ p.old = g.tag[m]
                               /\ Lookup(tagMap[d], g.tag[m]) = p.new
    BY <1>5 DEF Lookup
  <2>2. PICK l \in Node : p.old = g.tag[l] /\ Settled(g, l, p.new)
    BY <1>4 DEF Sound
  <2>3. l = m
    BY <1>1, <2>1, <2>2
  <2> QED BY <2>1, <2>2, <2>3
<1>6. CASE ~\E p \in tagMap[d] : p.old = g.tag[m]
  <2>1. Lookup(tagMap[d], g.tag[m]) = g.tag[m]
    BY <1>6 DEF Lookup
  <2>2. g.from[m] = e
    <3> SUFFICES ASSUME g.from[m] # e PROVE FALSE
      OBVIOUS
    <3>1. CASE e = d
      <4>1. recvBuf[d] = <<>>
        BY <1>4 DEF RecvBufAt
      <4>2. ~Pending(d, m)
        BY <4>1 DEF Pending
      <4> QED BY <1>1, <1>2, <1>4, <1>6, <3>1, <4>2 DEF TagMapAt
    <3>2. CASE e \in mapsFrom[d]
      BY <1>1, <1>2, <1>4, <1>6, <3>2 DEF TagMapAt, Covers
    <3> QED BY <1>3, <3>1, <3>2
  <2>3. HasReceived(g, e)
    <3>1. CASE e = d
      BY <3>1 DEF HasReceived
    <3>2. CASE e \in mapsFrom[d]
      BY <1>4, <3>2 DEF TagMapAt, InStep, HasUnpacked, HasReceived
    <3> QED BY <1>3, <3>1, <3>2
  <2>4. Has(e, g.tag[m][2], m)
    BY <1>1, <1>2, <1>4, <2>2 DEF KeysAt
  <2> QED BY <1>1, <1>2, <2>1, <2>2, <2>3, <2>4 DEF Settled
<1> QED BY <1>5, <1>6

(* Remapped, the arms lead to their nodes.                                 *)
LEMMA RemapKeepsInv ==
  ASSUME NEW g \in Move, Inv(g), NEW d \in Domain, RemapArmTags(d)
  PROVE  Inv(g)'
<1>1. /\ pc[d] = "maps" /\ mapsFrom[d] = RemoteDomains(d)
      /\ arms' = [n \in Node |-> [m \in DOMAIN arms[n] |->
                    IF n \in Native(d) THEN Lookup(tagMap[d], arms[n][m])
                                       ELSE arms[n][m]]]
      /\ tagMap' = [tagMap EXCEPT ![d] = {}]
      /\ mapsFrom' = [mapsFrom EXCEPT ![d] = {}]
      /\ pc' = [pc EXCEPT ![d] = "step"]
      /\ schedule' = schedule /\ nodeKeys' = nodeKeys
      /\ round' = round /\ commLists' = commLists /\ sendBuf' = sendBuf
      /\ lengths' = lengths /\ nodeBufs' = nodeBufs /\ maps' = maps
      /\ recvLen' = recvLen /\ recvBuf' = recvBuf
  BY DEF RemapArmTags, NewArmTag, msgVars, recvVars
<1>2. Shape /\ Local(g, d) /\ MapsSound(g) /\ ArmsFit(g)
  BY DEF Inv
<1>3. Stage(g, d) = "maps" /\ round[d] = g.round
  BY <1>1, StageFacts
<1>4. \A e, x \in Domain : LengthAt(g, e, x) /\ BufferAt(g, e, x) /\ MapAt(g, e, x)
                           /\ InStep(g, e, x)
  BY DEF Inv, Between
<1>5. Stage(g, d)' = "step" /\ pc'[d] = "step"
  BY <1>1, <1>2, <1>3 DEF Shape, Stage
<1>6. \A e \in Domain \ {d} : SameAt(e)
  BY <1>1, <1>2 DEF Shape, SameAt
<1>7. \A e \in Domain \ {d} : IsDone(g, e)' <=> IsDone(g, e)
  BY <1>6, StageStays
<1>8. IsDone(g, d)' /\ ~IsDone(g, d)
  BY <1>3, <1>5 DEF IsDone
<1>9. \A e \in Domain : /\ HasPacked(g, e)' <=> HasPacked(g, e)
                        /\ HasSent(g, e)' <=> HasSent(g, e)
                        /\ HasReceived(g, e)' <=> HasReceived(g, e)
                        /\ HasUnpacked(g, e)' <=> HasUnpacked(g, e)
  <2>1. ASSUME NEW e \in Domain, e # d
        PROVE  /\ HasPacked(g, e)' <=> HasPacked(g, e)
               /\ HasSent(g, e)' <=> HasSent(g, e)
               /\ HasReceived(g, e)' <=> HasReceived(g, e)
               /\ HasUnpacked(g, e)' <=> HasUnpacked(g, e)
    BY <1>6, <2>1, StageStays
  <2>2. /\ HasPacked(g, d)' <=> HasPacked(g, d)
        /\ HasSent(g, d)' <=> HasSent(g, d)
        /\ HasReceived(g, d)' <=> HasReceived(g, d)
        /\ HasUnpacked(g, d)' <=> HasUnpacked(g, d)
    BY <1>3, <1>5 DEF HasPacked, HasSent, HasReceived, HasUnpacked
  <2> QED BY <2>1, <2>2
<1>10. /\ \A e, x : /\ HasLength(e, x)' <=> HasLength(e, x)
                    /\ HasBuffer(e, x)' <=> HasBuffer(e, x)
                    /\ Pending(e, x)' <=> Pending(e, x)
       /\ \A e, i, n : Has(e, i, n)' <=> Has(e, i, n)
  BY <1>1 DEF HasLength, HasBuffer, Pending, NodesIn, Has
<1>11. \A n \in Node : n \in Native(d) <=> g.to[n] = d
  <2>1. KeysAt(g, d) /\ recvBuf[d] = <<>> /\ HasReceived(g, d)
    BY <1>2, <1>3 DEF Local, RecvBufAt, HasReceived
  <2>2. \A n : ~Pending(d, n)
    BY <2>1 DEF Pending
  <2>3. \A n \in Node : g.to[n] = d <=> \E i \in Index : Has(d, i, n)
    BY <2>1, <2>2 DEF KeysAt, Here
  <2>4. DOMAIN nodeKeys[d] \subseteq Index
    BY <1>2 DEF Shape, Keys
  <2> QED BY <2>3, <2>4 DEF Native, Has
<1>12. Forward(g)
  BY <1>9, <1>10 DEF Forward
<1>13. ASSUME NEW n \in Node, NEW m \in Nbrs(n)
       PROVE  /\ g.to[n] = d => Settled(g, m, arms'[n][m])
              /\ g.to[n] # d => arms'[n][m] = arms[n][m]
  <2>1. m \in DOMAIN arms[n]
    BY <1>2 DEF Shape
  <2>2. CASE g.to[n] = d
    <3>1. arms[n][m] = g.tag[m]
      BY <1>2, <1>8, <2>2 DEF ArmsFit
    <3>2. arms'[n][m] = Lookup(tagMap[d], g.tag[m])
      BY <1>1, <1>11, <2>1, <2>2, <3>1
    <3>3. Settled(g, m, Lookup(tagMap[d], g.tag[m]))
      BY <1>1, <1>3, <2>2, LookupSettles
    <3> QED BY <2>2, <3>2, <3>3
  <2>3. CASE g.to[n] # d
    BY <1>1, <1>11, <2>1, <2>3
  <2> QED BY <2>2, <2>3
<1>14. Shape'
  <2>1. \A n \in Node : /\ arms[n] \in [Nbrs(n) -> Tag] /\ Nbrs(n) \in SUBSET Node
                        /\ DOMAIN arms[n] = Nbrs(n)
    <3> SUFFICES ASSUME NEW n \in Node
                 PROVE  /\ arms[n] \in [Nbrs(n) -> Tag] /\ Nbrs(n) \in SUBSET Node
                        /\ DOMAIN arms[n] = Nbrs(n)
      OBVIOUS
    <3>1. PICK S \in SUBSET Node : arms[n] \in [S -> Tag]
      BY <1>2 DEF Shape
    <3>2. DOMAIN arms[n] = S /\ DOMAIN arms[n] = Nbrs(n)
      BY <1>2, <3>1 DEF Shape
    <3> QED BY <3>1, <3>2
  <2>2. \A n \in Node : arms'[n] \in [Nbrs(n) -> Tag]
    <3> SUFFICES ASSUME NEW n \in Node PROVE arms'[n] \in [Nbrs(n) -> Tag]
      OBVIOUS
    <3>1. \A m \in Nbrs(n) : arms'[n][m] \in Tag
      BY <1>13, <2>1 DEF Settled
    <3>2. arms'[n] = [m \in Nbrs(n) |->
                        IF n \in Native(d) THEN Lookup(tagMap[d], arms[n][m])
                                           ELSE arms[n][m]]
      BY <1>1, <2>1
    <3>3. arms'[n] = [m \in Nbrs(n) |-> arms'[n][m]]
      BY <3>2
    <3> QED BY <3>1, <3>3
  <2>3. \A n \in Node : arms'[n] \in UNION {[S -> Tag] : S \in SUBSET Node}
    BY <2>1, <2>2
  <2>4. arms' = [n \in Node |-> arms'[n]]
    BY <1>1
  <2>5. arms' \in [Node -> UNION {[S -> Tag] : S \in SUBSET Node}]
    BY <2>3, <2>4
  <2>6. \A n \in Node : DOMAIN arms'[n] = Nbrs(n)
    BY <2>2
  <2> QED BY <1>1, <1>2, <2>5, <2>6 DEF Shape, Stages
<1>15. Local(g, d)'
  <2>1. RoundAt(g, d)'
    <3>1. NextDests(g, d)' = NextDests(g, d)
      BY <1>1 DEF NextDests
    <3> QED BY <1>1, <1>2, <1>3, <1>8, <3>1 DEF Local, RoundAt
  <2>2. KeysAt(g, d)'
    <3>1. \A n : Here(g, d, n)' <=> Here(g, d, n)
      BY <1>9, <1>10 DEF Here
    <3> QED BY <1>1, <1>2, <1>9, <1>10, <3>1 DEF Local, KeysAt
  <2>3. SendBufAt(g, d)' /\ RecvLenAt(g, d)' /\ RecvBufAt(g, d)'
    BY <1>1, <1>2, <1>3, <1>5 DEF Local, SendBufAt, RecvLenAt, RecvBufAt
  <2>4. TagMapAt(g, d)'
    <3>1. tagMap'[d] = {} /\ mapsFrom'[d] = {}
      BY <1>1, <1>2 DEF Shape
    <3> QED BY <1>5, <3>1 DEF TagMapAt
  <2> QED BY <2>1, <2>2, <2>3, <2>4 DEF Local
<1>16. ASSUME NEW e \in Domain, NEW x \in Domain
       PROVE  LengthAt(g, e, x)' /\ BufferAt(g, e, x)' /\ MapAt(g, e, x)'
  <2>1. /\ LengthDue(g, e, x)' <=> LengthDue(g, e, x)
        /\ BufferDue(g, e, x)' <=> BufferDue(g, e, x)
    BY <1>9, <1>10 DEF LengthDue, BufferDue
  <2>2. MapDue(g, e, x)' <=> MapDue(g, e, x)
    <3>1. CASE x = d
      <4>1. d \in RemoteDomains(e) => e \in mapsFrom[d]
        BY <1>1, RemoteIsMutual
      <4> QED BY <1>8, <3>1, <4>1 DEF MapDue
    <3>2. CASE x # d
      <4>1. mapsFrom'[x] = mapsFrom[x]
        BY <1>6, <3>2 DEF SameAt
      <4> QED BY <1>7, <1>9, <3>2, <4>1 DEF MapDue
    <3> QED BY <3>1, <3>2
  <2> QED BY <1>1, <1>4, <2>1, <2>2, LengthStays, BufferStays, MapStays
<1>17. ASSUME NEW e \in Domain PROVE InStep(g, e, d)'
  <2>1. InStep(g, e, d)
    BY <1>4
  <2> QED BY <1>1, <1>9, <1>10, <2>1 DEF InStep
<1>18. \A n \in Node : \A t : Settled(g, n, t) => Settled(g, n, t)'
  BY <1>12, SettledStays
<1>19. MapsSound(g)'
  <2>1. \A e \in Domain : Sound(g, tagMap[e])'
    <3>1. tagMap'[d] = {} /\ \A e \in Domain \ {d} : tagMap'[e] = tagMap[e]
      BY <1>1, <1>2 DEF Shape
    <3>2. Sound(g, tagMap[d])'
      BY <3>1 DEF Sound
    <3>3. \A e \in Domain \ {d} : Sound(g, tagMap[e])'
      BY <1>2, <1>18, <3>1 DEF MapsSound, Sound
    <3> QED BY <3>2, <3>3
  <2>2. \A p \in Pair : \A k \in DOMAIN maps[p] : Sound(g, maps[p][k].pairs)'
    BY <1>1, <1>2, <1>18 DEF MapsSound, Sound
  <2> QED BY <1>1, <2>1, <2>2 DEF MapsSound
<1>20. ArmsFit(g)'
  <2> SUFFICES ASSUME NEW n \in Node, NEW m \in Nbrs(n)
               PROVE  /\ IsDone(g, g.to[n])' => Settled(g, m, arms[n][m])'
                      /\ ~IsDone(g, g.to[n])' => arms'[n][m] = g.tag[m]
    BY DEF ArmsFit
  <2>1. PICK e \in Domain : e = g.to[n]
    BY MoveFacts
  <2>2. PICK t : t = arms'[n][m]
    OBVIOUS
  <2>3. m \in Node
    BY DEF Nbrs
  <2>4. CASE e = d
    <3>1. Settled(g, m, t)
      BY <1>13, <2>1, <2>2, <2>4
    <3>2. Settled(g, m, t)'
      BY <1>18, <2>3, <3>1
    <3> QED BY <1>8, <2>1, <2>2, <2>4, <3>2
  <2>5. CASE e # d
    <3>1. t = arms[n][m]
      BY <1>13, <2>1, <2>2, <2>5
    <3>2. /\ IsDone(g, e) => Settled(g, m, t)
          /\ ~IsDone(g, e) => t = g.tag[m]
      BY <1>2, <2>1, <3>1 DEF ArmsFit
    <3>3. Settled(g, m, t) => Settled(g, m, t)'
      BY <1>18, <2>3
    <3>4. IsDone(g, e)' <=> IsDone(g, e)
      BY <1>7, <2>5
    <3> QED BY <2>1, <2>2, <3>2, <3>3, <3>4
  <2> QED BY <2>4, <2>5
<1> QED BY <1>1, <1>6, <1>12, <1>14, <1>15, <1>16, <1>17, <1>19, <1>20, StepKeepsInv

-----------------------------------------------------------------------------
(* Before it packs, a domain has its nodes under the tags of the move.     *)
LEMMA KeysAtStart ==
  ASSUME NEW g \in Move, Inv(g), NEW d \in Domain, Stage(g, d) = "reduce"
  PROVE  /\ \A i \in DOMAIN nodeKeys[d] :
              /\ i \in Index /\ nodeKeys[d][i] \in Node
              /\ g.from[nodeKeys[d][i]] = d
              /\ g.tag[nodeKeys[d][i]] = <<d, i>>
         /\ \A n \in Node : g.from[n] = d => Has(d, g.tag[n][2], n)
         /\ \A n \in Node : DestOf(d, n) = g.to[n]
         /\ \A e : Migrators(d, e) \in SUBSET Index
<1>1. KeysAt(g, d) /\ ~HasReceived(g, d) /\ ~HasPacked(g, d) /\ nodeKeys[d] \in Keys
  BY DEF Inv, Local, HasReceived, HasPacked, Shape
<1>2. \A i \in DOMAIN nodeKeys[d] : i \in Index /\ nodeKeys[d][i] \in Node
  BY <1>1 DEF Keys
<1>3. \A n \in Node : g.from[n] = d => Has(d, g.tag[n][2], n)
  BY <1>1 DEF KeysAt
<1>4. \A n \in Node : g.from[n] = d <=> \E i \in Index : Has(d, i, n)
  BY <1>1 DEF KeysAt, Here
<1>5. ASSUME NEW i \in DOMAIN nodeKeys[d]
      PROVE  /\ g.from[nodeKeys[d][i]] = d /\ g.tag[nodeKeys[d][i]] = <<d, i>>
  <2>1. PICK n \in Node : n = nodeKeys[d][i]
    BY <1>2
  <2>2. g.from[n] = d
    BY <1>2, <1>4, <2>1 DEF Has
  <2>3. g.tag[n][2] = i
    BY <1>1, <1>3, <2>1, <2>2 DEF KeysAt, Has
  <2>4. g.tag[n] = <<g.tag[n][1], g.tag[n][2]>> /\ g.tag[n][1] = d
    BY <2>2, MoveFacts
  <2> QED BY <2>1, <2>2, <2>3, <2>4
<1>6. \A n \in Node : DestOf(d, n) = g.to[n]
  <2>1. round[d] = g.round /\ g.to = schedule[g.round + 1]
    BY StageFacts, MoveFacts
  <2> QED BY <2>1 DEF DestOf
<1>7. \A e : Migrators(d, e) \in SUBSET Index
  BY <1>2 DEF Migrators
<1> QED BY <1>2, <1>3, <1>5, <1>6, <1>7

(* What a domain packs for another lists what moves there.                 *)
LEMMA PackedCarries ==
  ASSUME NEW g \in Move, Inv(g), NEW d \in Domain, Stage(g, d) = "reduce",
         NEW e \in Domain
  PROVE  /\ Packed(d, e) \in Seq(Item) /\ Lists(g, Packed(d, e))
         /\ NodesIn(Packed(d, e)) = Leaving(g, d, e)
         /\ Len(Packed(d, e)) = Cardinality(Leaving(g, d, e))
<1> DEFINE S == Migrators(d, e)
           index == Ascending(S)
           c == Cardinality(S)
           f == nodeKeys[d]
           q == Packed(d, e)
<1>1. /\ \A i \in DOMAIN f : /\ i \in Index /\ f[i] \in Node
                             /\ g.from[f[i]] = d /\ g.tag[f[i]] = <<d, i>>
      /\ \A n \in Node : g.from[n] = d => g.tag[n][2] \in DOMAIN f /\ f[g.tag[n][2]] = n
      /\ \A n \in Node : DestOf(d, n) = g.to[n]
      /\ S \in SUBSET Index
  BY KeysAtStart DEF Has
<1>2. \A i : i \in S <=> i \in DOMAIN f /\ g.to[f[i]] = e
  BY <1>1 DEF Migrators
<1>3. IsFiniteSet(S) /\ S \in SUBSET Nat
  BY <1>1, NodeFacts
<1>4. q = [k \in DOMAIN index |-> [node |-> f[index[k]], old |-> <<d, index[k]>>]]
  BY DEF Packed
<1> HIDE DEF S, q, f
<1>5. /\ index \in [1 .. c -> S] /\ c \in Nat
      /\ \A i \in S : \E k \in 1 .. c : index[k] = i
      /\ \A j, k \in 1 .. c : index[j] = index[k] => j = k
  BY <1>3, AscendingLists
<1> HIDE DEF index, c
<1>6. /\ DOMAIN q = 1 .. c
      /\ \A k \in 1 .. c : q[k].node = f[index[k]] /\ q[k].old = <<d, index[k]>>
      /\ \A k \in 1 .. c : q[k] = [node |-> f[index[k]], old |-> <<d, index[k]>>]
  BY <1>4, <1>5
<1>7. \A k \in 1 .. c : /\ index[k] \in S /\ index[k] \in DOMAIN f /\ index[k] \in Index
                        /\ f[index[k]] \in Node /\ g.from[f[index[k]]] = d
                        /\ g.to[f[index[k]]] = e
                        /\ g.tag[f[index[k]]] = <<d, index[k]>>
  BY <1>1, <1>2, <1>5
<1>8. \A k \in 1 .. c : q[k] \in Item
  <2>1. \A i \in Index : <<d, i>> \in Tag
    BY DEF Tag, Index
  <2> QED BY <1>6, <1>7, <2>1 DEF Item
<1>9. q \in Seq(Item) /\ Len(q) = c
  <2>1. q = [k \in 1 .. c |-> q[k]]
    BY <1>4, <1>6
  <2> QED BY <1>5, <1>8, <2>1
<1>10. Lists(g, q)
  <2>1. \A k \in 1 .. c : q[k].old = g.tag[q[k].node]
    BY <1>6, <1>7
  <2>2. ASSUME NEW j \in 1 .. c, NEW k \in 1 .. c, q[j].node = q[k].node PROVE j = k
    <3>1. <<d, index[j]>> = <<d, index[k]>>
      BY <1>6, <1>7, <2>2
    <3>2. index[j] = index[k]
      BY <3>1
    <3> QED BY <1>5, <3>2
  <2> QED BY <1>6, <2>1, <2>2 DEF Lists
<1>11. NodesIn(q) = Leaving(g, d, e)
  <2>1. ASSUME NEW n \in Leaving(g, d, e) PROVE n \in NodesIn(q)
    <3>1. n \in Node /\ g.from[n] = d /\ g.to[n] = e
      BY DEF Leaving
    <3>2. g.tag[n][2] \in S /\ f[g.tag[n][2]] = n
      BY <1>1, <1>2, <3>1
    <3>3. PICK k \in 1 .. c : index[k] = g.tag[n][2]
      BY <1>5, <3>2
    <3> QED BY <1>6, <3>2, <3>3 DEF NodesIn
  <2>2. ASSUME NEW n \in NodesIn(q) PROVE n \in Leaving(g, d, e)
    <3>1. PICK k \in 1 .. c : n = q[k].node
      BY <1>6 DEF NodesIn
    <3> QED BY <1>6, <1>7, <3>1 DEF Leaving
  <2> QED BY <2>1, <2>2
<1>12. Cardinality(NodesIn(q)) = Len(q)
  BY <1>9, <1>10, ListsCount
<1> QED BY <1>9, <1>10, <1>11, <1>12 DEF q

(* A domain packs every node that leaves it and keeps the others.          *)
LEMMA PackKeepsInv ==
  ASSUME NEW g \in Move, Inv(g), NEW d \in Domain, PackMigrators(d),
         Stage(g, d) = "reduce"
  PROVE  Inv(g)'
<1> DEFINE buf(e) == [nodes |-> Packed(d, e), round |-> g.round]
<1>1. /\ pc[d] = "reduce" /\ round[d] = g.round /\ g.round > 0
  BY StageFacts DEF IsDone
<1>2. Shape /\ Local(g, d) /\ MapsSound(g) /\ ArmsFit(g)
  BY DEF Inv
<1>3. commLists[d][round[d]] = Dests(g, d) /\ Dests(g, d) \in SUBSET (Domain \ {d})
  BY <1>1, <1>2, MoveFacts DEF Local, RoundAt
<1>4. /\ sendBuf' = [sendBuf EXCEPT ![d] = [e \in Dests(g, d) |-> buf(e)]]
      /\ lengths' = Send(lengths, d, [e \in Dests(g, d) |->
           [len |-> Len(Packed(d, e)), round |-> g.round]])
      /\ nodeKeys' = [nodeKeys EXCEPT ![d] = KeysKept(d)]
      /\ pc' = [pc EXCEPT ![d] = "lengths"]
      /\ schedule' = schedule /\ arms' = arms /\ round' = round
      /\ commLists' = commLists /\ nodeBufs' = nodeBufs /\ maps' = maps
      /\ recvLen' = recvLen /\ recvBuf' = recvBuf
      /\ tagMap' = tagMap /\ mapsFrom' = mapsFrom
  <2>1. lengths' = Send(lengths, d, [e \in Dests(g, d) |->
           [len |-> Len(Packed(d, e)), round |-> g.round]])
    BY <1>1, <1>3 DEF PackMigrators
  <2>2. sendBuf' = [sendBuf EXCEPT ![d] = [e \in Dests(g, d) |-> buf(e)]]
    BY <1>1, <1>3 DEF PackMigrators
  <2> QED BY <2>1, <2>2 DEF PackMigrators, recvVars, mapVars
<1> HIDE DEF buf
<1>5. Stage(g, d)' = "lengths" /\ pc'[d] = "lengths"
  BY <1>1, <1>2, <1>4 DEF Shape, Stage
<1>6. \A e \in Domain \ {d} : SameAt(e)
  BY <1>2, <1>4 DEF Shape, SameAt
<1>7. \A e \in Domain \ {d} : HasPacked(g, e)' <=> HasPacked(g, e)
  BY <1>6, StageStays
<1>8. HasPacked(g, d)' /\ ~HasPacked(g, d) /\ ~HasReceived(g, d) /\ ~HasReceived(g, d)'
  BY <1>5 DEF HasPacked, HasReceived
<1>9. \A e \in Domain : /\ HasSent(g, e)' <=> HasSent(g, e)
                        /\ HasReceived(g, e)' <=> HasReceived(g, e)
                        /\ HasUnpacked(g, e)' <=> HasUnpacked(g, e)
                        /\ IsDone(g, e)' <=> IsDone(g, e)
  <2>1. ASSUME NEW e \in Domain, e # d
        PROVE  /\ HasSent(g, e)' <=> HasSent(g, e)
               /\ HasReceived(g, e)' <=> HasReceived(g, e)
               /\ HasUnpacked(g, e)' <=> HasUnpacked(g, e)
               /\ IsDone(g, e)' <=> IsDone(g, e)
    BY <1>6, <2>1, StageStays
  <2>2. /\ HasSent(g, d)' <=> HasSent(g, d)
        /\ HasReceived(g, d)' <=> HasReceived(g, d)
        /\ HasUnpacked(g, d)' <=> HasUnpacked(g, d)
        /\ IsDone(g, d)' <=> IsDone(g, d)
    BY <1>5 DEF HasSent, HasReceived, HasUnpacked, IsDone
  <2> QED BY <2>1, <2>2
<1>10. \A e, x : /\ HasLength(e, x)' <=> HasLength(e, x)
                 /\ HasBuffer(e, x)' <=> HasBuffer(e, x)
                 /\ Pending(e, x)' <=> Pending(e, x)
  BY <1>4 DEF HasLength, HasBuffer, Pending, NodesIn
<1>11. /\ \A i \in DOMAIN nodeKeys[d] : /\ i \in Index /\ nodeKeys[d][i] \in Node
                                        /\ g.from[nodeKeys[d][i]] = d
       /\ \A n \in Node : g.from[n] = d => Has(d, g.tag[n][2], n)
       /\ \A n \in Node : DestOf(d, n) = g.to[n]
       /\ Migrators(d, d) \in SUBSET Index
  BY KeysAtStart
<1>12. /\ nodeKeys'[d] = [i \in Migrators(d, d) |-> nodeKeys[d][i]]
       /\ nodeKeys'[d] \in Keys
  <2>1. nodeKeys'[d] = [i \in Migrators(d, d) |-> nodeKeys[d][i]]
    BY <1>2, <1>4 DEF Shape, KeysKept
  <2>2. \A i \in Migrators(d, d) : nodeKeys[d][i] \in Node
    BY <1>11 DEF Migrators
  <2>3. nodeKeys'[d] \in [Migrators(d, d) -> Node]
    BY <2>1, <2>2
  <2> QED BY <1>11, <2>1, <2>3 DEF Keys
<1>13. \A i : \A n \in Node : Has(d, i, n)' <=> Has(d, i, n) /\ g.to[n] = d
  <2>1. \A i : i \in Migrators(d, d) <=> i \in DOMAIN nodeKeys[d] /\ g.to[nodeKeys[d][i]] = d
    BY <1>11 DEF Migrators
  <2> QED BY <1>12, <2>1 DEF Has
<1>14. ASSUME NEW x \in Dests(g, d)
       PROVE  /\ Carries(g, buf(x), d, x)
              /\ [len |-> Len(Packed(d, x)), round |-> g.round] = LengthOf(g, d, x)
  <2>1. x \in Domain
    BY <1>3
  <2>2. /\ Packed(d, x) \in Seq(Item) /\ Lists(g, Packed(d, x))
        /\ NodesIn(Packed(d, x)) = Leaving(g, d, x)
        /\ Len(Packed(d, x)) = Cardinality(Leaving(g, d, x))
    BY <2>1, PackedCarries
  <2>3. g.round \in Nat
    BY MoveFacts
  <2>4. /\ buf(x).nodes = Packed(d, x) /\ buf(x).round = g.round /\ buf(x) \in Buf
    BY <2>2, <2>3 DEF buf, Buf
  <2> QED BY <2>2, <2>4 DEF Carries, LengthOf
<1>15. \A e, x \in Domain :
         lengths'[<<e, x>>] = IF e = d /\ x \in Dests(g, d)
                              THEN Append(lengths[<<e, x>>], LengthOf(g, d, x))
                              ELSE lengths[<<e, x>>]
  <2> DEFINE msgs == [e \in Dests(g, d) |-> [len |-> Len(Packed(d, e)), round |-> g.round]]
  <2>1. \A p \in Pair : lengths'[p] = IF p[1] = d /\ p[2] \in DOMAIN msgs
                                      THEN Append(lengths[p], msgs[p[2]]) ELSE lengths[p]
    BY <1>4 DEF Send
  <2>2. DOMAIN msgs = Dests(g, d) /\ \A x \in Dests(g, d) : msgs[x] = LengthOf(g, d, x)
    BY <1>14
  <2> HIDE DEF msgs
  <2> SUFFICES ASSUME NEW e \in Domain, NEW x \in Domain
               PROVE  lengths'[<<e, x>>] = IF e = d /\ x \in Dests(g, d)
                              THEN Append(lengths[<<e, x>>], LengthOf(g, d, x))
                              ELSE lengths[<<e, x>>]
    OBVIOUS
  <2>3. <<e, x>> \in Pair /\ <<e, x>>[1] = e /\ <<e, x>>[2] = x
    BY DEF Pair
  <2> QED BY <2>1, <2>2, <2>3
<1>16. Shape'
  <2>1. DOMAIN lengths' = Pair
    BY <1>4 DEF Send
  <2>2. nodeKeys' \in [Domain -> Keys]
    <3>1. \A e \in Domain : nodeKeys'[e] \in Keys
      BY <1>2, <1>4, <1>12 DEF Shape
    <3>2. nodeKeys' = [e \in Domain |-> nodeKeys'[e]]
      BY <1>2, <1>4 DEF Shape
    <3> QED BY <3>1, <3>2
  <2>3. pc' \in [Domain -> Stages \ {"next"}] /\ DOMAIN sendBuf' = Domain
    BY <1>2, <1>4 DEF Shape, Stages
  <2> QED BY <1>2, <1>4, <2>1, <2>2, <2>3 DEF Shape
<1>17. Local(g, d)'
  <2>1. RoundAt(g, d)'
    <3>1. NextDests(g, d)' = NextDests(g, d)
      BY <1>4 DEF NextDests
    <3> QED BY <1>1, <1>2, <1>4, <1>9, <3>1 DEF Local, RoundAt
  <2>2. KeysAt(g, d)'
    <3>1. KeysAt(g, d)
      BY <1>2 DEF Local
    <3>2. \A n \in Node : Here(g, d, n)' <=> Here(g, d, n) /\ g.to[n] = d
      BY <1>8 DEF Here
    <3>3. \A n \in Node : Here(g, d, n)' <=> \E i \in Index : Has(d, i, n)'
      BY <1>13, <3>1, <3>2 DEF KeysAt
    <3>4. \A i, j \in DOMAIN nodeKeys'[d] : nodeKeys'[d][i] = nodeKeys'[d][j] => i = j
      BY <1>12, <3>1 DEF KeysAt, Migrators
    <3>5. \A n \in Node : g.from[n] = d /\ g.to[n] = d => Has(d, g.tag[n][2], n)'
      BY <1>11, <1>13
    <3> QED BY <1>8, <3>3, <3>4, <3>5 DEF KeysAt
  <2>3. SendBufAt(g, d)'
    <3>1. sendBuf'[d] = [e \in Dests(g, d) |-> buf(e)]
      BY <1>2, <1>4 DEF Shape
    <3>2. DOMAIN sendBuf'[d] = Dests(g, d)
          /\ \A x \in Dests(g, d) : sendBuf'[d][x] = buf(x)
      BY <3>1
    <3>3. \A x \in Dests(g, d) : Carries(g, sendBuf[d][x], d, x)'
      BY <1>14, <3>2 DEF Carries
    <3> QED BY <1>5, <3>2, <3>3 DEF SendBufAt
  <2>4. RecvLenAt(g, d)'
    <3>1. recvLen'[d] = <<>>
      BY <1>2, <1>4 DEF Local, RecvLenAt
    <3>2. ~HasSent(g, d)'
      BY <1>5 DEF HasSent
    <3>3. \A S : <<>> \in Seq(S) /\ DOMAIN <<>> = {}
      OBVIOUS
    <3> QED BY <1>5, <3>1, <3>2, <3>3 DEF RecvLenAt
  <2>5. RecvBufAt(g, d)' /\ TagMapAt(g, d)'
    BY <1>2, <1>4, <1>5 DEF Local, RecvBufAt, TagMapAt, Covers
  <2> QED BY <2>1, <2>2, <2>3, <2>4, <2>5 DEF Local
<1>18. Forward(g)
  <2>1. \A e \in Domain \ {d} : \A i, n : Has(e, i, n)' <=> Has(e, i, n)
    BY <1>6, StageStays
  <2> QED BY <1>7, <1>8, <1>9, <2>1 DEF Forward
<1>19. \A e, x \in Domain : LengthAt(g, e, x) /\ BufferAt(g, e, x) /\ MapAt(g, e, x)
                            /\ InStep(g, e, x)
  BY DEF Inv, Between
<1>20. ASSUME NEW e \in Domain, NEW x \in Domain
       PROVE  LengthAt(g, e, x)' /\ BufferAt(g, e, x)' /\ MapAt(g, e, x)'
  <2>1. /\ BufferDue(g, e, x)' <=> BufferDue(g, e, x)
        /\ MapDue(g, e, x)' <=> MapDue(g, e, x)
    BY <1>4, <1>9, <1>10 DEF BufferDue, MapDue
  <2>2. BufferAt(g, e, x)' /\ MapAt(g, e, x)'
    BY <1>4, <1>19, <2>1, BufferStays, MapStays
  <2>3. CASE e = d /\ x \in Dests(g, d)
    <3>1. ~LengthDue(g, d, x)
      BY <1>8 DEF LengthDue
    <3>2. ~HasLength(x, d) /\ ~HasSent(g, x)
      BY <1>8, <1>19, <2>3 DEF InStep
    <3>3. LengthDue(g, d, x)'
      BY <1>8, <1>9, <1>10, <2>3, <3>2 DEF LengthDue
    <3>4. lengths[<<d, x>>] = <<>>
      BY <1>19, <3>1 DEF LengthAt
    <3>5. lengths'[<<d, x>>] = <<LengthOf(g, d, x)>>
      <4>1. lengths'[<<d, x>>] = Append(<<>>, LengthOf(g, d, x))
        BY <1>15, <2>3, <3>4
      <4>2. \A y : Append(<<>>, y) = <<y>>
        OBVIOUS
      <4> QED BY <4>1, <4>2
    <3> QED BY <2>2, <2>3, <3>3, <3>5 DEF LengthAt
  <2>4. CASE ~(e = d /\ x \in Dests(g, d))
    <3>1. lengths'[<<e, x>>] = lengths[<<e, x>>]
      BY <1>15, <2>4
    <3>2. LengthDue(g, e, x)' <=> LengthDue(g, e, x)
      BY <1>7, <1>9, <1>10, <2>4 DEF LengthDue
    <3> QED BY <1>19, <2>2, <3>1, <3>2, LengthStays
  <2> QED BY <2>3, <2>4
<1>21. ASSUME NEW e \in Domain PROVE InStep(g, e, d)'
  <2>1. InStep(g, e, d)
    BY <1>19
  <2>2. HasPacked(g, e) => HasPacked(g, e)'
    BY <1>18 DEF Forward
  <2> QED BY <1>4, <1>9, <1>10, <2>1, <2>2 DEF InStep
<1>22. MapsSound(g)' /\ ArmsFit(g)'
  BY <1>2, <1>4, <1>9, <1>18, MapsStaySound, ArmsStay
<1> QED BY <1>4, <1>6, <1>16, <1>17, <1>18, <1>20, <1>21, <1>22, StepKeepsInv

(* When every domain waits in the next migration, nothing is under way any *)
(* more, and the next move begins.                                         *)
LEMMA TurnOver ==
  ASSUME NEW g \in Move, Inv(g), NEW d \in Domain,
         \A e \in Domain : Stage(g, e) = "next"
  PROVE  \E h \in Move : Inv(h) /\ \A e \in Domain : Stage(h, e) = "reduce"
<1> DEFINE key(n) == CHOOSE i \in Index : Has(g.to[n], i, n)
           h == [round |-> g.round + 1, from |-> g.to, to |-> schedule[g.round + 2],
                 tag |-> [n \in Node |-> <<g.to[n], key(n)>>]]
<1>1. \A e \in Domain : /\ Local(g, e) /\ HasSent(g, e) /\ HasReceived(g, e)
                        /\ HasUnpacked(g, e) /\ IsDone(g, e)
                        /\ round[e] = g.round + 1 /\ pc[e] = "reduce"
  BY StageFacts DEF Inv, Local, HasSent, HasReceived, HasUnpacked, IsDone
<1>2. /\ g.round \in Nat /\ schedule \in Schedules /\ schedule \in Seq([Node -> Domain])
      /\ Len(schedule) \in Nat /\ g.to = schedule[g.round + 1]
      /\ \A n \in Node : g.to[n] \in Domain
  BY MoveFacts
<1>3. /\ g.round + 2 <= Len(schedule)
      /\ \A e \in Domain : /\ commLists[e][g.round + 1] = NextDests(g, e)
                           /\ commLists[e] \in Seq(SUBSET Domain)
                           /\ Len(commLists[e]) = g.round + 1
  <2>1. g.round + 1 # g.round
    BY <1>2
  <2> QED BY <1>1, <2>1 DEF Local, RoundAt
<1>4. schedule[g.round + 2] \in [Node -> Domain] /\ g.to \in [Node -> Domain]
  <2>1. g.round + 2 \in 1 .. Len(schedule)
    BY <1>2, <1>3
  <2>2. g.to \in [Node -> Domain]
    BY DEF Move
  <2> QED BY <1>2, <2>1, <2>2
<1>5. \A e \in Domain : /\ sendBuf[e] = <<>> /\ recvLen[e] = <<>> /\ recvBuf[e] = <<>>
                        /\ tagMap[e] = {} /\ mapsFrom[e] = {}
  BY <1>1 DEF Local, SendBufAt, RecvLenAt, RecvBufAt, TagMapAt
<1>6. \A e, x \in Domain : /\ lengths[<<e, x>>] = <<>> /\ nodeBufs[<<e, x>>] = <<>>
                           /\ maps[<<e, x>>] = <<>>
  <2> SUFFICES ASSUME NEW e \in Domain, NEW x \in Domain
               PROVE  /\ lengths[<<e, x>>] = <<>> /\ nodeBufs[<<e, x>>] = <<>>
                      /\ maps[<<e, x>>] = <<>>
    OBVIOUS
  <2>1. Between(g, e, x)
    BY DEF Inv
  <2>2. ~LengthDue(g, e, x) /\ ~BufferDue(g, e, x) /\ ~MapDue(g, e, x)
    BY <1>1 DEF LengthDue, BufferDue, MapDue
  <2> QED BY <2>1, <2>2 DEF Between, LengthAt, BufferAt, MapAt
<1>7. \A e \in Domain : \A n \in Node : g.to[n] = e <=> \E i \in Index : Has(e, i, n)
  <2> SUFFICES ASSUME NEW e \in Domain, NEW n \in Node
               PROVE  g.to[n] = e <=> \E i \in Index : Has(e, i, n)
    OBVIOUS
  <2>1. ~Pending(e, n)
    BY <1>5 DEF Pending
  <2> QED BY <1>1, <2>1 DEF Local, KeysAt, Here
<1>8. \A n \in Node : key(n) \in Index /\ Has(g.to[n], key(n), n)
  BY <1>2, <1>7
<1>9. /\ h.round = g.round + 1 /\ h.from = g.to /\ h.to = schedule[g.round + 2]
      /\ \A n \in Node : h.tag[n] = <<g.to[n], key(n)>>
  OBVIOUS
<1>10. h \in Move
  <2>1. \A n \in Node : <<g.to[n], key(n)>> \in Tag
    BY <1>2, <1>8 DEF Tag, Index
  <2> HIDE DEF key
  <2>2. [n \in Node |-> <<g.to[n], key(n)>>] \in [Node -> Tag]
    BY <2>1
  <2>3. g.round + 1 \in Nat
    BY <1>2
  <2> QED BY <1>4, <2>2, <2>3 DEF Move
<1> HIDE DEF h, key
<1>11. \A e \in Domain : Stage(h, e) = "reduce"
  BY <1>1, <1>9 DEF Stage
<1>12. \A e \in Domain : /\ ~HasPacked(h, e) /\ ~HasSent(h, e) /\ ~HasReceived(h, e)
                         /\ ~HasUnpacked(h, e) /\ ~IsDone(h, e)
  BY <1>11 DEF HasPacked, HasSent, HasReceived, HasUnpacked, IsDone
<1>13. Shape
  BY DEF Inv
<1>14. \A e \in Domain : \A i, j : \A n \in Node : Has(e, i, n) /\ Has(e, j, n) => i = j
  BY <1>1 DEF Local, KeysAt, Has
<1>15. Places(h)
  <2>1. h.round < Len(schedule) /\ h.to = schedule[h.round + 1]
        /\ h.round # 0 /\ h.from = schedule[h.round]
    <3>1. (g.round + 1) + 1 = g.round + 2
      BY <1>2
    <3> QED BY <1>2, <1>3, <1>9, <3>1
  <2>2. \A n \in Node : h.tag[n][1] = h.from[n]
    BY <1>9
  <2>3. ASSUME NEW m \in Node, NEW n \in Node, h.tag[m] = h.tag[n] PROVE m = n
    <3>1. g.to[m] = g.to[n] /\ key(m) = key(n)
      BY <1>9, <2>3
    <3>2. Has(g.to[m], key(m), m) /\ Has(g.to[n], key(n), n)
      BY <1>8
    <3> QED BY <3>1, <3>2 DEF Has
  <2> QED BY <1>2, <2>1, <2>2, <2>3 DEF Places
<1>16. ASSUME NEW e \in Domain PROVE Local(h, e)
  <2>1. RoundAt(h, e)
    <3>1. Dests(h, e) = NextDests(g, e)
      BY <1>9 DEF Dests, NextDests
    <3>2. h.round # 0 /\ h.round \in Nat
      BY <1>2, <1>9
    <3> QED BY <1>1, <1>3, <1>9, <3>1, <3>2 DEF RoundAt
  <2>2. KeysAt(h, e)
    <3>1. \A n \in Node : Here(h, e, n) <=> g.to[n] = e
      BY <1>9, <1>12 DEF Here
    <3>2. \A n \in Node : g.to[n] = e => h.tag[n][2] = key(n) /\ Has(e, key(n), n)
      BY <1>8, <1>9
    <3>3. \A i, j \in DOMAIN nodeKeys[e] : nodeKeys[e][i] = nodeKeys[e][j] => i = j
      BY <1>1 DEF Local, KeysAt
    <3>4. \A n \in Node : Here(h, e, n) <=> \E i \in Index : Has(e, i, n)
      BY <1>7, <3>1
    <3>5. \A n \in Node : h.from[n] = e => Has(e, h.tag[n][2], n)
      BY <1>9, <3>2
    <3> QED BY <3>3, <3>4, <3>5 DEF KeysAt
  <2>3. SendBufAt(h, e) /\ RecvLenAt(h, e) /\ RecvBufAt(h, e)
    BY <1>5, <1>11 DEF SendBufAt, RecvLenAt, RecvBufAt
  <2>4. TagMapAt(h, e)
    BY <1>5, <1>11 DEF TagMapAt
  <2> QED BY <2>1, <2>2, <2>3, <2>4 DEF Local
<1>17. ASSUME NEW e \in Domain, NEW x \in Domain PROVE Between(h, e, x)
  <2>1. ~LengthDue(h, e, x) /\ ~BufferDue(h, e, x) /\ ~MapDue(h, e, x)
    BY <1>12 DEF LengthDue, BufferDue, MapDue
  <2>2. ~HasLength(x, e) /\ ~HasBuffer(x, e)
    BY <1>5 DEF HasLength, HasBuffer
  <2>3. InStep(h, e, x)
    BY <1>5, <1>12, <2>2 DEF InStep
  <2> QED BY <1>6, <2>1, <2>3 DEF Between, LengthAt, BufferAt, MapAt
<1>18. MapsSound(h)
  <2>1. \A p \in Pair : maps[p] = <<>>
    BY <1>6 DEF Pair
  <2> QED BY <1>5, <2>1 DEF MapsSound, Sound
<1>19. ArmsFit(h)
  <2> SUFFICES ASSUME NEW n \in Node, NEW m \in Nbrs(n)
               PROVE  ~IsDone(h, h.to[n]) /\ arms[n][m] = h.tag[m]
    BY DEF ArmsFit
  <2>1. m \in Node
    BY DEF Nbrs
  <2>2. h.to[n] \in Domain
    BY <1>4, <1>9
  <2>3. PICK t : t = arms[n][m]
    OBVIOUS
  <2>4. Settled(g, m, t)
    BY <1>1, <1>2, <2>3 DEF Inv, ArmsFit
  <2>5. t \in Tag /\ t = <<t[1], t[2]>> /\ t[1] = g.to[m] /\ Has(g.to[m], t[2], m)
    <3>1. \A x \in Tag : x = <<x[1], x[2]>>
      BY DEF Tag
    <3> QED BY <2>4, <3>1 DEF Settled
  <2>6. t[2] = key(m)
    BY <1>2, <1>8, <1>14, <2>1, <2>5
  <2>7. t = <<g.to[m], key(m)>>
    BY <2>5, <2>6
  <2> QED BY <1>9, <1>12, <2>1, <2>2, <2>3, <2>7
<1>20. Inv(h)
  BY <1>13, <1>15, <1>16, <1>17, <1>18, <1>19 DEF Inv
<1> QED BY <1>10, <1>11, <1>20

(* The invariant is inductive.                                             *)
LEMMA NextKeepsInv ==
  ASSUME MigrationInv, [Next]_vars
  PROVE  MigrationInv'
<1>1. PICK g \in Move : Inv(g)
  BY DEF MigrationInv
<1>2. ASSUME NEW d \in Domain, PackMigrators(d) PROVE MigrationInv'
  <2>1. pc[d] = "reduce" /\ \A e \in Domain : Len(commLists[e]) >= round[d]
    BY <1>2 DEF PackMigrators, ReduceDone
  <2>2. CASE Stage(g, d) = "next"
    <3>1. \A e \in Domain : /\ Len(commLists[e]) = round[e] /\ round[e] \in Nat
                            /\ round[e] = g.round \/ round[e] = g.round + 1
      BY <1>1 DEF Inv, Local, RoundAt, Shape
    <3>2. round[d] = g.round + 1 /\ g.round \in Nat
      BY <1>1, <2>2, StageFacts, MoveFacts
    <3>3. ASSUME NEW e \in Domain PROVE Stage(g, e) = "next"
      <4>1. round[e] # g.round
        BY <2>1, <3>1, <3>2
      <4> QED BY <4>1 DEF Stage
    <3>4. PICK h \in Move : Inv(h) /\ Stage(h, d) = "reduce"
      BY <1>1, <3>3, TurnOver
    <3>5. Inv(h)'
      BY <1>2, <3>4, PackKeepsInv
    <3> QED BY <3>5 DEF MigrationInv
  <2>3. CASE Stage(g, d) # "next"
    <3>1. Stage(g, d) = "reduce"
      BY <1>1, <2>1, <2>3, StageFacts
    <3>2. Inv(g)'
      BY <1>1, <1>2, <3>1, PackKeepsInv
    <3> QED BY <3>2 DEF MigrationInv
  <2> QED BY <2>2, <2>3
<1>3. ASSUME NEW d \in Domain, DomainStep(d) PROVE MigrationInv'
  <2>1. CASE PackMigrators(d)
    BY <1>2, <2>1
  <2>2. CASE BuildMigLists(d)
    BY <1>1, <2>2, BuildKeepsInv DEF MigrationInv
  <2>3. CASE \E e \in Domain : RecvLength(d, e)
    BY <1>1, <2>3, RecvLengthKeepsInv DEF MigrationInv
  <2>4. CASE SendMigrators(d)
    BY <1>1, <2>4, SendMigratorsKeepsInv DEF MigrationInv
  <2>5. CASE \E k \in DOMAIN recvLen[d] : RecvMigrators(d, k)
    BY <1>1, <2>5, RecvMigratorsKeepsInv DEF MigrationInv
  <2>6. CASE \E k \in DOMAIN recvLen[d] : UnpackMigrators(d, k)
    BY <1>1, <2>6, UnpackMigratorsKeepsInv DEF MigrationInv
  <2>7. CASE WaitMigrators(d)
    BY <1>1, <2>7, WaitMigratorsKeepsInv DEF MigrationInv
  <2>8. CASE SendTagMap(d)
    BY <1>1, <2>8, SendTagMapKeepsInv DEF MigrationInv
  <2>9. CASE \E e \in Domain : RecvTagMap(d, e)
    BY <1>1, <2>9, RecvTagMapKeepsInv DEF MigrationInv
  <2>10. CASE RemapArmTags(d)
    BY <1>1, <2>10, RemapKeepsInv DEF MigrationInv
  <2> QED BY <1>3, <2>1, <2>2, <2>3, <2>4, <2>5, <2>6, <2>7, <2>8, <2>9, <2>10
         DEF DomainStep
<1>4. ASSUME UNCHANGED vars PROVE MigrationInv'
  <2>1. /\ schedule' = schedule /\ nodeKeys' = nodeKeys /\ arms' = arms
        /\ round' = round /\ pc' = pc /\ commLists' = commLists
        /\ sendBuf' = sendBuf /\ lengths' = lengths /\ nodeBufs' = nodeBufs
        /\ maps' = maps /\ recvLen' = recvLen /\ recvBuf' = recvBuf
        /\ tagMap' = tagMap /\ mapsFrom' = mapsFrom
    BY <1>4 DEF vars, keyVars, msgVars, recvVars, mapVars
  <2>2. \A e \in Domain : SameAt(e)
    BY <2>1 DEF SameAt
  <2>3. Shape' /\ Places(g)'
    BY <1>1, <2>1 DEF Inv, Shape, Places
  <2>4. \A e \in Domain : Local(g, e)'
    BY <1>1, <2>1, <2>2, LocalStays DEF Inv
  <2>5. ASSUME NEW e \in Domain
        PROVE  /\ HasPacked(g, e)' <=> HasPacked(g, e)
               /\ HasSent(g, e)' <=> HasSent(g, e)
               /\ HasReceived(g, e)' <=> HasReceived(g, e)
               /\ HasUnpacked(g, e)' <=> HasUnpacked(g, e)
               /\ IsDone(g, e)' <=> IsDone(g, e)
               /\ \A x : /\ HasLength(e, x)' <=> HasLength(e, x)
                         /\ HasBuffer(e, x)' <=> HasBuffer(e, x)
               /\ \A i, n : Has(e, i, n)' <=> Has(e, i, n)
    BY <2>2, StageStays
  <2>6. Forward(g)
    BY <2>5 DEF Forward
  <2>7. ASSUME NEW e \in Domain, NEW x \in Domain PROVE Between(g, e, x)'
    <3>1. LengthAt(g, e, x) /\ BufferAt(g, e, x) /\ MapAt(g, e, x) /\ InStep(g, e, x)
      BY <1>1 DEF Inv, Between
    <3>2. /\ LengthDue(g, e, x)' <=> LengthDue(g, e, x)
          /\ BufferDue(g, e, x)' <=> BufferDue(g, e, x)
          /\ MapDue(g, e, x)' <=> MapDue(g, e, x)
      BY <2>1, <2>5 DEF LengthDue, BufferDue, MapDue
    <3>3. InStep(g, e, x)'
      BY <2>1, <2>5, <3>1 DEF InStep
    <3> QED BY <2>1, <3>1, <3>2, <3>3, LengthStays, BufferStays, MapStays DEF Between
  <2>8. MapsSound(g)' /\ ArmsFit(g)'
    BY <1>1, <2>1, <2>5, <2>6, MapsStaySound, ArmsStay DEF Inv
  <2>9. Inv(g)'
    BY <2>3, <2>4, <2>7, <2>8 DEF Inv
  <2> QED BY <2>9 DEF MigrationInv
<1> QED BY <1>3, <1>4 DEF Next, Finished
-----------------------------------------------------------------------------
(* What the invariant says of a node: where it is.                         *)

(* A node waits in a receive buffer only at its destination, and is in one *)
(* as soon as its buffer is there.                                         *)
LEMMA PendingAt ==
  ASSUME NEW g \in Move, Inv(g), NEW d \in Domain, NEW n \in Node
  PROVE  /\ Pending(d, n) =>
              /\ g.to[n] = d /\ g.from[n] # d /\ HasBuffer(d, g.from[n])
         /\ g.to[n] = d /\ g.from[n] # d /\ ~HasReceived(g, d) /\ HasBuffer(d, g.from[n])
              => Pending(d, n)
<1>1. RecvBufAt(g, d) /\ RecvLenAt(g, d)
  BY DEF Inv, Local
<1>2. CASE Stage(g, d) \in {"nodes", "unpack"}
  <2>1. \A k \in DOMAIN recvBuf[d] :
          /\ k \in DOMAIN recvLen[d]
          /\ NodesIn(recvBuf[d][k].nodes) \subseteq Leaving(g, recvLen[d][k].from, d)
          /\ ~HasReceived(g, d) => NodesIn(recvBuf[d][k].nodes)
                                     = Leaving(g, recvLen[d][k].from, d)
          /\ d \in Dests(g, recvLen[d][k].from)
    BY <1>1, <1>2 DEF RecvBufAt, RecvLenAt
  <2>2. \A e : d \in Dests(g, e) => d # e
    BY DEF Dests
  <2>3. ASSUME Pending(d, n)
        PROVE  g.to[n] = d /\ g.from[n] # d /\ HasBuffer(d, g.from[n])
    <3>1. PICK k \in DOMAIN recvBuf[d] : n \in NodesIn(recvBuf[d][k].nodes)
      BY <2>3 DEF Pending
    <3>2. g.to[n] = d /\ g.from[n] = recvLen[d][k].from
      BY <2>1, <3>1 DEF Leaving
    <3> QED BY <2>1, <2>2, <3>1, <3>2 DEF HasBuffer
  <2>4. ASSUME g.to[n] = d, ~HasReceived(g, d), HasBuffer(d, g.from[n])
        PROVE  Pending(d, n)
    <3>1. PICK k \in DOMAIN recvBuf[d] : recvLen[d][k].from = g.from[n]
      BY <2>4 DEF HasBuffer
    <3>2. n \in Leaving(g, recvLen[d][k].from, d)
      BY <2>4, <3>1 DEF Leaving
    <3> QED BY <2>1, <2>4, <3>1, <3>2 DEF Pending
  <2> QED BY <2>3, <2>4
<1>3. CASE Stage(g, d) \notin {"nodes", "unpack"}
  <2>1. recvBuf[d] = <<>>
    BY <1>1, <1>3 DEF RecvBufAt
  <2> QED BY <2>1 DEF Pending, HasBuffer
<1> QED BY <1>2, <1>3

(* A node is in the buffers of a domain that has packed and not sent it,   *)
(* or received and not unpacked it.                                        *)
LEMMA BufferedAt ==
  ASSUME NEW g \in Move, Inv(g), NEW d \in Domain, NEW n \in Node
  PROVE  n \in Buffered(BuffersOf(d))
           <=> \/ Stage(g, d) = "lengths" /\ g.from[n] = d /\ g.to[n] # d
               \/ Pending(d, n)
<1>1. n \in Buffered(BuffersOf(d))
        <=> \/ \E e \in DOMAIN sendBuf[d] : n \in NodesIn(sendBuf[d][e].nodes)
            \/ \E k \in DOMAIN recvBuf[d] : n \in NodesIn(recvBuf[d][k].nodes)
  BY DEF Buffered, BuffersOf, NodesIn
<1>2. (\E e \in DOMAIN sendBuf[d] : n \in NodesIn(sendBuf[d][e].nodes))
        <=> Stage(g, d) = "lengths" /\ g.from[n] = d /\ g.to[n] # d
  <2>1. SendBufAt(g, d)
    BY DEF Inv, Local
  <2>2. CASE Stage(g, d) = "lengths"
    <3>1. /\ DOMAIN sendBuf[d] = Dests(g, d)
          /\ \A e \in Dests(g, d) : NodesIn(sendBuf[d][e].nodes) = Leaving(g, d, e)
      BY <2>1, <2>2 DEF SendBufAt, Carries
    <3>2. (\E e \in Dests(g, d) : n \in Leaving(g, d, e))
            <=> g.from[n] = d /\ g.to[n] # d
      BY DEF Dests, Leaving
    <3> QED BY <2>2, <3>1, <3>2
  <2>3. CASE Stage(g, d) # "lengths"
    <3>1. sendBuf[d] = <<>>
      BY <2>1, <2>3 DEF SendBufAt
    <3> QED BY <2>3, <3>1
  <2> QED BY <2>2, <2>3
<1> QED BY <1>1, <1>2 DEF Pending

(* A node is under way from where it was to where it goes, while its       *)
(* buffer is due.                                                          *)
LEMMA InFlightAt ==
  ASSUME NEW g \in Move, Inv(g), NEW p \in Pair, NEW n \in Node
  PROVE  n \in Buffered(InChannel(p))
           <=> /\ p = <<g.from[n], g.to[n]>> /\ g.from[n] # g.to[n]
               /\ BufferDue(g, g.from[n], g.to[n])
<1>1. PICK e \in Domain, d \in Domain : p = <<e, d>>
  BY DEF Pair
<1>2. BufferAt(g, e, d)
  BY DEF Inv, Between
<1>3. n \in Buffered(InChannel(p))
        <=> \E k \in DOMAIN nodeBufs[p] : n \in NodesIn(nodeBufs[p][k].nodes)
  BY DEF Buffered, InChannel, NodesIn
<1>4. CASE BufferDue(g, e, d)
  <2>1. PICK b \in Buf : nodeBufs[p] = <<b>> /\ NodesIn(b.nodes) = Leaving(g, e, d)
    BY <1>1, <1>2, <1>4 DEF BufferAt, Carries
  <2>2. DOMAIN <<b>> = {1} /\ <<b>>[1] = b
    OBVIOUS
  <2>3. n \in Buffered(InChannel(p)) <=> g.from[n] = e /\ g.to[n] = d
    BY <1>3, <2>1, <2>2 DEF Leaving
  <2>4. e # d
    BY <1>4 DEF BufferDue, Dests
  <2> QED BY <1>1, <1>4, <2>3, <2>4
<1>5. CASE ~BufferDue(g, e, d)
  <2>1. nodeBufs[p] = <<>>
    BY <1>1, <1>2, <1>5 DEF BufferAt
  <2> QED BY <1>1, <1>3, <1>5, <2>1
<1> QED BY <1>4, <1>5

(* A node is at one domain, or in one domain's buffers, or under way.      *)
LEMMA OnePlace ==
  ASSUME NEW g \in Move, Inv(g), NEW n \in Node
  PROVE  \/ /\ \E d \in Domain : \A e \in Domain : Here(g, e, n) <=> e = d
            /\ \A e \in Domain : n \notin Buffered(BuffersOf(e))
            /\ \A p \in Pair : n \notin Buffered(InChannel(p))
         \/ /\ \A e \in Domain : ~Here(g, e, n)
            /\ \E d \in Domain : \A e \in Domain : n \in Buffered(BuffersOf(e)) <=> e = d
            /\ \A p \in Pair : n \notin Buffered(InChannel(p))
         \/ /\ \A e \in Domain : ~Here(g, e, n)
            /\ \A e \in Domain : n \notin Buffered(BuffersOf(e))
            /\ \E o \in Pair : \A p \in Pair : n \in Buffered(InChannel(p)) <=> p = o
<1>1. PICK a \in Domain, b \in Domain : a = g.from[n] /\ b = g.to[n]
  BY MoveFacts
<1>2. \A e \in Domain : /\ Pending(e, n) => e = b /\ a # b /\ HasBuffer(e, a)
                        /\ e = b /\ a # b /\ ~HasReceived(g, e) /\ HasBuffer(e, a)
                             => Pending(e, n)
  BY <1>1, PendingAt
<1>3. \A e \in Domain : n \in Buffered(BuffersOf(e))
                          <=> (Stage(g, e) = "lengths" /\ e = a /\ a # b) \/ Pending(e, n)
  BY <1>1, BufferedAt
<1>4. \A p \in Pair : n \in Buffered(InChannel(p))
                        <=> p = <<a, b>> /\ a # b /\ BufferDue(g, a, b)
  BY <1>1, InFlightAt
<1>5. \A e \in Domain : Here(g, e, n) <=>
        IF HasReceived(g, e) THEN e = b /\ ~Pending(e, n)
                             ELSE e = a /\ (HasPacked(g, e) => a = b)
  BY <1>1 DEF Here
<1>6. \A e \in Domain : /\ Stage(g, e) = "lengths" <=> HasPacked(g, e) /\ ~HasSent(g, e)
                        /\ HasReceived(g, e) => HasSent(g, e)
                        /\ HasSent(g, e) => HasPacked(g, e)
  BY StageFacts DEF HasPacked, HasSent, HasReceived, Stages
<1>7. a # b => b \in Dests(g, a)
  BY <1>1 DEF Dests
<1>8. a # b => /\ HasBuffer(b, a) \/ HasReceived(g, b) => HasSent(g, a)
               /\ BufferDue(g, a, b) <=> HasSent(g, a) /\ ~HasReceived(g, b) /\ ~HasBuffer(b, a)
  BY <1>7 DEF Inv, Between, InStep, BufferDue
<1>9. CASE a = b
  BY <1>2, <1>3, <1>4, <1>5, <1>9
<1>10. CASE a # b /\ ~HasPacked(g, a)
  <2>1. ~HasSent(g, a) /\ ~HasReceived(g, a) /\ ~HasReceived(g, b) /\ ~HasBuffer(b, a)
    BY <1>6, <1>8, <1>10
  <2>2. \A e \in Domain : Here(g, e, n) <=> e = a
    BY <1>5, <1>10, <2>1
  <2>3. \A e \in Domain : n \notin Buffered(BuffersOf(e))
    BY <1>2, <1>3, <1>6, <1>10, <2>1
  <2> QED BY <1>4, <1>8, <1>10, <2>1, <2>2, <2>3
<1>11. CASE a # b /\ HasPacked(g, a) /\ ~HasSent(g, a)
  <2>1. ~HasReceived(g, a) /\ ~HasReceived(g, b) /\ ~HasBuffer(b, a)
    BY <1>6, <1>8, <1>11
  <2>2. \A e \in Domain : ~Here(g, e, n)
    BY <1>5, <1>11, <2>1
  <2>3. \A e \in Domain : n \in Buffered(BuffersOf(e)) <=> e = a
    BY <1>2, <1>3, <1>6, <1>11, <2>1
  <2> QED BY <1>4, <1>8, <1>11, <2>2, <2>3
<1>12. CASE a # b /\ HasSent(g, a)
  <2>1. \A e \in Domain : n \in Buffered(BuffersOf(e)) <=> Pending(e, n)
    BY <1>3, <1>6, <1>12
  <2>2. ~Here(g, a, n)
    BY <1>5, <1>6, <1>12
  <2>3. CASE ~HasReceived(g, b) /\ ~HasBuffer(b, a)
    <3>1. \A e \in Domain : ~Here(g, e, n) /\ ~Pending(e, n)
      BY <1>2, <1>5, <2>2, <2>3
    <3>2. <<a, b>> \in Pair /\ BufferDue(g, a, b)
      BY <1>8, <1>12, <2>3 DEF Pair
    <3> QED BY <1>4, <1>12, <2>1, <3>1, <3>2
  <2>4. CASE ~HasReceived(g, b) /\ HasBuffer(b, a)
    <3>1. \A e \in Domain : ~Here(g, e, n)
      BY <1>5, <2>2, <2>4
    <3>2. \A e \in Domain : Pending(e, n) <=> e = b
      BY <1>2, <1>12, <2>4
    <3> QED BY <1>4, <1>8, <1>12, <2>1, <2>4, <3>1, <3>2
  <2>5. CASE HasReceived(g, b) /\ Pending(b, n)
    <3>1. \A e \in Domain : ~Here(g, e, n)
      BY <1>5, <2>2, <2>5
    <3>2. \A e \in Domain : Pending(e, n) <=> e = b
      BY <1>2, <2>5
    <3> QED BY <1>4, <1>8, <1>12, <2>1, <2>5, <3>1, <3>2
  <2>6. CASE HasReceived(g, b) /\ ~Pending(b, n)
    <3>1. \A e \in Domain : Here(g, e, n) <=> e = b
      BY <1>5, <2>2, <2>6
    <3>2. \A e \in Domain : ~Pending(e, n)
      BY <1>2, <2>6
    <3> QED BY <1>4, <1>8, <1>12, <2>1, <2>6, <3>1, <3>2
  <2> QED BY <2>3, <2>4, <2>5, <2>6
<1> QED BY <1>9, <1>10, <1>11, <1>12

(* Sets that one element or none satisfies.                                *)
LEMMA CountNone ==
  ASSUME NEW S, NEW P, P \subseteq S, \A x \in S : x \notin P
  PROVE  Cardinality(P) = 0
<1>1. P = {}
  OBVIOUS
<1> QED BY <1>1, FS_EmptySet

LEMMA CountOne ==
  ASSUME NEW S, NEW P, P \subseteq S, NEW y \in S, \A x \in S : x \in P <=> x = y
  PROVE  Cardinality(P) = 1
<1>1. P = {y}
  OBVIOUS
<1> QED BY <1>1, FS_Singleton

(* The invariant counts every node once, ...                               *)
LEMMA InvConservesNodes ==
  ASSUME NEW g \in Move, Inv(g)
  PROVE  NodesConserved
<1> SUFFICES ASSUME NEW n \in Node
             PROVE  Cardinality({t \in Tag : t[2] \in DOMAIN nodeKeys[t[1]]
                                               /\ nodeKeys[t[1]][t[2]] = n})
                    + Cardinality({d \in Domain : n \in Buffered(BuffersOf(d))})
                    + Cardinality({p \in Pair : n \in Buffered(InChannel(p))}) = 1
  BY DEF NodesConserved
<1> DEFINE T == {t \in Tag : t[2] \in DOMAIN nodeKeys[t[1]] /\ nodeKeys[t[1]][t[2]] = n}
           B == {d \in Domain : n \in Buffered(BuffersOf(d))}
           C == {p \in Pair : n \in Buffered(InChannel(p))}
<1>1. /\ T \subseteq Tag /\ \A t : t \in T <=> t \in Tag /\ Has(t[1], t[2], n)
      /\ B \subseteq Domain /\ \A d : d \in B <=> d \in Domain /\ n \in Buffered(BuffersOf(d))
      /\ C \subseteq Pair /\ \A p : p \in C <=> p \in Pair /\ n \in Buffered(InChannel(p))
  BY DEF Has
<1>2. \A t \in Tag : t = <<t[1], t[2]>> /\ t[1] \in Domain /\ t[2] \in Index
  BY DEF Tag, Index
<1>3. \A d \in Domain : \A i \in Index : <<d, i>> \in Tag /\ <<d, i>>[1] = d /\ <<d, i>>[2] = i
  BY DEF Tag, Index
<1>4. \A d \in Domain : /\ Here(g, d, n) <=> \E i \in Index : Has(d, i, n)
                        /\ \A i, j : Has(d, i, n) /\ Has(d, j, n) => i = j
  BY DEF Inv, Local, KeysAt, Has
<1> HIDE DEF T, B, C
<1>5. ASSUME NEW d \in Domain, \A e \in Domain : Here(g, e, n) <=> e = d
      PROVE  Cardinality(T) = 1
  <2>1. PICK i \in Index : Has(d, i, n)
    BY <1>4, <1>5
  <2>2. \A t \in Tag : t \in T <=> t = <<d, i>>
    BY <1>1, <1>2, <1>3, <1>4, <1>5, <2>1
  <2>3. PICK y \in Tag : y = <<d, i>>
    BY <1>3
  <2> QED BY <1>1, <2>2, <2>3, CountOne
<1>6. ASSUME \A e \in Domain : ~Here(g, e, n) PROVE Cardinality(T) = 0
  <2>1. \A t \in Tag : t \notin T
    BY <1>1, <1>2, <1>4, <1>6
  <2> QED BY <1>1, <2>1, CountNone
<1>7. /\ (\A d \in Domain : d \notin B) => Cardinality(B) = 0
      /\ (\E d \in Domain : \A e \in Domain : e \in B <=> e = d) => Cardinality(B) = 1
  <2>1. B \subseteq Domain
    BY <1>1
  <2>2. (\A d \in Domain : d \notin B) => Cardinality(B) = 0
    BY <2>1, CountNone
  <2>3. ASSUME NEW d \in Domain, \A e \in Domain : e \in B <=> e = d
        PROVE  Cardinality(B) = 1
    BY <2>1, <2>3, CountOne
  <2> QED BY <2>2, <2>3
<1>8. /\ (\A p \in Pair : p \notin C) => Cardinality(C) = 0
      /\ (\E o \in Pair : \A p \in Pair : p \in C <=> p = o) => Cardinality(C) = 1
  <2>1. C \subseteq Pair
    BY <1>1
  <2>2. (\A p \in Pair : p \notin C) => Cardinality(C) = 0
    BY <2>1, CountNone
  <2>3. ASSUME NEW o \in Pair, \A p \in Pair : p \in C <=> p = o
        PROVE  Cardinality(C) = 1
    BY <2>1, <2>3, CountOne
  <2> QED BY <2>2, <2>3
<1>9. \/ /\ \E d \in Domain : \A e \in Domain : Here(g, e, n) <=> e = d
         /\ \A e \in Domain : e \notin B
         /\ \A p \in Pair : p \notin C
      \/ /\ \A e \in Domain : ~Here(g, e, n)
         /\ \E d \in Domain : \A e \in Domain : e \in B <=> e = d
         /\ \A p \in Pair : p \notin C
      \/ /\ \A e \in Domain : ~Here(g, e, n)
         /\ \A e \in Domain : e \notin B
         /\ \E o \in Pair : \A p \in Pair : p \in C <=> p = o
  BY <1>1, OnePlace
<1>10. Cardinality(T) + Cardinality(B) + Cardinality(C) = 1
  BY <1>5, <1>6, <1>7, <1>8, <1>9
<1> QED BY <1>10 DEF T, B, C

(* ... keeps the messages of two migrations apart, ...                     *)
LEMMA InvKeepsRoundsApart ==
  ASSUME NEW g \in Move, Inv(g)
  PROVE  NoCrossRound
<1> SUFFICES ASSUME NEW d \in Domain
             PROVE  /\ \A k \in DOMAIN recvLen[d] : recvLen[d][k].msg.round = round[d]
                    /\ \A k \in DOMAIN recvBuf[d] : recvBuf[d][k].round = round[d]
                    /\ \A e \in Domain : /\ RoundsIn(lengths, <<e, d>>) \subseteq {round[d]}
                                         /\ RoundsIn(nodeBufs, <<e, d>>) \subseteq {round[d]}
  BY DEF NoCrossRound
<1>1. /\ Local(g, d) /\ Stage(g, d) \in Stages
      /\ Stage(g, d) # "next" => round[d] = g.round
  BY StageFacts DEF Inv
<1>2. \A k \in DOMAIN recvLen[d] : recvLen[d][k].msg.round = round[d]
  <2>1. CASE Stage(g, d) \in {"lengths", "nodes", "unpack"}
    <3>1. \A e : LengthOf(g, e, d).round = g.round
      BY DEF LengthOf
    <3>2. \A k \in DOMAIN recvLen[d] :
            recvLen[d][k].msg = LengthOf(g, recvLen[d][k].from, d)
      BY <1>1, <2>1 DEF Local, RecvLenAt
    <3> QED BY <1>1, <2>1, <3>1, <3>2
  <2>2. CASE Stage(g, d) \notin {"lengths", "nodes", "unpack"}
    <3>1. recvLen[d] = <<>>
      BY <1>1, <2>2 DEF Local, RecvLenAt
    <3> QED BY <3>1
  <2> QED BY <2>1, <2>2
<1>3. \A k \in DOMAIN recvBuf[d] : recvBuf[d][k].round = round[d]
  <2>1. CASE Stage(g, d) \in {"nodes", "unpack"}
    BY <1>1, <2>1 DEF Local, RecvBufAt
  <2>2. CASE Stage(g, d) \notin {"nodes", "unpack"}
    <3>1. recvBuf[d] = <<>>
      BY <1>1, <2>2 DEF Local, RecvBufAt
    <3> QED BY <3>1
  <2> QED BY <2>1, <2>2
<1>4. \A y : DOMAIN <<y>> = {1} /\ <<y>>[1] = y
  OBVIOUS
<1>5. ASSUME NEW e \in Domain PROVE RoundsIn(lengths, <<e, d>>) \subseteq {round[d]}
  <2>1. LengthAt(g, e, d)
    BY DEF Inv, Between
  <2>2. CASE LengthDue(g, e, d)
    <3>1. round[d] = g.round
      BY <1>1, <2>2 DEF LengthDue, HasSent
    <3>2. PICK y : y = LengthOf(g, e, d)
      OBVIOUS
    <3>3. lengths[<<e, d>>] = <<y>> /\ y.round = g.round
      BY <2>1, <2>2, <3>2 DEF LengthAt, LengthOf
    <3> QED BY <1>4, <3>1, <3>3 DEF RoundsIn
  <2>3. CASE ~LengthDue(g, e, d)
    <3>1. lengths[<<e, d>>] = <<>>
      BY <2>1, <2>3 DEF LengthAt
    <3> QED BY <3>1 DEF RoundsIn
  <2> QED BY <2>2, <2>3
<1>6. ASSUME NEW e \in Domain PROVE RoundsIn(nodeBufs, <<e, d>>) \subseteq {round[d]}
  <2>1. BufferAt(g, e, d)
    BY DEF Inv, Between
  <2>2. CASE BufferDue(g, e, d)
    <3>1. round[d] = g.round
      BY <1>1, <2>2 DEF BufferDue, HasReceived
    <3>2. PICK b \in Buf : nodeBufs[<<e, d>>] = <<b>> /\ b.round = g.round
      BY <2>1, <2>2 DEF BufferAt, Carries
    <3> QED BY <1>4, <3>1, <3>2 DEF RoundsIn
  <2>3. CASE ~BufferDue(g, e, d)
    <3>1. nodeBufs[<<e, d>>] = <<>>
      BY <2>1, <2>3 DEF BufferAt
    <3> QED BY <3>1 DEF RoundsIn
  <2> QED BY <2>2, <2>3
<1> QED BY <1>2, <1>3, <1>5, <1>6

(* ... makes buffers as long as announced, ...                             *)
LEMMA InvMatchesLengths ==
  ASSUME NEW g \in Move, Inv(g)
  PROVE  LengthMatchesBuffer
<1> SUFFICES ASSUME NEW d \in Domain, pc[d] = "nodes", NEW k \in DOMAIN recvBuf[d]
             PROVE  Len(recvBuf[d][k].nodes) = recvLen[d][k].msg.len
  BY DEF LengthMatchesBuffer
<1>1. Stage(g, d) = "nodes" /\ ~HasReceived(g, d)
  BY StageFacts DEF HasReceived
<1>2. RecvBufAt(g, d) /\ RecvLenAt(g, d)
  BY DEF Inv, Local
<1>3. PICK q : q = recvBuf[d][k].nodes
  OBVIOUS
<1>4. /\ k \in DOMAIN recvLen[d] /\ q \in Seq(Item) /\ Lists(g, q)
      /\ NodesIn(q) = Leaving(g, recvLen[d][k].from, d)
  BY <1>1, <1>2, <1>3 DEF RecvBufAt, Buf
<1>5. recvLen[d][k].msg = LengthOf(g, recvLen[d][k].from, d)
  BY <1>1, <1>2, <1>4 DEF RecvLenAt
<1>6. Len(q) = Cardinality(Leaving(g, recvLen[d][k].from, d))
  BY <1>4, ListsCount
<1> QED BY <1>3, <1>5, <1>6 DEF LengthOf

(* ... bounds tags, maps, rounds and positions, ...                        *)
LEMMA InvIsTyped ==
  ASSUME NEW g \in Move, Inv(g)
  PROVE  TypeOK
<1>1. Shape /\ MapsSound(g)
  BY DEF Inv
<1>2. ASSUME NEW d \in Domain
      PROVE  /\ DOMAIN nodeKeys[d] \subseteq 0 .. Cardinality(Node) - 1
             /\ Native(d) \subseteq Node
             /\ tagMap[d] \subseteq [old : Tag, new : Tag]
             /\ mapsFrom[d] \subseteq Domain
  <2>1. nodeKeys[d] \in Keys
    BY <1>1 DEF Shape
  <2>2. DOMAIN nodeKeys[d] \subseteq 0 .. Cardinality(Node) - 1 /\ Native(d) \subseteq Node
    BY <2>1 DEF Keys, Index, Native
  <2>3. tagMap[d] \subseteq [old : Tag, new : Tag]
    BY <1>1 DEF MapsSound, Sound
  <2>4. mapsFrom[d] \subseteq Domain
    BY DEF Inv, Local, TagMapAt, RemoteDomains
  <2> QED BY <2>2, <2>3, <2>4
<1>3. round \in [Domain -> 0 .. Len(schedule)]
  <2>1. g.round \in Nat /\ Len(schedule) \in Nat /\ g.round < Len(schedule)
    BY MoveFacts
  <2>2. \A d \in Domain : round[d] = g.round \/ round[d] = g.round + 1
    BY DEF Inv, Local, RoundAt
  <2>3. \A d \in Domain : round[d] \in 0 .. Len(schedule)
    BY <2>1, <2>2
  <2> QED BY <1>1, <2>3 DEF Shape
<1>4. pc \in [Domain -> {"step", "reduce", "lengths", "nodes", "unpack", "maps"}]
  BY <1>1 DEF Shape, Stages
<1> QED BY <1>1, <1>2, <1>3, <1>4, MoveFacts DEF TypeOK, Shape

(* ... and gives each old tag one new one, which every remapped arm holds. *)
LEMMA InvResolvesTags ==
  ASSUME NEW g \in Move, Inv(g)
  PROVE  TagsResolve
<1>1. OldTagsUnique
  <2> SUFFICES ASSUME NEW d \in Domain, NEW e \in Domain,
                      NEW p \in tagMap[d], NEW q \in tagMap[e], p.old = q.old
               PROVE  p = q
    BY DEF OldTagsUnique
  <2>1. /\ p \in [old : Tag, new : Tag]
        /\ \E n \in Node : p.old = g.tag[n] /\ Settled(g, n, p.new)
    BY DEF Inv, MapsSound, Sound
  <2>2. /\ q \in [old : Tag, new : Tag]
        /\ \E n \in Node : q.old = g.tag[n] /\ Settled(g, n, q.new)
    BY DEF Inv, MapsSound, Sound
  <2>3. PICK n \in Node : p.old = g.tag[n] /\ Settled(g, n, p.new)
    BY <2>1
  <2>4. Settled(g, n, q.new)
    BY <2>2, <2>3, MoveFacts
  <2>5. PICK s \in Tag, t \in Tag : s = p.new /\ t = q.new
    BY <2>1, <2>2
  <2>6. /\ s[1] = g.to[n] /\ t[1] = g.to[n] /\ Has(g.to[n], s[2], n) /\ Has(g.to[n], t[2], n)
    BY <2>3, <2>4, <2>5 DEF Settled
  <2>7. KeysAt(g, g.to[n])
    BY MoveFacts DEF Inv, Local
  <2>8. s[2] = t[2]
    BY <2>6, <2>7 DEF KeysAt, Has
  <2>9. s = <<s[1], s[2]>> /\ t = <<t[1], t[2]>>
    BY DEF Tag
  <2>10. p.new = q.new
    BY <2>5, <2>6, <2>8, <2>9
  <2>11. p = [old |-> p.old, new |-> p.new] /\ q = [old |-> q.old, new |-> q.new]
    BY <2>1, <2>2
  <2> QED BY <2>10, <2>11
<1>2. ArmsResolve
  <2> SUFFICES ASSUME NEW d \in Domain, pc[d] = "step",
                      NEW n \in Native(d), NEW m \in Nbrs(n)
               PROVE  /\ arms[n][m][2] \in DOMAIN nodeKeys[arms[n][m][1]]
                      /\ nodeKeys[arms[n][m][1]][arms[n][m][2]] = m
    BY DEF ArmsResolve
  <2>1. IsDone(g, d) /\ HasReceived(g, d)
    BY StageFacts DEF IsDone, HasReceived
  <2>2. n \in Node /\ \E i \in Index : Has(d, i, n)
    <3>1. nodeKeys[d] \in Keys
      BY DEF Inv, Shape
    <3> QED BY <3>1 DEF Native, Keys, Has
  <2>3. g.to[n] = d
    BY <2>1, <2>2 DEF Inv, Local, KeysAt, Here
  <2>4. Settled(g, m, arms[n][m])
    BY <2>1, <2>2, <2>3 DEF Inv, ArmsFit
  <2> QED BY <2>4 DEF Settled, Has
<1> QED BY <1>1, <1>2 DEF TagsResolve
-----------------------------------------------------------------------------
(* The invariant holds of every domain and message order.                  *)
LEMMA AlwaysMigrationInv == Spec => []MigrationInv
<1>1. Init => MigrationInv
  BY InitHasInv
<1>2. MigrationInv /\ [Next]_vars => MigrationInv'
  BY NextKeepsInv
<1> QED BY <1>1, <1>2, PTL DEF Spec

(* Tags, maps, rounds and positions stay within their types.               *)
THEOREM MigrationTyped == Spec => []TypeOK
<1>1. MigrationInv => TypeOK
  BY InvIsTyped DEF MigrationInv
<1> QED BY <1>1, AlwaysMigrationInv, PTL

(* No migration loses or doubles a node, mixes the messages of two rounds  *)
(* or receives a buffer into a space of another length.                    *)
THEOREM NodesArriveOnce == Spec => []NodesArrive
<1>1. MigrationInv => NodesArrive
  BY InvConservesNodes, InvKeepsRoundsApart, InvMatchesLengths
     DEF MigrationInv, NodesArrive
<1> QED BY <1>1, AlwaysMigrationInv, PTL

(* The maps of old tags never have two answers, and after the remapping    *)
(* every arm holds the tag of the node it leads to.                        *)
THEOREM ArmsLeadHome == Spec => []TagsResolve
<1>1. MigrationInv => TagsResolve
  BY InvResolvesTags DEF MigrationInv
<1> QED BY <1>1, AlwaysMigrationInv, PTL
=============================================================================
