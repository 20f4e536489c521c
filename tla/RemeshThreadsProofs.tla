-------------------------- MODULE RemeshThreadsProofs --------------------------
(***************************************************************************)
(* Proofs about RemeshThreads, for every set of threads and every network: *)
(* an entry that ProceedWithCoarsen has let through stays as it was read   *)
(* until it has merged, whatever the other threads do, and the marks of    *)
(* the second loop cover every node whose links the first has changed.     *)
(*                                                                         *)
(* The argument of the first: an entry not tried yet that has no node in   *)
(* common with a committed one is as it was listed (EntryInv), since a     *)
(* merge touches only links of the three nodes of its entry and of their   *)
(* neighbours (MergedNet, OtherEntry).  Of the second: each new link joins *)
(* the neighbours of a committed entry or ends at its node, which then is  *)
(* marked for good (ForceInv).  SplitNode finds a free tag because the     *)
(* segments still to be split fit beside the nodes (RoomInv).              *)
(***************************************************************************)
EXTENDS RemeshThreads, TLAPS, FiniteSetTheorems, WellFoundedInduction

-----------------------------------------------------------------------------
(* The invariants.                                                         *)

\* The network has links with two ends.
NetInv ==
  /\ setup \in Setups
  /\ DOMAIN net \subseteq Node
  /\ \A n \in DOMAIN net : /\ net[n] \subseteq DOMAIN net \ {n}
                           /\ \A m \in net[n] : n \in net[m]
  /\ reset \subseteq Node /\ exempt \subseteq Node

Entry == [nbr1 : Node, nbr2 : Node, status : {"PENDING", "COMMITTED", "REJECTED"}]
ListInv ==
  /\ DOMAIN coarsen \subseteq Node /\ coarsen \in [DOMAIN coarsen -> Entry]
  /\ \A n \in DOMAIN coarsen : n # coarsen[n].nbr1 /\ n # coarsen[n].nbr2
                               /\ coarsen[n].nbr1 # coarsen[n].nbr2 /\ ~Remote(n)
  /\ DOMAIN refine \subseteq setup.refine
  /\ refine \in [DOMAIN refine -> Node \cup {NoNode}]
  /\ phase \in {"coarsen", "mark"} => todo \subseteq DOMAIN coarsen
  /\ phase = "coarsen" => \A n \in todo : coarsen[n].status = "PENDING"
  /\ phase = "refine" => /\ todo \subseteq DOMAIN refine
                         /\ \A p \in todo : refine[p] = NoNode
                         /\ \A p \in DOMAIN refine : Exists(p[1])
  /\ phase = "forces" => todo \subseteq DOMAIN refine

\* What a thread is at, and that no two are at the same entry.
PreMerge(t) == worker[t].pc \in {"read", "estimated", "merging"}
Locking(t)  == worker[t].pc \in {"locked1", "locked2"}
WorkerOK(t) ==
  /\ \/ worker[t] = Idle
     \/ phase = "coarsen" /\ (PreMerge(t) \/ worker[t].pc = "merged")
     \/ phase = "refine" /\ Locking(t)
  /\ PreMerge(t) \/ worker[t].pc = "merged" =>
       worker[t].node \in DOMAIN coarsen \ todo /\ Committed(worker[t].node)
  /\ worker[t].pc = "merging" =>
       worker[t].readReset \subseteq Node /\ worker[t].readExempt \subseteq Node
  /\ worker[t].pc = "merged" =>
       LET e == coarsen[worker[t].node] IN
       /\ worker[t].mergedNode \in Node \cup {NoNode}
       /\ worker[t].mergedNode = NoNode => ~Exists(e.nbr1) \/ ~Exists(e.nbr2)
  /\ Locking(t) => /\ worker[t] \in [pc : {"locked1", "locked2"}, seg : DOMAIN refine \ todo]
                   /\ refine[worker[t].seg] = NoNode
Differ(t, u) ==
  /\ PreMerge(t) /\ PreMerge(u) => worker[t].node # worker[u].node
  /\ Locking(t) /\ Locking(u) => worker[t].seg # worker[u].seg
  /\ ~(worker[t].pc = "merging" /\ worker[u].pc = "merging")
WorkerInv ==
  /\ DOMAIN worker = Thread /\ worker = [t \in Thread |-> worker[t]]
  /\ \A t \in Thread : WorkerOK(t)
  /\ \A t, u \in Thread : t # u => Differ(t, u)

\* Committed entries have no node in common, and an entry that has none
\* in common with a committed one is as it was listed.
Apart(n) == \A m \in DOMAIN coarsen \ {n} :
              Committed(m) => Triple(n) \cap Triple(m) = {}
Untried(n) == n \in todo \/ \E t \in Thread : PreMerge(t) /\ worker[t].node = n
Intact(n) == (\A m \in Triple(n) : Exists(m)) /\ net[n] = Triple(n) \ {n}
EntryInv ==
  /\ phase = "coarsen" =>
       /\ \A n \in DOMAIN coarsen : Committed(n) => Apart(n)
       /\ \A n \in DOMAIN coarsen : Untried(n) /\ Apart(n) => Intact(n)
  /\ \A t \in Thread : worker[t].pc = "estimated" =>
       worker[t].globalOp = GlobalOp(worker[t].node)

\* There is room for a new node for each segment that is still to be split.
Segs == {{p[1], p[2]} : p \in setup.refine}
Unsplit == {p \in DOMAIN refine : refine[p] = NoNode}
Coarsening == phase \in {"coarsenList", "coarsen", "mark"}
RoomInv ==
  Cardinality(DOMAIN net) + Cardinality(IF Coarsening THEN Segs ELSE Unsplit) <= MaxNode

\* A new link joins the neighbours of a committed entry; or it is one of the
\* node of an entry that has taken the place of a neighbour, and is marked.
Marked(e) == e \in reset /\ \A t \in Thread :
                worker[t].pc = "merging" => e \in worker[t].readReset
Cause(e, n, x) ==
  /\ Committed(e)
  /\ \/ {n, x} = {coarsen[e].nbr1, coarsen[e].nbr2}
     \/ /\ e \in {n, x} /\ Marked(e)
        /\ ~Exists(coarsen[e].nbr1) \/ ~Exists(coarsen[e].nbr2)
MarksOf(e) ==
  LET ends == EndsOf(coarsen[e], e) IN
  IF Exists(ends[1]) /\ Exists(ends[2])
  THEN AndNeighbours(ends[1]) \cup AndNeighbours(ends[2]) ELSE {}
ForceInv ==
  /\ phase = "coarsenList" => net = setup.net
  /\ phase \in {"coarsen", "mark"} =>
       /\ DOMAIN net \subseteq DOMAIN setup.net
       /\ \A n \in DOMAIN net : \A x \in net[n] \ setup.net[n] :
            \E e \in DOMAIN coarsen : Cause(e, n, x)
  /\ phase = "mark" => \A e \in DOMAIN coarsen \ todo :
                        Committed(e) => MarksOf(e) \subseteq reset

IInv == NetInv /\ ListInv /\ WorkerInv /\ EntryInv /\ RoomInv /\ ForceInv

\* What the assumption says of the setup.
LEMMA SetupFacts ==
  ASSUME NetInv
  PROVE  /\ MaxNode \in Nat /\ IsFiniteSet(Node) /\ NoNode \notin Node
         /\ DOMAIN setup.net \subseteq Node
         /\ \A n \in DOMAIN setup.net :
              /\ setup.net[n] \subseteq DOMAIN setup.net \ {n}
              /\ \A m \in setup.net[n] : n \in setup.net[m]
         /\ setup.refine \subseteq Node \X Node
         /\ IsFiniteSet(setup.refine) /\ IsFiniteSet(Segs) /\ Cardinality(Segs) \in Nat
         /\ Cardinality(DOMAIN setup.net) + Cardinality(Segs) <= MaxNode
<1>1. MaxNode \in Nat /\ setup \in Setups
  BY SetupsAssumption DEF NetInv
<1>2. IsFiniteSet(Node)
  BY <1>1, FS_Interval DEF Node
<1>3. setup.refine \subseteq Node \X Node
  BY <1>1, SetupsAssumption
<1>4. IsFiniteSet(setup.refine)
  BY <1>2, <1>3, FS_Product, FS_Subset
<1>5. IsFiniteSet(Segs)
  <2>1. Segs \in SUBSET (SUBSET Node)
    BY <1>3 DEF Segs
  <2> QED BY <1>2, <2>1, FS_SUBSET, FS_Subset
<1>6. NoNode \notin Node
  BY DEF NoNode, Node
<1>7. Cardinality(DOMAIN setup.net) + Cardinality(Segs) <= MaxNode
  BY <1>1, SetupsAssumption DEF Segs
<1> QED BY <1>1, <1>2, <1>3, <1>4, <1>5, <1>6, <1>7, FS_CardinalityType, SetupsAssumption

\* A node with two arms, by the one and the other.
LEMMA TwoArms ==
  ASSUME NEW S, IsFiniteSet(S), Cardinality(S) = 2, NEW a \in S
  PROVE  LET b == CHOOSE m \in S : m # a IN b \in S /\ b # a /\ S = {a, b}
<1>1. IsFiniteSet(S \ {a}) /\ Cardinality(S \ {a}) = 1
  BY FS_RemoveElement
<1>2. PICK c : S \ {a} = {c}
  BY <1>1, FS_Singleton
<1>3. c \in S /\ c # a /\ S = {a, c}
  BY <1>2
<1> QED BY <1>3

\* The nodes of an entry.
LEMMA EntryFacts ==
  ASSUME ListInv, NEW n \in DOMAIN coarsen
  PROVE  /\ n \in Node /\ coarsen[n] \in Entry
         /\ coarsen[n].nbr1 \in Node /\ coarsen[n].nbr2 \in Node
         /\ Triple(n) \subseteq Node /\ n \in Triple(n)
         /\ Triple(n) \ {n} = {coarsen[n].nbr1, coarsen[n].nbr2}
         /\ coarsen[n].nbr1 # coarsen[n].nbr2 /\ ~Remote(n)
BY DEF ListInv, Entry, Triple

\* A thread goes on, the others stay.
LEMMA Becomes ==
  ASSUME WorkerInv, NEW t \in Thread, NEW w, Become(t, w)
  PROVE  /\ DOMAIN worker' = Thread /\ worker' = [u \in Thread |-> worker'[u]]
         /\ worker'[t] = w
         /\ \A u \in Thread : u # t => worker'[u] = worker[u]
BY DEF WorkerInv, Become

\* The inductive invariant holds when the remeshing begins.
LEMMA InitInv == Init => IInv
<1> SUFFICES ASSUME Init PROVE IInv
  OBVIOUS
<1>1. NetInv
  BY SetupsAssumption DEF Init, NetInv
<1>2. DOMAIN coarsen = {} /\ DOMAIN refine = {}
  BY DEF Init
<1>3. ListInv
  BY <1>2 DEF Init, ListInv
<1>4. WorkerInv
  BY DEF Init, WorkerInv, WorkerOK, Differ, PreMerge, Locking, Idle
<1>5. EntryInv
  BY DEF Init, EntryInv, Idle
<1>6. RoomInv
  BY <1>1, SetupFacts DEF Init, RoomInv, Coarsening
<1>7. ForceInv
  BY DEF Init, ForceInv
<1> QED BY <1>1, <1>3, <1>4, <1>5, <1>6, <1>7 DEF IInv

\* The list of the coarsening: every entry has the two neighbours of its node.
LEMMA ListCoarsenStep == ASSUME IInv, ListCoarsen PROVE IInv'
<1>1. PICK S \in SUBSET {n \in DOMAIN net : Coarsenable(n)} :
        \E arm0 \in [S -> Node] :
          /\ \A n \in S : arm0[n] \in net[n]
          /\ coarsen' = [n \in S |->
               [nbr1 |-> arm0[n], nbr2 |-> CHOOSE m \in net[n] : m # arm0[n],
                status |-> "PENDING"]]
          /\ Begin("coarsen", S)
  BY DEF ListCoarsen
<1>2. PICK arm0 \in [S -> Node] :
        /\ \A n \in S : arm0[n] \in net[n]
        /\ coarsen' = [n \in S |->
             [nbr1 |-> arm0[n], nbr2 |-> CHOOSE m \in net[n] : m # arm0[n],
              status |-> "PENDING"]]
        /\ Begin("coarsen", S)
  BY <1>1
<1>3. /\ phase = "coarsenList" /\ phase' = "coarsen" /\ todo' = S
      /\ UNCHANGED <<setup, net, reset, exempt, refine, worker>>
  BY <1>2 DEF ListCoarsen, Begin
<1>4. NetInv /\ ListInv /\ WorkerInv /\ RoomInv /\ ForceInv
  BY DEF IInv
<1>5. ASSUME NEW n \in S
      PROVE  /\ n \in Node /\ coarsen'[n] \in Entry /\ coarsen'[n].status = "PENDING"
             /\ n # coarsen'[n].nbr1 /\ n # coarsen'[n].nbr2
             /\ coarsen'[n].nbr1 # coarsen'[n].nbr2
             /\ net[n] = {coarsen'[n].nbr1, coarsen'[n].nbr2}
             /\ net[n] \subseteq DOMAIN net /\ n \in DOMAIN net /\ ~Remote(n)
  <2>1. n \in DOMAIN net /\ ~Remote(n) /\ Cardinality(net[n]) = 2 /\ net[n] \subseteq DOMAIN net \ {n}
        /\ DOMAIN net \subseteq Node
    BY <1>4 DEF Coarsenable, NetInv
  <2>2. IsFiniteSet(net[n])
    BY <1>4, <2>1, SetupFacts, FS_Subset
  <2> DEFINE b == CHOOSE m \in net[n] : m # arm0[n]
  <2>3. b \in net[n] /\ b # arm0[n] /\ net[n] = {arm0[n], b}
    BY <1>2, <2>1, <2>2, TwoArms
  <2>4. coarsen'[n] = [nbr1 |-> arm0[n], nbr2 |-> b, status |-> "PENDING"]
    BY <1>2
  <2> HIDE DEF b
  <2> QED BY <1>2, <2>1, <2>3, <2>4 DEF Entry
<1>6. DOMAIN coarsen' = S /\ coarsen' = [n \in S |-> coarsen'[n]]
  BY <1>2
<1>7. \A t \in Thread : worker[t] = Idle
  BY <1>3, <1>4 DEF WorkerInv, WorkerOK, PreMerge, Locking
<1>8. NetInv'
  BY <1>3, <1>4 DEF NetInv
<1>9. ListInv'
  <2>1. coarsen' \in [S -> Entry]
    BY <1>5, <1>6
  <2>2. DOMAIN refine \subseteq setup.refine /\ refine \in [DOMAIN refine -> Node \cup {NoNode}]
    BY <1>4 DEF ListInv
  <2> QED BY <1>3, <1>5, <1>6, <2>1, <2>2 DEF ListInv, Remote, Exists
<1>10. WorkerInv'
  BY <1>3, <1>4, <1>7 DEF WorkerInv, WorkerOK, Differ, PreMerge, Locking, Idle
<1>11. EntryInv'
  <2>1. ASSUME NEW n \in S PROVE ~Committed(n)' /\ Intact(n)'
    <3>1. Triple(n)' = {n, coarsen'[n].nbr1, coarsen'[n].nbr2}
      BY DEF Triple
    <3> QED BY <1>3, <1>5, <3>1 DEF Committed, Intact, Exists
  <2> QED BY <1>3, <1>6, <1>7, <2>1 DEF EntryInv, Idle
<1>12. RoomInv'
  BY <1>3, <1>4 DEF RoomInv, Coarsening, Segs
<1>13. ForceInv'
  BY <1>3, <1>4 DEF ForceInv
<1> QED BY <1>8, <1>9, <1>10, <1>11, <1>12, <1>13 DEF IInv

\* Where a thread is depends on its own position, the lists and the phase.
LEMMA StaysOK ==
  ASSUME NEW u, WorkerOK(u), worker'[u] = worker[u], phase' = phase,
         DOMAIN coarsen' = DOMAIN coarsen,
         \A n \in DOMAIN coarsen : /\ coarsen'[n].nbr1 = coarsen[n].nbr1
                                   /\ coarsen'[n].nbr2 = coarsen[n].nbr2
                                   /\ Committed(n) => Committed(n)',
         DOMAIN net' \subseteq DOMAIN net \/ phase # "coarsen",
         DOMAIN refine' = DOMAIN refine,
         Locking(u) => refine'[worker[u].seg] = refine[worker[u].seg],
         todo' \subseteq todo
  PROVE  WorkerOK(u)'
<1>1. (PreMerge(u)' <=> PreMerge(u)) /\ (Locking(u)' <=> Locking(u))
  BY DEF PreMerge, Locking
<1>2. PreMerge(u) \/ worker[u].pc = "merged" =>
        worker[u].node \in DOMAIN coarsen' \ todo' /\ Committed(worker[u].node)'
  BY DEF WorkerOK
<1>3. worker[u].pc = "merged" =>
        /\ worker[u].mergedNode \in Node \cup {NoNode}
        /\ worker[u].mergedNode = NoNode =>
             \/ ~(coarsen'[worker[u].node].nbr1 \in DOMAIN net')
             \/ ~(coarsen'[worker[u].node].nbr2 \in DOMAIN net')
  <2>1. SUFFICES ASSUME worker[u].pc = "merged"
        PROVE  /\ worker[u].mergedNode \in Node \cup {NoNode}
               /\ worker[u].mergedNode = NoNode =>
                    \/ ~(coarsen'[worker[u].node].nbr1 \in DOMAIN net')
                    \/ ~(coarsen'[worker[u].node].nbr2 \in DOMAIN net')
    OBVIOUS
  <2>2. phase = "coarsen" /\ worker[u].node \in DOMAIN coarsen
    BY <2>1 DEF WorkerOK, Idle, Locking
  <2> QED BY <2>1, <2>2 DEF WorkerOK, Exists
<1>4. Locking(u) => /\ worker[u] \in [pc : {"locked1", "locked2"}, seg : DOMAIN refine' \ todo']
                    /\ refine'[worker[u].seg] = NoNode
  <2>1. SUFFICES ASSUME Locking(u)
        PROVE  /\ worker[u] \in [pc : {"locked1", "locked2"}, seg : DOMAIN refine' \ todo']
               /\ refine'[worker[u].seg] = NoNode
    OBVIOUS
  <2>2. worker[u] \in [pc : {"locked1", "locked2"}, seg : DOMAIN refine \ todo]
        /\ refine[worker[u].seg] = NoNode
    BY <2>1 DEF WorkerOK
  <2> QED BY <2>1, <2>2
<1>5. /\ \/ worker[u] = Idle
         \/ phase = "coarsen" /\ (PreMerge(u) \/ worker[u].pc = "merged")
         \/ phase = "refine" /\ Locking(u)
      /\ worker[u].pc = "merging" =>
           worker[u].readReset \subseteq Node /\ worker[u].readExempt \subseteq Node
  BY DEF WorkerOK
<1> QED BY <1>1, <1>2, <1>3, <1>4, <1>5 DEF WorkerOK, Exists

\* What does not change while the network and the entries stay as they are.
LEMMA SameNet ==
  ASSUME UNCHANGED <<setup, net, coarsen>>
  PROVE  \A n : /\ Triple(n)' = Triple(n) /\ (Committed(n)' <=> Committed(n))
                /\ (Exists(n)' <=> Exists(n)) /\ GlobalOp(n)' = GlobalOp(n)
                /\ (Intact(n)' <=> Intact(n)) /\ (Apart(n)' <=> Apart(n))
<1>1. \A n : /\ Triple(n)' = Triple(n) /\ (Committed(n)' <=> Committed(n))
             /\ (Exists(n)' <=> Exists(n)) /\ (Remote(n)' <=> Remote(n))
  BY DEF Triple, Committed, Exists, Remote
<1>2. \A n : Intact(n)' <=> Intact(n)
  BY <1>1 DEF Intact
<1>3. \A n : Apart(n)' <=> Apart(n)
  BY <1>1 DEF Apart
<1>4. ASSUME NEW n PROVE GlobalOp(n)' = GlobalOp(n)
  BY <1>1 DEF GlobalOp
<1> QED BY <1>1, <1>2, <1>3, <1>4

\* An entry is committed if it has no node in common with a committed one.
LEMMA CommitStep ==
  ASSUME IInv, NEW t \in Thread, CommitOrReject(t)
  PROVE  IInv'
<1>1. PICK n \in todo :
        /\ todo' = todo \ {n}
        /\ \/ /\ ProceedWithCoarsen(n)
              /\ coarsen' = [coarsen EXCEPT ![n].status = "COMMITTED"]
              /\ Become(t, [pc |-> "read", node |-> n])
           \/ /\ ~ProceedWithCoarsen(n)
              /\ coarsen' = [coarsen EXCEPT ![n].status = "REJECTED"]
              /\ UNCHANGED worker
  BY DEF CommitOrReject
<1>2. /\ phase = "coarsen" /\ worker[t] = Idle
      /\ UNCHANGED <<setup, net, reset, exempt, phase, refine>>
  BY DEF CommitOrReject
<1>3. NetInv /\ ListInv /\ WorkerInv /\ EntryInv /\ RoomInv /\ ForceInv
  BY DEF IInv
<1>4. n \in DOMAIN coarsen /\ coarsen[n].status = "PENDING" /\ coarsen \in [DOMAIN coarsen -> Entry]
  BY <1>1, <1>2, <1>3 DEF ListInv
<1>5. PICK st \in {"COMMITTED", "REJECTED"} :
        /\ coarsen' = [coarsen EXCEPT ![n].status = st]
        /\ st = "COMMITTED" <=> ProceedWithCoarsen(n)
        /\ st = "COMMITTED" => Become(t, [pc |-> "read", node |-> n])
        /\ st = "REJECTED" => UNCHANGED worker
  BY <1>1
<1>6. /\ DOMAIN coarsen' = DOMAIN coarsen /\ coarsen' \in [DOMAIN coarsen -> Entry]
      /\ \A m \in DOMAIN coarsen : /\ coarsen'[m].nbr1 = coarsen[m].nbr1
                                   /\ coarsen'[m].nbr2 = coarsen[m].nbr2
                                   /\ coarsen'[m].status = (IF m = n THEN st ELSE coarsen[m].status)
  BY <1>4, <1>5 DEF Entry
<1>7. \A m \in DOMAIN coarsen : /\ Triple(m)' = Triple(m)
                                /\ (Committed(m)' <=> IF m = n THEN st = "COMMITTED" ELSE Committed(m))
  BY <1>6 DEF Triple, Committed
<1>8. ~Committed(n)
  BY <1>4 DEF Committed
<1>9. /\ DOMAIN worker' = Thread /\ worker' = [u \in Thread |-> worker'[u]]
      /\ worker'[t] = (IF st = "COMMITTED" THEN [pc |-> "read", node |-> n] ELSE Idle)
      /\ \A u \in Thread : u # t => worker'[u] = worker[u]
  <2>1. CASE st = "COMMITTED"
    <3>1. Become(t, [pc |-> "read", node |-> n])
      BY <1>5, <2>1
    <3> QED BY <1>3, <2>1, <3>1, Becomes
  <2>2. CASE st = "REJECTED"
    BY <1>2, <1>3, <1>5, <2>2 DEF WorkerInv
  <2> QED BY <2>1, <2>2
<1>10. ~PreMerge(t) /\ ~Locking(t)
  BY <1>2 DEF Idle, PreMerge, Locking
<1>11. \A u \in Thread : PreMerge(u) \/ worker[u].pc = "merged" => worker[u].node # n
  BY <1>1, <1>3 DEF WorkerInv, WorkerOK
<1>12. NetInv'
  BY <1>2, <1>3 DEF NetInv
<1>13. ListInv'
  <2>1. \A m \in todo' : m \in todo /\ m # n /\ coarsen'[m].status = "PENDING"
    BY <1>1, <1>2, <1>3, <1>6 DEF ListInv
  <2>2. \A m \in DOMAIN coarsen' : /\ m # coarsen'[m].nbr1 /\ m # coarsen'[m].nbr2
                                   /\ coarsen'[m].nbr1 # coarsen'[m].nbr2 /\ ~Remote(m)
    BY <1>3, <1>6 DEF ListInv
  <2>3. DOMAIN coarsen \subseteq Node /\ DOMAIN refine \subseteq setup.refine
        /\ refine \in [DOMAIN refine -> Node \cup {NoNode}] /\ todo \subseteq DOMAIN coarsen
    BY <1>2, <1>3 DEF ListInv
  <2> QED BY <1>2, <1>6, <2>1, <2>2, <2>3 DEF ListInv, Remote, Exists
<1>14. WorkerInv'
  <2>1. ASSUME NEW u \in Thread PROVE WorkerOK(u)'
    <3>1. CASE worker'[u] = Idle
      BY <3>1 DEF WorkerOK, PreMerge, Locking, Idle
    <3>2. CASE u = t /\ st = "COMMITTED"
      <4>1. worker'[u] = [pc |-> "read", node |-> n]
        BY <1>9, <3>2
      <4>2. PreMerge(u)' /\ ~Locking(u)' /\ worker'[u].pc = "read" /\ worker'[u].node = n
        BY <4>1 DEF PreMerge, Locking
      <4>3. n \in DOMAIN coarsen' \ todo' /\ Committed(n)'
        BY <1>1, <1>4, <1>6, <1>7, <3>2
      <4> QED BY <1>2, <4>2, <4>3 DEF WorkerOK
    <3>3. CASE u # t
      <4>1. WorkerOK(u) /\ worker'[u] = worker[u]
        BY <1>3, <1>9, <3>3 DEF WorkerInv
      <4> QED BY <1>1, <1>2, <1>6, <1>7, <1>8, <4>1, StaysOK
    <3> QED BY <1>9, <3>1, <3>2, <3>3
  <2>2. ASSUME NEW u \in Thread, NEW v \in Thread, u # v
        PROVE  Differ(u, v)'
    <3>1. \A w \in Thread : w # t => /\ (PreMerge(w)' <=> PreMerge(w))
                                     /\ (Locking(w)' <=> Locking(w))
                                     /\ worker'[w] = worker[w]
      BY <1>9 DEF PreMerge, Locking
    <3>2. /\ PreMerge(t)' => worker'[t].node = n
          /\ ~Locking(t)' /\ worker'[t].pc # "merging"
      BY <1>9 DEF PreMerge, Locking, Idle
    <3>3. Differ(u, v)
      BY <1>3, <2>2 DEF WorkerInv
    <3> QED BY <1>11, <2>2, <3>1, <3>2, <3>3 DEF Differ
  <2> QED BY <1>9, <2>1, <2>2 DEF WorkerInv
<1>15. EntryInv'
  <2>1. \A m \in DOMAIN coarsen : Intact(m)' <=> Intact(m)
    BY <1>2, <1>7 DEF Intact, Exists
  <2>2. \A m \in DOMAIN coarsen : Apart(m)' => Apart(m)
    BY <1>6, <1>7, <1>8 DEF Apart
  <2>3. st = "COMMITTED" => \A m \in DOMAIN coarsen : Committed(m) => Triple(n) \cap Triple(m) = {}
    BY <1>5 DEF ProceedWithCoarsen
  <2>4. \A m \in DOMAIN coarsen : Committed(m)' => Apart(m)'
    <3> SUFFICES ASSUME NEW m \in DOMAIN coarsen, Committed(m)',
                        NEW k \in DOMAIN coarsen \ {m}, Committed(k)'
                 PROVE  Triple(m) \cap Triple(k) = {}
      BY <1>6, <1>7 DEF Apart
    <3>1. CASE m = n
      BY <1>7, <2>3, <3>1
    <3>2. CASE k = n
      BY <1>7, <2>3, <3>2
    <3>3. CASE m # n /\ k # n
      BY <1>2, <1>3, <1>7, <3>3 DEF EntryInv, Apart
    <3> QED BY <3>1, <3>2, <3>3
  <2>5. \A m \in DOMAIN coarsen : Untried(m)' => Untried(m)
    <3> SUFFICES ASSUME NEW m \in DOMAIN coarsen, Untried(m)' PROVE Untried(m)
      OBVIOUS
    <3>1. CASE m \in todo'
      BY <1>1, <3>1 DEF Untried
    <3>2. ASSUME NEW u \in Thread, PreMerge(u)', worker'[u].node = m PROVE Untried(m)
      <4>1. CASE u = t
        BY <1>1, <1>9, <3>2, <4>1 DEF Untried, PreMerge, Idle
      <4>2. CASE u # t
        BY <1>9, <3>2, <4>2 DEF Untried, PreMerge
      <4> QED BY <4>1, <4>2
    <3> QED BY <3>1, <3>2 DEF Untried
  <2>6. \A u \in Thread : worker'[u].pc = "estimated" =>
           worker'[u].globalOp = GlobalOp(worker[u].node)'
    <3> SUFFICES ASSUME NEW u \in Thread, worker'[u].pc = "estimated"
                 PROVE  worker'[u].globalOp = GlobalOp(worker[u].node)'
      OBVIOUS
    <3>1. u # t /\ worker'[u] = worker[u]
      BY <1>9 DEF Idle
    <3>2. worker[u].node \in DOMAIN coarsen /\ worker[u].globalOp = GlobalOp(worker[u].node)
      BY <1>3, <3>1 DEF WorkerInv, WorkerOK, EntryInv, PreMerge
    <3>3. \A m : Remote(m)' <=> Remote(m)
      BY <1>2 DEF Remote
    <3>4. ASSUME NEW k \in DOMAIN coarsen PROVE GlobalOp(k)' = GlobalOp(k)
      BY <1>2, <1>7, <3>3 DEF GlobalOp
    <3> QED BY <3>1, <3>2, <3>4
  <2>7. \A m \in DOMAIN coarsen : Untried(m)' /\ Apart(m)' => Intact(m)'
    BY <1>2, <1>3, <2>1, <2>2, <2>5 DEF EntryInv
  <2> QED BY <1>6, <2>4, <2>6, <2>7 DEF EntryInv
<1>16. RoomInv'
  BY <1>2, <1>3 DEF RoomInv, Coarsening, Segs
<1>17. ForceInv'
  <2>1. \A e : Marked(e)' <=> Marked(e)
    <3>1. \A u \in Thread : (worker'[u].pc = "merging" <=> worker[u].pc = "merging")
             /\ (worker[u].pc = "merging" => worker'[u] = worker[u])
      BY <1>2, <1>9 DEF Idle
    <3> QED BY <1>2, <3>1 DEF Marked
  <2>2. ASSUME NEW e \in DOMAIN coarsen, NEW m, NEW x, Cause(e, m, x) PROVE Cause(e, m, x)'
    BY <1>2, <1>6, <1>7, <1>8, <2>1, <2>2 DEF Cause, Exists
  <2> QED BY <1>2, <1>3, <1>6, <2>2 DEF ForceInv
<1> QED BY <1>12, <1>13, <1>14, <1>15, <1>16, <1>17 DEF IInv

\* A thread goes on with its entry, or leaves it, and the network stays.
LEMMA OwnStep ==
  ASSUME IInv, NEW t \in Thread, NEW w, Become(t, w), phase = "coarsen",
         UNCHANGED <<setup, net, phase, todo, lists>>,
         reset' \subseteq Node, exempt' \subseteq Node, reset \subseteq reset',
         WorkerOK(t)', ~Locking(t)',
         PreMerge(t)' => PreMerge(t) /\ w.node = worker[t].node,
         w.pc = "merging" => /\ w.readReset = reset
                             /\ \A u \in Thread : worker[u].pc # "merging",
         w.pc = "estimated" => w.globalOp = GlobalOp(w.node)
  PROVE  IInv'
<1>1. NetInv /\ ListInv /\ WorkerInv /\ EntryInv /\ RoomInv /\ ForceInv
  BY DEF IInv
<1>2. /\ DOMAIN worker' = Thread /\ worker' = [u \in Thread |-> worker'[u]]
      /\ worker'[t] = w
      /\ \A u \in Thread : u # t => worker'[u] = worker[u]
  BY <1>1, Becomes
<1>3. NetInv'
  BY <1>1 DEF NetInv
<1>4. ListInv' /\ RoomInv'
  BY <1>1 DEF ListInv, Remote, Exists, RoomInv, Segs, Unsplit, Coarsening, lists
<1>5. WorkerInv'
  <2>1. ASSUME NEW u \in Thread PROVE WorkerOK(u)'
    <3>1. CASE u # t
      <4>1. WorkerOK(u) /\ worker'[u] = worker[u]
        BY <1>1, <1>2, <3>1 DEF WorkerInv
      <4> QED BY <4>1, StaysOK DEF lists, Committed
    <3> QED BY <3>1
  <2>2. ASSUME NEW u \in Thread, NEW v \in Thread, u # v PROVE Differ(u, v)'
    <3>1. \A x \in Thread : x # t => /\ (PreMerge(x)' <=> PreMerge(x))
                                     /\ (Locking(x)' <=> Locking(x))
                                     /\ worker'[x] = worker[x]
      BY <1>2 DEF PreMerge, Locking
    <3>2. Differ(u, v)
      BY <1>1, <2>2 DEF WorkerInv
    <3> QED BY <1>2, <2>2, <3>1, <3>2 DEF Differ
  <2> QED BY <1>2, <2>1, <2>2 DEF WorkerInv
<1>6. EntryInv'
  <2>1. \A n : /\ Triple(n)' = Triple(n) /\ (Committed(n)' <=> Committed(n))
               /\ GlobalOp(n)' = GlobalOp(n)
               /\ (Intact(n)' <=> Intact(n)) /\ (Apart(n)' <=> Apart(n))
    BY SameNet DEF lists
  <2>2. ASSUME NEW n, Untried(n)' PROVE Untried(n)
    <3>1. CASE n \in todo'
      BY <3>1 DEF Untried
    <3>2. ASSUME NEW u \in Thread, PreMerge(u)', worker'[u].node = n PROVE Untried(n)
      <4>1. CASE u = t
        BY <1>2, <3>2, <4>1 DEF Untried
      <4>2. CASE u # t
        BY <1>2, <3>2, <4>2 DEF Untried, PreMerge
      <4> QED BY <4>1, <4>2
    <3> QED BY <2>2, <3>1, <3>2 DEF Untried
  <2>3. ASSUME NEW u \in Thread, worker'[u].pc = "estimated"
        PROVE  worker'[u].globalOp = GlobalOp(worker[u].node)'
    <3>1. CASE u # t
      <4>1. worker'[u] = worker[u] /\ worker[u].globalOp = GlobalOp(worker[u].node)
        BY <1>1, <1>2, <2>3, <3>1 DEF EntryInv
      <4> QED BY <2>1, <4>1
    <3>2. CASE u = t
      BY <1>2, <2>1, <2>3, <3>2
    <3> QED BY <3>1, <3>2
  <2> QED BY <1>1, <2>1, <2>2, <2>3 DEF EntryInv, lists
<1>7. ForceInv'
  <2>1. ASSUME NEW e, Marked(e) PROVE Marked(e)'
    <3>1. e \in reset' /\ e \in reset
      BY <2>1 DEF Marked
    <3>2. ASSUME NEW u \in Thread, worker'[u].pc = "merging" PROVE e \in worker'[u].readReset
      <4>1. CASE u = t
        BY <1>2, <3>1, <3>2, <4>1
      <4>2. CASE u # t
        BY <1>2, <2>1, <3>2, <4>2 DEF Marked
      <4> QED BY <4>1, <4>2
    <3> QED BY <3>1, <3>2 DEF Marked
  <2>2. ASSUME NEW e, NEW n, NEW x, Cause(e, n, x) PROVE Cause(e, n, x)'
    BY <2>1, <2>2, SameNet DEF Cause, lists
  <2>3. coarsen' = coarsen
    BY DEF lists
  <2> QED BY <1>1, <2>2, <2>3 DEF ForceInv
<1> QED BY <1>3, <1>4, <1>5, <1>6, <1>7 DEF IInv

\* What holds of a thread that is at an entry.
LEMMA AtEntry ==
  ASSUME IInv, NEW t \in Thread, PreMerge(t) \/ worker[t].pc = "merged"
  PROVE  /\ phase = "coarsen"
         /\ worker[t].node \in DOMAIN coarsen \ todo /\ Committed(worker[t].node)
         /\ PreMerge(t) => Apart(worker[t].node) /\ Intact(worker[t].node)
<1>1. WorkerOK(t)
  BY DEF IInv, WorkerInv
<1>2. /\ phase = "coarsen"
      /\ worker[t].node \in DOMAIN coarsen \ todo /\ Committed(worker[t].node)
  BY <1>1 DEF WorkerOK, Idle, Locking, PreMerge
<1>3. PreMerge(t) => Untried(worker[t].node)
  BY DEF Untried
<1> QED BY <1>2, <1>3 DEF IInv, EntryInv

\* An idle thread is as it should be.
LEMMA IdleOK ==
  ASSUME NEW t, worker'[t] = Idle
  PROVE  WorkerOK(t)' /\ ~Locking(t)' /\ ~PreMerge(t)'
BY DEF WorkerOK, Locking, PreMerge, Idle

\* The structures are looked up and globalOp is decided.
LEMMA ReadNeighboursStep ==
  ASSUME IInv, NEW t \in Thread, ReadNeighbours(t)
  PROVE  IInv'
<1> DEFINE n == worker[t].node
<1>1. PICK allowed \in SUBSET (Triple(n) \ {n}) :
        Become(t, IF allowed = {} \/ \E m \in Triple(n) : ~Exists(m) THEN Idle
                  ELSE [pc |-> "estimated", node |-> n, allowed |-> allowed,
                        globalOp |-> GlobalOp(n)])
  BY DEF ReadNeighbours
<1> DEFINE w == IF allowed = {} \/ \E m \in Triple(n) : ~Exists(m) THEN Idle
                ELSE [pc |-> "estimated", node |-> n, allowed |-> allowed,
                      globalOp |-> GlobalOp(n)]
<1>2. PreMerge(t) /\ UNCHANGED <<setup, net, reset, exempt, phase, todo, lists>>
  BY DEF ReadNeighbours, PreMerge
<1>3. phase = "coarsen" /\ n \in DOMAIN coarsen \ todo /\ Committed(n)
  BY <1>2, AtEntry
<1>4. worker'[t] = w
  BY <1>1, Becomes DEF IInv
<1>5. NetInv
  BY DEF IInv
<1>6. reset' \subseteq Node /\ exempt' \subseteq Node /\ reset \subseteq reset'
  BY <1>2, <1>5 DEF NetInv
<1>7. CASE w = Idle
  <2>1. Become(t, Idle) /\ WorkerOK(t)' /\ ~Locking(t)' /\ ~PreMerge(t)'
    BY <1>1, <1>4, <1>7, IdleOK
  <2>2. Idle.pc # "merging" /\ Idle.pc # "estimated"
    BY DEF Idle
  <2> QED BY <1>2, <1>3, <1>6, <2>1, <2>2, OwnStep
<1>8. CASE w # Idle
  <2> DEFINE v == [pc |-> "estimated", node |-> n, allowed |-> allowed,
                   globalOp |-> GlobalOp(n)]
  <2>1. w = v /\ Become(t, v) /\ worker'[t] = v
    BY <1>1, <1>4, <1>8
  <2>2. v.pc = "estimated" /\ v.node = n /\ v.globalOp = GlobalOp(n)
    OBVIOUS
  <2> HIDE DEF v, n, w
  <2>3. PreMerge(t)' /\ ~Locking(t)' /\ worker'[t].pc = "estimated"
    BY <2>1, <2>2 DEF PreMerge, Locking
  <2>4. WorkerOK(t)'
    BY <1>2, <1>3, <2>1, <2>2, <2>3 DEF WorkerOK, lists, Committed
  <2>5. v.node = worker[t].node
    BY <2>2 DEF n
  <2> QED BY <1>2, <1>3, <1>6, <2>1, <2>2, <2>3, <2>4, <2>5, OwnStep
<1> QED BY <1>7, <1>8

\* The critical section is entered, and the flags are read.
LEMMA EnterMergeStep ==
  ASSUME IInv, NEW t \in Thread, EnterMerge(t)
  PROVE  IInv'
<1> DEFINE n == worker[t].node
           w == [pc |-> "merging", node |-> n, allowed |-> worker[t].allowed,
                 readReset |-> reset, readExempt |-> exempt]
<1>1. /\ PreMerge(t) /\ Become(t, w)
      /\ \A u \in Thread : worker[u].pc # "merging"
      /\ UNCHANGED <<setup, net, reset, exempt, phase, todo, lists>>
  BY DEF EnterMerge, PreMerge
<1>2. phase = "coarsen" /\ n \in DOMAIN coarsen \ todo /\ Committed(n)
  BY <1>1, AtEntry
<1>3. worker'[t] = w
  BY <1>1, Becomes DEF IInv
<1>4. w.pc = "merging" /\ w.node = n /\ w.readReset = reset /\ w.readExempt = exempt
  OBVIOUS
<1>5. n = worker[t].node
  OBVIOUS
<1> HIDE DEF w, n
<1>6. reset \subseteq Node /\ exempt \subseteq Node
  BY DEF IInv, NetInv
<1>7. PreMerge(t)' /\ ~Locking(t)' /\ worker'[t].pc = "merging"
  BY <1>3, <1>4 DEF PreMerge, Locking
<1>8. WorkerOK(t)'
  BY <1>1, <1>2, <1>3, <1>4, <1>6, <1>7 DEF WorkerOK, lists, Committed
<1>9. reset' \subseteq Node /\ exempt' \subseteq Node /\ reset \subseteq reset'
  BY <1>1, <1>6
<1> QED BY <1>1, <1>2, <1>3, <1>4, <1>5, <1>7, <1>8, <1>9, OwnStep

\* The forces of the ends are reset, and the node is exempt.
LEMMA ResetEndsStep ==
  ASSUME IInv, NEW t \in Thread, ResetEnds(t)
  PROVE  IInv'
<1> DEFINE n == worker[t].node
           e == coarsen[n]
           ends == EndsOf(e, worker[t].mergedNode)
<1>1. /\ worker[t].pc = "merged" /\ Become(t, Idle)
      /\ UNCHANGED <<setup, net, phase, todo, lists>>
      /\ \/ /\ Exists(ends[1]) /\ Exists(ends[2])
            /\ exempt' = exempt \cup {worker[t].mergedNode}
            /\ reset' = reset \cup {ends[1], ends[2]}
         \/ UNCHANGED <<exempt, reset>>
  BY DEF ResetEnds
<1>2. phase = "coarsen" /\ n \in DOMAIN coarsen
  BY <1>1, AtEntry
<1>3. reset \subseteq Node /\ exempt \subseteq Node /\ DOMAIN net \subseteq Node
  BY DEF IInv, NetInv
<1>4. Exists(ends[1]) /\ Exists(ends[2]) => worker[t].mergedNode \in Node
  <2>1. /\ worker[t].mergedNode \in Node \cup {NoNode}
        /\ worker[t].mergedNode = NoNode => ~Exists(e.nbr1) \/ ~Exists(e.nbr2)
    BY <1>1 DEF IInv, WorkerInv, WorkerOK
  <2>2. ~Exists(NoNode)
    BY <1>3, SetupFacts DEF Exists, IInv
  <2>3. CASE worker[t].mergedNode = NoNode
    <3>1. ends = IF ~Exists(e.nbr1) THEN <<NoNode, e.nbr2>>
                 ELSE IF ~Exists(e.nbr2) THEN <<e.nbr1, NoNode>>
                 ELSE <<e.nbr1, e.nbr2>>
      BY <2>3 DEF EndsOf
    <3> QED BY <2>1, <2>2, <2>3, <3>1
  <2> QED BY <2>1, <2>3
<1>5. reset' \subseteq Node /\ exempt' \subseteq Node /\ reset \subseteq reset'
  <2> HIDE DEF ends
  <2> QED BY <1>1, <1>3, <1>4 DEF Exists
<1>6. WorkerOK(t)' /\ ~Locking(t)' /\ ~PreMerge(t)'
  BY <1>1, Becomes, IdleOK DEF IInv
<1>7. Idle.pc # "merging" /\ Idle.pc # "estimated"
  BY DEF Idle
<1> QED BY <1>1, <1>2, <1>5, <1>6, <1>7, OwnStep

\* The critical section is left without a merge.
LEMMA NoMergeStep ==
  ASSUME IInv, NEW t \in Thread, worker[t].pc = "merging", Become(t, Idle),
         UNCHANGED <<setup, net, reset, exempt, phase, todo, lists>>
  PROVE  IInv'
<1>1. phase = "coarsen"
  BY AtEntry DEF PreMerge
<1>2. reset' \subseteq Node /\ exempt' \subseteq Node /\ reset \subseteq reset'
  BY DEF IInv, NetInv
<1>3. WorkerOK(t)' /\ ~Locking(t)' /\ ~PreMerge(t)'
  BY Becomes, IdleOK DEF IInv
<1>4. Idle.pc # "merging" /\ Idle.pc # "estimated"
  BY DEF Idle
<1> QED BY <1>1, <1>2, <1>3, <1>4, OwnStep

\* The network after a merge: the links of the removed node are the target's.
LEMMA MergedNet ==
  ASSUME NetInv, NEW dead \in DOMAIN net, NEW target \in net[dead],
         NEW cancel \in BOOLEAN, NEW g, g = Unorphaned(Relinked(target, dead, cancel))
  PROVE  /\ DOMAIN g \subseteq DOMAIN net \ {dead}
         /\ \A k \in DOMAIN g : /\ g[k] \subseteq DOMAIN g \ {k}
                                /\ \A x \in g[k] : k \in g[x]
         /\ \A k \in DOMAIN g : \A x \in g[k] \ net[k] :
              \E y \in net[dead] \ {target} : {k, x} = {target, y}
         /\ \A k \in DOMAIN net \ {dead, target} : \A y \in net[k] \ {dead, target} :
              k \in DOMAIN g /\ y \in g[k]
         /\ \A k \in DOMAIN g \ {target} :
              IF k \in net[dead] THEN g[k] \subseteq (net[k] \ {dead}) \cup {target}
              ELSE g[k] = net[k]
<1> DEFINE f == Relinked(target, dead, cancel)
           double == IF cancel THEN net[target] \cap net[dead] ELSE {}
<1>1. /\ DOMAIN f = DOMAIN net \ {dead}
      /\ \A k \in DOMAIN net \ {dead} : f[k] =
           IF k = target THEN (net[k] \cup net[dead]) \ ({target, dead} \cup double)
           ELSE IF k \in double THEN net[k] \ {target, dead}
           ELSE IF dead \in net[k] THEN (net[k] \ {dead}) \cup {target}
           ELSE net[k]
  BY DEF Relinked
<1>2. double \subseteq net[target] \cap net[dead]
  OBVIOUS
<1>3. /\ DOMAIN g = {m \in DOMAIN f : Remote(m) \/ f[m] # {}}
      /\ \A k \in DOMAIN g : g[k] = f[k]
  BY DEF Unorphaned
<1> HIDE DEF f, double
<1>4. \A n \in DOMAIN net : /\ net[n] \subseteq DOMAIN net \ {n}
                            /\ \A m \in net[n] : n \in net[m]
  BY DEF NetInv
<1>5. target \in DOMAIN net \ {dead} /\ dead \in net[target]
  BY <1>4
<1>6. ASSUME NEW k \in DOMAIN f, NEW x \in f[k]
      PROVE  x \in DOMAIN f \ {k} /\ k \in f[x]
  <2>1. CASE k = target
    <3>1. x \in (net[target] \cup net[dead]) \ ({target, dead} \cup double)
      BY <1>1, <1>6, <2>1
    <3>2. x \in DOMAIN net \ {dead, target} /\ x \notin double
      BY <1>4, <1>5, <3>1
    <3>3. CASE dead \in net[x]
      <4>1. f[x] = (net[x] \ {dead}) \cup {target}
        BY <1>1, <3>2, <3>3
      <4> QED BY <1>1, <2>1, <3>2, <4>1
    <3>4. CASE dead \notin net[x]
      <4>1. f[x] = net[x] /\ x \in net[target]
        BY <1>1, <1>4, <3>1, <3>2, <3>4
      <4> QED BY <1>1, <1>4, <1>5, <2>1, <3>2, <4>1
    <3> QED BY <3>3, <3>4
  <2>2. CASE k # target /\ k \in double
    <3>1. f[k] = net[k] \ {target, dead}
      BY <1>1, <1>6, <2>2
    <3>2. x \in net[k] /\ x \in DOMAIN net \ {dead, target, k} /\ k \in net[x] /\ k # dead
      BY <1>1, <1>4, <1>6, <3>1
    <3> QED BY <1>1, <2>2, <3>2
  <2>3. CASE k # target /\ k \notin double /\ dead \in net[k]
    <3>1. f[k] = (net[k] \ {dead}) \cup {target}
      BY <1>1, <1>6, <2>3
    <3>2. k \in DOMAIN net /\ k # dead /\ k \in net[dead]
      BY <1>1, <1>4, <1>6, <2>3
    <3>3. CASE x = target
      <4>1. f[target] = (net[target] \cup net[dead]) \ ({target, dead} \cup double)
        BY <1>1, <1>5
      <4> QED BY <1>1, <1>5, <2>3, <3>2, <3>3, <4>1
    <3>4. CASE x # target
      <4>1. x \in net[k] /\ x # dead /\ x \in DOMAIN net \ {dead, target, k} /\ k \in net[x]
        BY <1>4, <1>6, <3>1, <3>2, <3>4
      <4> QED BY <1>1, <2>3, <3>2, <4>1
    <3> QED BY <3>3, <3>4
  <2>4. CASE k # target /\ k \notin double /\ dead \notin net[k]
    <3>1. f[k] = net[k]
      BY <1>1, <1>6, <2>4
    <3>2. k \in DOMAIN net /\ k # dead /\ x \in DOMAIN net \ {dead, k} /\ k \in net[x] /\ k \notin net[dead]
      BY <1>1, <1>4, <1>6, <2>4, <3>1
    <3>3. CASE x = target
      <4>1. f[target] = (net[target] \cup net[dead]) \ ({target, dead} \cup double)
        BY <1>1, <1>5
      <4> QED BY <1>1, <1>5, <2>4, <3>2, <3>3, <4>1
    <3>4. CASE x # target
      BY <1>1, <2>4, <3>2, <3>4
    <3> QED BY <3>3, <3>4
  <2> QED BY <2>1, <2>2, <2>3, <2>4
<1>7. DOMAIN g \subseteq DOMAIN net \ {dead}
  BY <1>1, <1>3
<1>8. ASSUME NEW k \in DOMAIN g PROVE g[k] \subseteq DOMAIN g \ {k} /\ \A x \in g[k] : k \in g[x]
  <2> SUFFICES ASSUME NEW x \in g[k] PROVE x \in DOMAIN g \ {k} /\ k \in g[x]
    OBVIOUS
  <2>1. x \in DOMAIN f \ {k} /\ k \in f[x]
    BY <1>3, <1>6
  <2> QED BY <1>3, <2>1
<1>9. ASSUME NEW k \in DOMAIN g, NEW x \in g[k] \ net[k]
      PROVE  \E y \in net[dead] \ {target} : {k, x} = {target, y}
  <2>1. k \in DOMAIN net \ {dead} /\ x \in f[k] \ net[k]
    BY <1>1, <1>3
  <2>2. CASE k = target
    <3>1. x \in net[dead] \ {target}
      BY <1>1, <2>1, <2>2
    <3> QED BY <2>2, <3>1
  <2>3. CASE k # target
    <3>1. x = target /\ dead \in net[k]
      BY <1>1, <2>1, <2>3
    <3>2. k \in net[dead] \ {target}
      BY <1>4, <2>1, <2>3, <3>1
    <3> QED BY <3>1, <3>2
  <2> QED BY <2>2, <2>3
<1>10. ASSUME NEW k \in DOMAIN net \ {dead, target}, NEW y \in net[k] \ {dead, target}
       PROVE  k \in DOMAIN g /\ y \in g[k]
  <2>1. y \in f[k]
    BY <1>1
  <2> QED BY <1>1, <1>3, <2>1
<1>11. ASSUME NEW k \in DOMAIN g \ {target}
       PROVE  IF k \in net[dead] THEN g[k] \subseteq (net[k] \ {dead}) \cup {target}
              ELSE g[k] = net[k]
  <2>1. k \in DOMAIN net \ {dead} /\ g[k] = f[k]
    BY <1>1, <1>3
  <2>2. CASE k \in net[dead]
    BY <1>1, <2>1, <2>2
  <2>3. CASE k \notin net[dead]
    BY <1>1, <1>2, <1>4, <2>1, <2>3
  <2> QED BY <2>2, <2>3
<1> QED BY <1>7, <1>8, <1>9, <1>10, <1>11

\* Which node a merge removes, and which it keeps.
LEMMA MergePair ==
  ASSUME IInv, NEW t \in Thread, worker[t].pc = "merging", Partner(t) # NoNode
  PROVE  LET n == worker[t].node
             p == Partner(t)
             dead == Dead(n, p)
             target == Target(n, p)
         IN /\ n \in DOMAIN net /\ p \in net[n] /\ p \in Triple(n) \ {n}
            /\ net[n] = {coarsen[n].nbr1, coarsen[n].nbr2}
            /\ (dead = n /\ target = p) \/ (dead = p /\ target = n)
            /\ dead \in DOMAIN net /\ target \in net[dead] /\ ~Remote(dead)
            /\ target \in DOMAIN net /\ target # dead
<1> DEFINE n == worker[t].node
           p == Partner(t)
           dead == Dead(n, p)
           target == Target(n, p)
<1>1. PreMerge(t)
  BY DEF PreMerge
<1>2. n \in DOMAIN coarsen /\ Intact(n)
  BY <1>1, AtEntry
<1>3. /\ Triple(n) \ {n} = {coarsen[n].nbr1, coarsen[n].nbr2} /\ n \in Triple(n)
  BY <1>2, EntryFacts DEF IInv
<1>4. n \in DOMAIN net /\ net[n] = {coarsen[n].nbr1, coarsen[n].nbr2}
  BY <1>2, <1>3 DEF Intact, Exists
<1>5. p \in {coarsen[n].nbr1, coarsen[n].nbr2} /\ Mergeable(t, p)
  BY DEF Partner
<1>6. p \in net[n] /\ n \in net[p] /\ p \in DOMAIN net /\ p # n
  BY <1>4, <1>5 DEF IInv, NetInv
<1>7. (dead = n /\ target = p) \/ (dead = p /\ target = n)
  BY DEF Dead, Target
<1>8. ~Remote(dead)
  BY <1>5 DEF Mergeable, CanMerge, Deletable
<1> HIDE DEF dead, target, p
<1>9. dead \in DOMAIN net /\ target \in net[dead] /\ target \in DOMAIN net /\ target # dead
  BY <1>4, <1>6, <1>7
<1> QED BY <1>3, <1>4, <1>5, <1>6, <1>7, <1>8, <1>9 DEF dead, target, p

\* An entry that has no node in common with the one merged is left as it is.
LEMMA OtherEntry ==
  ASSUME IInv, NEW n \in DOMAIN coarsen, Committed(n),
         NEW m \in DOMAIN coarsen, m # n, Apart(m), Intact(m), Intact(n),
         NEW dead \in Triple(n), NEW target \in net[dead], target \in Triple(n),
         dead # n => target = n, ~Remote(dead),
         NEW cancel \in BOOLEAN, NEW g, g = Unorphaned(Relinked(target, dead, cancel))
  PROVE  /\ \A k \in Triple(m) : k \in DOMAIN g
         /\ g[m] = net[m]
         /\ \A k \in Triple(m) \ {m} :
              (\E y \in g[k] : Remote(y)) <=> (\E y \in net[k] : Remote(y))
<1>1. NetInv /\ ListInv
  BY DEF IInv
<1>2. Triple(m) \cap Triple(n) = {}
  BY DEF Apart
<1>3. /\ Triple(m) \ {m} = {coarsen[m].nbr1, coarsen[m].nbr2} /\ m \in Triple(m)
      /\ Triple(n) \ {n} = {coarsen[n].nbr1, coarsen[n].nbr2} /\ n \in Triple(n)
      /\ ~Remote(n)
  BY <1>1, EntryFacts
<1>4. \A k \in Triple(m) : k \in DOMAIN net \ {dead, target}
  BY <1>2 DEF Intact, Exists
<1>5. net[m] = Triple(m) \ {m} /\ net[n] = Triple(n) \ {n} /\ dead \in DOMAIN net
  BY DEF Intact, Exists
<1>6. /\ \A k \in DOMAIN net \ {dead, target} : \A y \in net[k] \ {dead, target} :
           k \in DOMAIN g /\ y \in g[k]
      /\ \A k \in DOMAIN g \ {target} :
           IF k \in net[dead] THEN g[k] \subseteq (net[k] \ {dead}) \cup {target}
           ELSE g[k] = net[k]
  BY <1>1, <1>5, MergedNet
<1>7. ASSUME NEW k \in Triple(m) \ {m} PROVE k \in DOMAIN net \ {dead, target} /\ m \in net[k]
  BY <1>1, <1>4, <1>5, <1>3 DEF NetInv
<1>8. ASSUME NEW k \in Triple(m) \ {m} PROVE k \in DOMAIN g /\ m \in g[k]
  <2>1. m \in net[k] \ {dead, target}
    BY <1>3, <1>4, <1>7
  <2> QED BY <1>6, <1>7, <2>1
<1>9. m \in DOMAIN g /\ g[m] = net[m]
  <2>1. coarsen[m].nbr1 \in net[m] \ {dead, target}
    BY <1>3, <1>4, <1>5
  <2>2. m \in DOMAIN g
    BY <1>3, <1>4, <1>6, <2>1
  <2>3. m \notin net[dead]
    BY <1>1, <1>2, <1>4, <1>5 DEF NetInv
  <2> QED BY <1>3, <1>4, <1>6, <2>2, <2>3
<1>10. ASSUME NEW k \in Triple(m) \ {m}
       PROVE  (\E y \in g[k] : Remote(y)) <=> (\E y \in net[k] : Remote(y))
  <2>1. k \in DOMAIN g \ {target} /\ k \in DOMAIN net \ {dead, target}
    BY <1>7, <1>8
  <2>2. CASE k \in net[dead]
    <3>1. dead # n /\ target = n
      BY <1>2, <1>5, <2>2
    <3>2. g[k] \subseteq (net[k] \ {dead}) \cup {target}
      BY <1>6, <2>1, <2>2
    <3>3. ASSUME NEW y \in net[k], Remote(y) PROVE y \in g[k]
      <4>1. y # dead /\ y # target
        BY <1>3, <3>1, <3>3
      <4> QED BY <1>6, <2>1, <4>1
    <3> QED BY <1>3, <3>1, <3>2, <3>3
  <2>3. CASE k \notin net[dead]
    BY <1>6, <2>1, <2>3
  <2> QED BY <2>2, <2>3
<1> QED BY <1>3, <1>8, <1>9, <1>10

\* The node is merged with one of its neighbours.
LEMMA MergeStep ==
  ASSUME IInv, NEW t \in Thread, worker[t].pc = "merging", Partner(t) # NoNode,
         Merge(t), UNCHANGED <<setup, phase, todo, lists>>
  PROVE  IInv'
<1> DEFINE n == worker[t].node
           p == Partner(t)
           dead == Dead(n, p)
           target == Target(n, p)
           merged == IF target \in DOMAIN net' THEN target ELSE NoNode
           w == [pc |-> "merged", node |-> n, mergedNode |-> merged]
<1>1. PICK cancel \in BOOLEAN, late \in SUBSET (net[dead] \ {target}) :
        /\ net' = Unorphaned(Relinked(target, dead, cancel))
        /\ reset' = ((reset \ late) \cup (worker[t].readReset \cap late))
                      \cup (IF net[dead] = {target} THEN {} ELSE {target})
        /\ exempt' = (exempt \ late) \cup (worker[t].readExempt \cap late)
        /\ Become(t, w)
  BY DEF Merge
<1>2. /\ n \in DOMAIN net /\ p \in net[n] /\ p \in Triple(n) \ {n}
      /\ net[n] = {coarsen[n].nbr1, coarsen[n].nbr2}
      /\ (dead = n /\ target = p) \/ (dead = p /\ target = n)
      /\ dead \in DOMAIN net /\ target \in net[dead] /\ ~Remote(dead)
      /\ target \in DOMAIN net /\ target # dead
  BY MergePair
<1>3. w.pc = "merged" /\ w.node = n /\ w.mergedNode = merged
  OBVIOUS
<1>4. n = worker[t].node /\ merged = (IF target \in DOMAIN net' THEN target ELSE NoNode)
  OBVIOUS
<1> HIDE DEF n, p, dead, target, merged, w
<1>5. NetInv /\ ListInv /\ WorkerInv /\ EntryInv /\ RoomInv /\ ForceInv
  BY DEF IInv
<1>6. /\ PreMerge(t) /\ phase = "coarsen" /\ n \in DOMAIN coarsen \ todo /\ Committed(n)
      /\ Apart(n) /\ Intact(n)
  BY <1>4, AtEntry DEF PreMerge
<1>7. /\ Triple(n) \ {n} = {coarsen[n].nbr1, coarsen[n].nbr2} /\ n \in Triple(n)
      /\ coarsen[n].nbr1 # coarsen[n].nbr2 /\ n \in Node /\ ~Remote(n)
  BY <1>5, <1>6, EntryFacts
<1>8. /\ DOMAIN net' \subseteq DOMAIN net \ {dead}
      /\ \A k \in DOMAIN net' : /\ net'[k] \subseteq DOMAIN net' \ {k}
                                /\ \A x \in net'[k] : k \in net'[x]
      /\ \A k \in DOMAIN net' : \A x \in net'[k] \ net[k] :
           \E y \in net[dead] \ {target} : {k, x} = {target, y}
  BY <1>1, <1>2, <1>5, MergedNet
<1>9. setup' = setup /\ phase' = phase /\ todo' = todo /\ coarsen' = coarsen /\ refine' = refine
  BY DEF lists
<1>10. /\ DOMAIN worker' = Thread /\ worker' = [u \in Thread |-> worker'[u]]
       /\ worker'[t] = w
       /\ \A u \in Thread : u # t => worker'[u] = worker[u]
  BY <1>1, <1>5, Becomes
<1>11. \A e : Triple(e)' = Triple(e) /\ (Committed(e)' <=> Committed(e)) /\ (Remote(e)' <=> Remote(e))
  BY <1>9 DEF Triple, Committed, Remote
<1>12. \A e : Apart(e)' <=> Apart(e)
  BY <1>9, <1>11 DEF Apart
<1>13. /\ worker[t].readReset \subseteq Node /\ worker[t].readExempt \subseteq Node
       /\ DOMAIN net \subseteq Node /\ reset \subseteq Node /\ exempt \subseteq Node
  BY <1>5 DEF WorkerInv, WorkerOK, NetInv
<1>14. NetInv'
  <2>1. reset' \subseteq Node /\ exempt' \subseteq Node
    BY <1>1, <1>2, <1>13
  <2>2. setup \in Setups
    BY <1>5 DEF NetInv
  <2> QED BY <1>8, <1>9, <1>13, <2>1, <2>2 DEF NetInv
<1>15. ListInv'
  BY <1>5, <1>6, <1>9 DEF ListInv, Remote, Exists
<1>16. WorkerInv'
  <2>1. ~PreMerge(t)' /\ ~Locking(t)' /\ worker'[t].pc = "merged"
    BY <1>3, <1>10 DEF PreMerge, Locking
  <2>2. WorkerOK(t)'
    <3>1. merged \in Node \cup {NoNode}
      BY <1>2, <1>4, <1>13
    <3>2. merged = NoNode =>
            ~(coarsen[n].nbr1 \in DOMAIN net') \/ ~(coarsen[n].nbr2 \in DOMAIN net')
      <4> SUFFICES ASSUME merged = NoNode
                   PROVE ~(coarsen[n].nbr1 \in DOMAIN net') \/ ~(coarsen[n].nbr2 \in DOMAIN net')
        OBVIOUS
      <4>1. target \notin DOMAIN net'
        BY <1>2, <1>4, <1>13, <1>5, SetupFacts
      <4>2. p \notin DOMAIN net'
        BY <1>2, <1>8, <4>1
      <4> QED BY <1>2, <1>7, <4>2
    <3> QED BY <1>3, <1>6, <1>9, <1>10, <1>11, <2>1, <3>1, <3>2 DEF WorkerOK, Exists
  <2>3. ASSUME NEW u \in Thread, u # t PROVE WorkerOK(u)'
    <3>1. WorkerOK(u) /\ worker'[u] = worker[u]
      BY <1>5, <1>10, <2>3 DEF WorkerInv
    <3> QED BY <1>8, <1>9, <1>11, <3>1, StaysOK
  <2>4. ASSUME NEW u \in Thread, NEW v \in Thread, u # v PROVE Differ(u, v)'
    <3>1. \A x \in Thread : x # t => /\ (PreMerge(x)' <=> PreMerge(x))
                                     /\ (Locking(x)' <=> Locking(x))
                                     /\ worker'[x] = worker[x]
      BY <1>10 DEF PreMerge, Locking
    <3>2. Differ(u, v)
      BY <1>5, <2>4 DEF WorkerInv
    <3> QED BY <2>1, <2>4, <3>1, <3>2 DEF Differ
  <2> QED BY <1>10, <2>2, <2>3, <2>4 DEF WorkerInv
<1>17. ASSUME NEW m \in DOMAIN coarsen, m # n, Apart(m), Intact(m)
       PROVE  Intact(m)' /\ GlobalOp(m)' = GlobalOp(m)
  <2>1. dead \in Triple(n) /\ target \in Triple(n) /\ (dead # n => target = n)
    BY <1>2, <1>7
  <2>2. /\ \A k \in Triple(m) : k \in DOMAIN net'
        /\ net'[m] = net[m]
        /\ \A k \in Triple(m) \ {m} :
             (\E y \in net'[k] : Remote(y)) <=> (\E y \in net[k] : Remote(y))
    BY <1>1, <1>2, <1>6, <1>17, <2>1, OtherEntry
  <2>3. Intact(m)'
    BY <1>11, <1>17, <2>2 DEF Intact, Exists
  <2>4. GlobalOp(m) <=>
          \E k \in Triple(m) \ {m} : Remote(k) \/ \E y \in net[k] : Remote(y)
    BY DEF GlobalOp
  <2>5. GlobalOp(m)' <=>
          \E k \in Triple(m) \ {m} : Remote(k) \/ \E y \in net'[k] : Remote(y)
    BY <1>11 DEF GlobalOp
  <2>6. GlobalOp(m)' <=> GlobalOp(m)
    BY <2>2, <2>4, <2>5
  <2>7. GlobalOp(m) \in BOOLEAN /\ GlobalOp(m)' \in BOOLEAN
    BY DEF GlobalOp
  <2> QED BY <2>3, <2>6, <2>7
<1>18. EntryInv'
  <2>1. ASSUME NEW m \in DOMAIN coarsen, Untried(m)'
        PROVE  Untried(m) /\ m # n
    <3>1. CASE m \in todo'
      BY <1>6, <1>9, <3>1 DEF Untried
    <3>2. ASSUME NEW u \in Thread, PreMerge(u)', worker'[u].node = m
          PROVE  Untried(m) /\ m # n
      <4>1. u # t
        BY <1>3, <1>10, <3>2 DEF PreMerge
      <4>2. worker'[u] = worker[u] /\ PreMerge(u) /\ worker[u].node = m
        BY <1>10, <3>2, <4>1 DEF PreMerge
      <4>3. m # n
        BY <1>4, <1>5, <1>6, <4>1, <4>2 DEF WorkerInv, Differ
      <4> QED BY <4>2, <4>3 DEF Untried
    <3> QED BY <2>1, <3>1, <3>2 DEF Untried
  <2>2. ASSUME NEW m \in DOMAIN coarsen, Untried(m)', Apart(m)'
        PROVE  Intact(m)'
    <3>1. Untried(m) /\ m # n /\ Apart(m)
      BY <1>12, <2>1, <2>2
    <3>2. Intact(m)
      BY <1>5, <1>6, <3>1 DEF EntryInv
    <3> QED BY <1>17, <3>1, <3>2
  <2>3. ASSUME NEW u \in Thread, worker'[u].pc = "estimated"
        PROVE  worker'[u].globalOp = GlobalOp(worker[u].node)'
    <3>1. u # t
      BY <1>3, <1>10, <2>3
    <3>2. worker'[u] = worker[u] /\ worker[u].pc = "estimated" /\ PreMerge(u)
      BY <1>10, <2>3, <3>1 DEF PreMerge
    <3>3. worker[u].node \in DOMAIN coarsen /\ Apart(worker[u].node) /\ Intact(worker[u].node)
      BY <3>2, AtEntry
    <3>4. worker[u].node # n
      BY <1>4, <1>5, <1>6, <3>1, <3>2 DEF WorkerInv, Differ
    <3>5. GlobalOp(worker[u].node)' = GlobalOp(worker[u].node)
      <4>1. PICK k : k = worker[u].node
        OBVIOUS
      <4>2. k \in DOMAIN coarsen /\ Apart(k) /\ Intact(k) /\ k # n
        BY <3>3, <3>4, <4>1
      <4>3. GlobalOp(k)' = GlobalOp(k)
        BY <1>17, <4>2
      <4>4. worker'[u].node = k
        BY <3>2, <4>1
      <4> QED BY <4>1, <4>3, <4>4
    <3> QED BY <1>5, <3>2, <3>5 DEF EntryInv
  <2>4. \A m \in DOMAIN coarsen : Committed(m)' => Apart(m)'
    BY <1>5, <1>6, <1>11, <1>12 DEF EntryInv
  <2> QED BY <1>9, <2>2, <2>3, <2>4 DEF EntryInv
<1>19. RoomInv'
  <2>1. Segs' = Segs /\ IsFiniteSet(Segs)
    BY <1>5, <1>9, SetupFacts DEF Segs
  <2>2. IsFiniteSet(DOMAIN net) /\ MaxNode \in Nat /\ Cardinality(Segs) \in Nat
    BY <1>5, <1>13, SetupFacts, FS_Subset
  <2>3. Cardinality(DOMAIN net') <= Cardinality(DOMAIN net)
        /\ Cardinality(DOMAIN net) \in Nat /\ Cardinality(DOMAIN net') \in Nat
    BY <1>8, <2>2, FS_Subset, FS_CardinalityType
  <2>4. Cardinality(DOMAIN net) + Cardinality(Segs) <= MaxNode
    BY <1>5, <1>6 DEF RoomInv, Coarsening
  <2>5. Coarsening'
    BY <1>6, <1>9 DEF Coarsening
  <2>6. Cardinality(DOMAIN net') + Cardinality(Segs) <= MaxNode
    BY <2>2, <2>3, <2>4
  <2> QED BY <1>9, <2>1, <2>5, <2>6 DEF RoomInv
<1>20. ForceInv'
  <2>1. \A u \in Thread : worker'[u].pc # "merging"
    BY <1>3, <1>5, <1>10 DEF WorkerInv, Differ
  <2>2. ASSUME NEW e, Marked(e) PROVE Marked(e)'
    <3>1. e \in reset /\ e \in worker[t].readReset
      BY <2>2 DEF Marked
    <3> QED BY <1>1, <2>1, <3>1 DEF Marked
  <2>3. ASSUME NEW e \in DOMAIN coarsen, NEW k, NEW x, Cause(e, k, x) PROVE Cause(e, k, x)'
    BY <1>8, <1>9, <1>11, <2>2, <2>3 DEF Cause, Exists
  <2>4. ASSUME NEW k \in DOMAIN net', NEW x \in net'[k] \ net[k], NEW e, e = n
        PROVE  Cause(e, k, x)'
    <3>1. PICK y \in net[dead] \ {target} : {k, x} = {target, y}
      BY <1>8, <2>4
    <3>2. CASE dead = n
      <4>1. {k, x} = {coarsen[n].nbr1, coarsen[n].nbr2}
        BY <1>2, <3>1, <3>2
      <4> QED BY <1>6, <1>9, <1>11, <2>4, <4>1 DEF Cause
    <3>3. CASE dead = p /\ target = n
      <4>1. e \in {k, x}
        BY <2>4, <3>1, <3>3
      <4>2. Marked(e)'
        BY <1>1, <2>1, <2>4, <3>1, <3>3 DEF Marked
      <4>3. ~(coarsen[n].nbr1 \in DOMAIN net') \/ ~(coarsen[n].nbr2 \in DOMAIN net')
        BY <1>2, <1>8, <3>3
      <4> QED BY <1>6, <1>9, <1>11, <2>4, <4>1, <4>2, <4>3 DEF Cause, Exists
    <3> QED BY <1>2, <3>2, <3>3
  <2>5. /\ DOMAIN net \subseteq DOMAIN setup.net
        /\ \A k \in DOMAIN net : \A x \in net[k] \ setup.net[k] :
             \E e \in DOMAIN coarsen : Cause(e, k, x)
    BY <1>5, <1>6 DEF ForceInv
  <2>6. ASSUME NEW k \in DOMAIN net', NEW x \in net'[k] \ setup.net[k]
        PROVE  \E e \in DOMAIN coarsen : Cause(e, k, x)'
    <3>1. CASE x \in net[k]
      BY <1>8, <2>3, <2>5, <2>6, <3>1
    <3>2. CASE x \notin net[k]
      BY <1>6, <2>4, <2>6, <3>2
    <3> QED BY <3>1, <3>2
  <2>7. DOMAIN net' \subseteq DOMAIN setup.net
    BY <1>8, <2>5
  <2> QED BY <1>6, <1>9, <2>6, <2>7 DEF ForceInv
<1> QED BY <1>14, <1>15, <1>16, <1>18, <1>19, <1>20 DEF IInv

\* The critical section is left.
LEMMA LeaveMergeStep ==
  ASSUME IInv, NEW t \in Thread, LeaveMerge(t)
  PROVE  IInv'
<1>1. worker[t].pc = "merging" /\ UNCHANGED <<setup, phase, todo, lists>>
  BY DEF LeaveMerge
<1>2. CASE Partner(t) # NoNode /\ Merge(t)
  BY <1>1, <1>2, MergeStep
<1>3. CASE Partner(t) = NoNode /\ Become(t, Idle) /\ UNCHANGED <<net, reset, exempt>>
  BY <1>1, <1>3, NoMergeStep
<1> QED BY <1>2, <1>3 DEF LeaveMerge

\* Every non-empty set of numbers has a least element.
LEMMA LeastNumber ==
  ASSUME NEW S, S \subseteq Nat, S # {}
  PROVE  \E n \in S : \A m \in S : n <= m
<1> DEFINE R == OpToRel(<, Nat)
<1>1. IsWellFoundedOn(R, Nat)
  BY NatLessThanWellFounded
<1>2. \A m \in Nat : \A k \in Nat : m < k => <<m, k>> \in R
  BY DEF OpToRel
<1> HIDE DEF R
<1>3. PICK n \in S : \A m \in S : ~(<<m, n>> \in R)
  BY <1>1, WFMin
<1>4. ASSUME NEW m \in S PROVE n <= m
  <2>1. m \in Nat /\ n \in Nat /\ ~(<<m, n>> \in R)
    BY <1>3
  <2>2. ~(m < n)
    BY <1>2, <2>1
  <2> QED BY <2>1, <2>2
<1> QED BY <1>4

\* Between the parallel loops, and in those that run over a list, every
\* thread is idle.
LEMMA AllIdle ==
  ASSUME WorkerInv, WorkersIdle, UNCHANGED worker, phase' # "coarsen"
  PROVE  WorkerInv' /\ EntryInv'
<1>1. \A u \in Thread : worker'[u] = Idle
  BY DEF WorkersIdle
<1>2. \A u \in Thread : worker'[u].pc = "idle"
  BY <1>1 DEF Idle
<1>3. WorkerInv'
  BY <1>1, <1>2 DEF WorkerInv, WorkerOK, Differ, PreMerge, Locking
<1>4. EntryInv'
  BY <1>2 DEF EntryInv
<1> QED BY <1>3, <1>4

\* The threads work in two of the phases only.
LEMMA LoopIdle ==
  ASSUME WorkerInv, phase \notin {"coarsen", "refine"}
  PROVE  WorkersIdle
BY DEF WorkerInv, WorkerOK, WorkersIdle

\* The coarsening is over: every entry is to be gone through again.
LEMMA StartMarkStep == ASSUME IInv, StartMark PROVE IInv'
<1>1. /\ phase = "coarsen" /\ todo = {} /\ WorkersIdle
      /\ phase' = "mark" /\ todo' = DOMAIN coarsen
      /\ UNCHANGED <<setup, net, reset, exempt, lists, worker>>
  BY DEF StartMark, LoopEnds, Begin
<1>2. NetInv /\ ListInv /\ WorkerInv /\ RoomInv /\ ForceInv
  BY DEF IInv
<1>3. NetInv' /\ ListInv' /\ RoomInv'
  BY <1>1, <1>2 DEF NetInv, ListInv, Remote, Exists, RoomInv, Coarsening, Segs, lists
<1>4. WorkerInv' /\ EntryInv'
  BY <1>1, <1>2, AllIdle
<1>5. ForceInv'
  <2>1. \A e : Marked(e)' <=> Marked(e)
    BY <1>1 DEF Marked
  <2>2. \A e, n, x : Cause(e, n, x)' <=> Cause(e, n, x)
    BY <1>1, <2>1 DEF Cause, Committed, Exists, lists
  <2> QED BY <1>1, <1>2, <2>2 DEF ForceInv, lists
<1> QED BY <1>3, <1>4, <1>5 DEF IInv

\* The forces of the ends of an entry, and of their neighbours, are marked.
LEMMA MarkEndsStep == ASSUME IInv, MarkEnds PROVE IInv'
<1>1. PICK n \in todo :
        LET ends == EndsOf(coarsen[n], n) IN
        /\ todo' = todo \ {n}
        /\ reset' = IF Committed(n) /\ Exists(ends[1]) /\ Exists(ends[2])
                    THEN reset \cup AndNeighbours(ends[1]) \cup AndNeighbours(ends[2])
                    ELSE reset
  BY DEF MarkEnds
<1> DEFINE ends == EndsOf(coarsen[n], n)
<1>2. /\ phase = "mark" /\ UNCHANGED <<setup, net, exempt, phase, lists, worker>>
      /\ todo' = todo \ {n}
      /\ reset' = IF Committed(n) /\ Exists(ends[1]) /\ Exists(ends[2])
                  THEN reset \cup AndNeighbours(ends[1]) \cup AndNeighbours(ends[2])
                  ELSE reset
  BY <1>1 DEF MarkEnds
<1>3. NetInv /\ ListInv /\ WorkerInv /\ RoomInv /\ ForceInv
  BY DEF IInv
<1>4. reset' = IF Committed(n) THEN reset \cup MarksOf(n) ELSE reset
  BY <1>2 DEF MarksOf
<1>5. MarksOf(n) \subseteq Node
  <2> HIDE DEF ends
  <2>1. Exists(ends[1]) /\ Exists(ends[2]) =>
          AndNeighbours(ends[1]) \subseteq Node /\ AndNeighbours(ends[2]) \subseteq Node
    BY <1>3 DEF NetInv, Exists, AndNeighbours
  <2>2. MarksOf(n) = IF Exists(ends[1]) /\ Exists(ends[2])
                     THEN AndNeighbours(ends[1]) \cup AndNeighbours(ends[2]) ELSE {}
    BY DEF MarksOf, ends
  <2> QED BY <2>1, <2>2
<1> HIDE DEF ends
<1>6. NetInv'
  BY <1>2, <1>3, <1>4, <1>5 DEF NetInv
<1>7. ListInv' /\ RoomInv'
  BY <1>2, <1>3 DEF ListInv, Remote, Exists, RoomInv, Coarsening, Segs, lists
<1>8. WorkerInv' /\ EntryInv'
  <2>1. WorkersIdle
    BY <1>2, <1>3, LoopIdle
  <2> QED BY <1>2, <1>3, <2>1, AllIdle
<1>9. ForceInv'
  <2>1. reset \subseteq reset'
    BY <1>4
  <2>2. \A e : Marked(e) => Marked(e)'
    BY <1>2, <2>1 DEF Marked
  <2>3. \A e, m, x : Cause(e, m, x) => Cause(e, m, x)'
    BY <1>2, <2>2 DEF Cause, Committed, Exists, lists
  <2>4. ASSUME NEW e PROVE MarksOf(e)' = MarksOf(e) /\ (Committed(e)' <=> Committed(e))
    BY <1>2 DEF MarksOf, EndsOf, Exists, AndNeighbours, Committed, lists
  <2>5. ASSUME NEW e \in DOMAIN coarsen \ todo', Committed(e)
        PROVE  MarksOf(e) \subseteq reset'
    <3>1. CASE e = n
      BY <1>4, <2>5, <3>1
    <3>2. CASE e # n
      BY <1>2, <1>3, <2>1, <2>5, <3>2 DEF ForceInv
    <3> QED BY <3>1, <3>2
  <2> QED BY <1>2, <1>3, <2>3, <2>4, <2>5 DEF ForceInv, lists
<1> QED BY <1>6, <1>7, <1>8, <1>9 DEF IInv

\* The list of the refinement has a segment once.
LEMMA ListRefineStep == ASSUME IInv, ListRefine PROVE IInv'
<1>1. PICK S \in SUBSET {p \in setup.refine : /\ p[1] \in DOMAIN net /\ p[2] \in net[p[1]]
                                              /\ Refinable(p[1], p[2])} :
        /\ ListedOnce(S)
        /\ refine' = [p \in S |-> NoNode]
        /\ Begin("refine", S)
  BY DEF ListRefine
<1>2. /\ phase = "mark" /\ phase' = "refine" /\ todo' = S /\ WorkersIdle
      /\ UNCHANGED <<setup, net, reset, exempt, coarsen, worker>>
  BY <1>1 DEF ListRefine, LoopEnds, Begin
<1>3. NetInv /\ ListInv /\ WorkerInv /\ RoomInv /\ ForceInv
  BY DEF IInv
<1>4. S \subseteq setup.refine /\ DOMAIN refine' = S /\ \A p \in S : refine'[p] = NoNode
  BY <1>1
<1>5. NetInv'
  BY <1>2, <1>3 DEF NetInv
<1>6. ListInv'
  <2>1. refine' \in [S -> Node \cup {NoNode}]
    BY <1>1
  <2> QED BY <1>2, <1>3, <1>4, <2>1 DEF ListInv, Remote, Exists
<1>7. WorkerInv' /\ EntryInv'
  BY <1>2, <1>3, AllIdle
<1>8. RoomInv'
  <2>1. Unsplit' = S
    BY <1>4 DEF Unsplit
  <2>2. ~Coarsening' /\ Coarsening
    BY <1>2 DEF Coarsening
  <2>3. /\ IsFiniteSet(S) /\ IsFiniteSet(Segs) /\ Cardinality(Segs) \in Nat /\ MaxNode \in Nat
        /\ Cardinality(S) \in Nat /\ S \subseteq Node \X Node
    BY <1>3, <1>4, SetupFacts, FS_Subset, FS_CardinalityType
  <2>4. Cardinality(S) <= Cardinality(Segs)
    <3> SUFFICES ASSUME Cardinality(Segs) < Cardinality(S) PROVE FALSE
      BY <2>3
    <3> DEFINE f == [p \in S |-> {p[1], p[2]}]
    <3>1. f \in [S -> Segs]
      BY <1>4 DEF Segs
    <3> HIDE DEF f
    <3>2. PICK p \in S, q \in S : p # q /\ f[p] = f[q]
      BY <2>3, <3>1, FS_PigeonHole
    <3>3. p = <<p[1], p[2]>> /\ q = <<q[1], q[2]>> /\ {p[1], p[2]} = {q[1], q[2]}
      BY <2>3, <3>2 DEF f
    <3>4. p = <<q[2], q[1]>>
      BY <3>2, <3>3
    <3> QED BY <1>1, <3>4 DEF ListedOnce
  <2>5. IsFiniteSet(DOMAIN net)
    BY <1>3, SetupFacts, FS_Subset DEF NetInv
  <2>6. Cardinality(DOMAIN net) \in Nat
    BY <2>5, FS_CardinalityType
  <2>7. Cardinality(DOMAIN net) + Cardinality(Segs) <= MaxNode
    BY <1>3, <2>2 DEF RoomInv
  <2>8. Cardinality(DOMAIN net) + Cardinality(S) <= MaxNode
    BY <2>3, <2>4, <2>6, <2>7
  <2> QED BY <1>2, <2>1, <2>2, <2>8 DEF RoomInv
<1>9. ForceInv'
  BY <1>2 DEF ForceInv
<1> QED BY <1>5, <1>6, <1>7, <1>8, <1>9 DEF IInv

\* A thread takes or gives back a segment: the others go on as before.
LEMMA RefineWorker ==
  ASSUME WorkerInv, NEW t \in Thread, NEW w, Become(t, w),
         phase = "refine", phase' = "refine", UNCHANGED coarsen,
         DOMAIN refine' = DOMAIN refine, todo' \subseteq todo,
         WorkerOK(t)', Locking(t)' \/ w = Idle,
         \A u \in Thread : u # t /\ Locking(u) =>
           /\ refine'[worker[u].seg] = refine[worker[u].seg]
           /\ Locking(t)' => w.seg # worker[u].seg
  PROVE  WorkerInv' /\ EntryInv'
<1>1. /\ DOMAIN worker' = Thread /\ worker' = [u \in Thread |-> worker'[u]]
      /\ worker'[t] = w
      /\ \A u \in Thread : u # t => worker'[u] = worker[u]
  BY Becomes
<1>2. ASSUME NEW u \in Thread PROVE WorkerOK(u)'
  <2>1. CASE u # t
    <3>1. WorkerOK(u) /\ worker'[u] = worker[u]
      BY <1>1, <2>1 DEF WorkerInv
    <3>2. Locking(u) => refine'[worker[u].seg] = refine[worker[u].seg]
      BY <2>1
    <3>3. DOMAIN coarsen' = DOMAIN coarsen
          /\ \A n \in DOMAIN coarsen : /\ coarsen'[n].nbr1 = coarsen[n].nbr1
                                       /\ coarsen'[n].nbr2 = coarsen[n].nbr2
                                       /\ Committed(n) => Committed(n)'
      BY DEF Committed
    <3> QED BY <3>1, <3>2, <3>3, StaysOK
  <2> QED BY <2>1
<1>3. \A u \in Thread : ~PreMerge(u)' /\ worker'[u].pc \notin {"estimated", "merging"}
  <2> SUFFICES ASSUME NEW u \in Thread
               PROVE  ~PreMerge(u)' /\ worker'[u].pc \notin {"estimated", "merging"}
    OBVIOUS
  <2>1. worker'[u] = Idle \/ Locking(u)'
    BY <1>2 DEF WorkerOK
  <2> QED BY <2>1 DEF PreMerge, Locking, Idle
<1>4. ASSUME NEW u \in Thread, NEW v \in Thread, u # v PROVE Differ(u, v)'
  <2>1. \A x \in Thread : x # t => /\ (Locking(x)' <=> Locking(x))
                                   /\ worker'[x] = worker[x]
    BY <1>1 DEF Locking
  <2>2. Differ(u, v)
    BY <1>4 DEF WorkerInv
  <2>3. ASSUME Locking(u)', Locking(v)' PROVE worker'[u].seg # worker'[v].seg
    <3>1. CASE u # t /\ v # t
      BY <2>1, <2>2, <2>3, <3>1 DEF Differ
    <3>2. CASE u = t
      BY <1>1, <1>4, <2>1, <2>3, <3>2
    <3>3. CASE v = t
      BY <1>1, <1>4, <2>1, <2>3, <3>3
    <3> QED BY <3>1, <3>2, <3>3
  <2> QED BY <1>3, <2>3 DEF Differ
<1>5. WorkerInv'
  BY <1>1, <1>2, <1>4 DEF WorkerInv
<1>6. EntryInv'
  BY <1>3 DEF EntryInv
<1> QED BY <1>5, <1>6

\* A thread takes a segment off the list and locks its first node.
LEMMA LockFirstStep ==
  ASSUME IInv, NEW t \in Thread, LockFirst(t)
  PROVE  IInv'
<1>1. PICK p \in todo : todo' = todo \ {p} /\ Become(t, [pc |-> "locked1", seg |-> p])
  BY DEF LockFirst
<1> DEFINE w == [pc |-> "locked1", seg |-> p]
<1>2. /\ phase = "refine" /\ phase' = "refine"
      /\ UNCHANGED <<setup, net, reset, exempt, phase, coarsen, refine>>
  BY DEF LockFirst, lists
<1>3. NetInv /\ ListInv /\ WorkerInv /\ RoomInv
  BY DEF IInv
<1>4. p \in DOMAIN refine /\ refine[p] = NoNode
  BY <1>2, <1>3 DEF ListInv
<1>5. worker'[t] = w
  BY <1>1, <1>3, Becomes
<1>6. w.pc = "locked1" /\ w.seg = p /\ w \in [pc : {"locked1", "locked2"}, seg : DOMAIN refine \ todo']
  BY <1>1, <1>4
<1>7. Become(t, w)
  BY <1>1
<1> HIDE DEF w
<1>8. Locking(t)' /\ ~PreMerge(t)'
  BY <1>5, <1>6 DEF Locking, PreMerge
<1>9. WorkerOK(t)'
  BY <1>2, <1>4, <1>5, <1>6, <1>8 DEF WorkerOK
<1>10. \A u \in Thread : Locking(u) => worker[u].seg \notin todo
  BY <1>3 DEF WorkerInv, WorkerOK
<1>11. todo' \subseteq todo /\ DOMAIN refine' = DOMAIN refine
  BY <1>1, <1>2
<1>12. WorkerInv' /\ EntryInv'
  BY <1>2, <1>3, <1>6, <1>7, <1>8, <1>9, <1>10, <1>11, RefineWorker
<1>13. NetInv' /\ RoomInv'
  BY <1>2, <1>3 DEF NetInv, RoomInv, Coarsening, Segs, Unsplit
<1>14. ListInv'
  BY <1>1, <1>2, <1>3 DEF ListInv, Remote, Exists
<1>15. ForceInv'
  BY <1>2 DEF ForceInv
<1> QED BY <1>12, <1>13, <1>14, <1>15 DEF IInv

\* It locks the other node.
LEMMA LockSecondStep ==
  ASSUME IInv, NEW t \in Thread, LockSecond(t)
  PROVE  IInv'
<1> DEFINE w == [worker[t] EXCEPT !.pc = "locked2"]
<1>1. /\ worker[t].pc = "locked1" /\ Become(t, w)
      /\ UNCHANGED <<setup, net, reset, exempt, phase, todo, coarsen, refine>>
  BY DEF LockSecond, lists
<1>2. NetInv /\ ListInv /\ WorkerInv /\ RoomInv
  BY DEF IInv
<1>3. Locking(t)
  BY <1>1 DEF Locking
<1>4. /\ phase = "refine" /\ refine[worker[t].seg] = NoNode
      /\ worker[t] \in [pc : {"locked1", "locked2"}, seg : DOMAIN refine \ todo]
  BY <1>1, <1>2, <1>3 DEF WorkerInv, WorkerOK, PreMerge, Idle
<1>5. /\ w.pc = "locked2" /\ w.seg = worker[t].seg
      /\ w \in [pc : {"locked1", "locked2"}, seg : DOMAIN refine \ todo]
  BY <1>4
<1>6. worker'[t] = w
  BY <1>1, <1>2, Becomes
<1> HIDE DEF w
<1>7. Locking(t)' /\ ~PreMerge(t)' /\ phase' = "refine"
  BY <1>1, <1>4, <1>5, <1>6 DEF Locking, PreMerge
<1>8. WorkerOK(t)'
  BY <1>1, <1>4, <1>5, <1>6, <1>7 DEF WorkerOK
<1>9. \A u \in Thread : u # t /\ Locking(u) => w.seg # worker[u].seg
  BY <1>2, <1>3, <1>5 DEF WorkerInv, Differ
<1>10. WorkerInv' /\ EntryInv'
  BY <1>1, <1>2, <1>4, <1>7, <1>8, <1>9, RefineWorker
<1>11. NetInv' /\ RoomInv'
  BY <1>1, <1>2 DEF NetInv, RoomInv, Coarsening, Segs, Unsplit
<1>12. ListInv'
  BY <1>1, <1>2 DEF ListInv, Remote, Exists
<1>13. ForceInv'
  BY <1>1, <1>4 DEF ForceInv
<1> QED BY <1>10, <1>11, <1>12, <1>13 DEF IInv

\* While a segment is still to be split there is a free tag, and NewNode is
\* the lowest.
LEMMA NewNodeFree ==
  ASSUME NetInv, RoomInv, ~Coarsening, DOMAIN refine \subseteq setup.refine,
         NEW p \in Unsplit
  PROVE  /\ NewNode \in Node \ DOMAIN net
         /\ Cardinality(DOMAIN net) \in Nat /\ Cardinality(Unsplit) \in Nat
         /\ IsFiniteSet(DOMAIN net) /\ IsFiniteSet(Unsplit)
<1>1. IsFiniteSet(DOMAIN net) /\ Cardinality(DOMAIN net) \in Nat /\ DOMAIN net \subseteq Node
  BY SetupFacts, FS_Subset, FS_CardinalityType DEF NetInv
<1>2. IsFiniteSet(Unsplit) /\ Cardinality(Unsplit) \in Nat
  BY SetupFacts, FS_Subset, FS_CardinalityType DEF Unsplit
<1>3. Cardinality(Unsplit) # 0
  BY <1>2, FS_EmptySet
<1>4. Cardinality(DOMAIN net) + Cardinality(Unsplit) <= MaxNode
  BY DEF RoomInv
<1>5. MaxNode \in Nat /\ Cardinality(Node) = MaxNode
  <2>1. MaxNode \in Nat
    BY SetupFacts
  <2>2. Cardinality(1 .. MaxNode) = IF 1 > MaxNode THEN 0 ELSE MaxNode - 1 + 1
    BY <2>1, FS_Interval
  <2> QED BY <2>1, <2>2 DEF Node
<1>6. DOMAIN net # Node
  BY <1>1, <1>2, <1>3, <1>4, <1>5
<1>7. Node \ DOMAIN net # {} /\ Node \ DOMAIN net \subseteq Nat
  <2>1. Node \ DOMAIN net # {}
    BY <1>1, <1>6
  <2>2. Node \subseteq Nat
    BY <1>5 DEF Node
  <2> QED BY <2>1, <2>2
<1>8. \E k \in Node \ DOMAIN net : \A j \in Node \ DOMAIN net : k <= j
  BY <1>7, LeastNumber
<1>9. NewNode \in Node \ DOMAIN net
  BY <1>8 DEF NewNode
<1> QED BY <1>1, <1>2, <1>9

\* A segment is split in two, each linked to the new node.
LEMMA BisectedNet ==
  ASSUME NetInv, NEW n \in DOMAIN net, NEW m \in net[n], NewNode \in Node \ DOMAIN net,
         NEW g, g = Bisected(n, m)
  PROVE  /\ DOMAIN g = DOMAIN net \cup {NewNode}
         /\ \A k \in DOMAIN g : /\ g[k] \subseteq DOMAIN g \ {k}
                                /\ \A x \in g[k] : k \in g[x]
<1> DEFINE j == NewNode
<1>1. j \notin DOMAIN net
  OBVIOUS
<1>2. /\ DOMAIN g = DOMAIN net \cup {j}
      /\ \A k \in DOMAIN net \cup {j} : g[k] =
           IF k = j THEN {n, m} ELSE IF k = n THEN (net[k] \ {m}) \cup {j}
           ELSE IF k = m THEN (net[k] \ {n}) \cup {j} ELSE net[k]
  BY DEF Bisected
<1> HIDE DEF j
<1>3. \A k \in DOMAIN net : /\ net[k] \subseteq DOMAIN net \ {k}
                            /\ \A x \in net[k] : k \in net[x]
  BY DEF NetInv
<1>4. m \in DOMAIN net /\ m # n /\ n \in net[m]
  BY <1>3
<1>5. g[j] = {n, m} /\ g[n] = (net[n] \ {m}) \cup {j} /\ g[m] = (net[m] \ {n}) \cup {j}
  BY <1>1, <1>2, <1>4
<1>6. \A k \in DOMAIN net \ {n, m} : g[k] = net[k]
  BY <1>1, <1>2
<1>7. ASSUME NEW k \in DOMAIN g PROVE g[k] \subseteq DOMAIN g \ {k} /\ \A x \in g[k] : k \in g[x]
  <2>1. CASE k = j
    BY <1>1, <1>2, <1>4, <1>5, <2>1
  <2> SUFFICES ASSUME k # j, NEW x \in g[k] PROVE x \in DOMAIN g \ {k} /\ k \in g[x]
    BY <2>1
  <2>2. k \in DOMAIN net
    BY <1>2
  <2>3. CASE x = j
    <3>1. k \in {n, m}
      BY <1>1, <1>3, <1>6, <2>2, <2>3
    <3> QED BY <1>2, <1>5, <2>3, <3>1
  <2>4. CASE x # j
    <3>1. x \in net[k] /\ {k, x} # {n, m}
      BY <1>3, <1>4, <1>5, <1>6, <2>2, <2>4
    <3>2. x \in DOMAIN net \ {k} /\ k \in net[x]
      BY <1>3, <2>2, <3>1
    <3>3. k \in g[x]
      BY <1>5, <1>6, <3>1, <3>2
    <3> QED BY <1>2, <3>2, <3>3
  <2> QED BY <2>3, <2>4
<1> QED BY <1>2, <1>7 DEF j

\* A segment is split, and the locks of its nodes are released.
LEMMA SplitStep ==
  ASSUME IInv, NEW t \in Thread, SplitAndUnlock(t)
  PROVE  IInv'
<1>1. PICK p : p = worker[t].seg
  OBVIOUS
<1>2. PICK linked \in BOOLEAN : linked <=> p[2] \in net[p[1]]
  <2>1. CASE p[2] \in net[p[1]]
    BY <2>1
  <2>2. CASE p[2] \notin net[p[1]]
    BY <2>2
  <2> QED BY <2>1, <2>2
<1>0. PICK new : new = NewNode
  OBVIOUS
<1> DEFINE fresh == IF linked THEN {new} ELSE {}
<1>3. /\ worker[t].pc = "locked2" /\ Become(t, Idle)
      /\ net' = IF linked THEN Bisected(p[1], p[2]) ELSE net
      /\ refine' = [refine EXCEPT ![p] = IF linked THEN new ELSE NoNode]
      /\ reset' = reset \ fresh /\ exempt' = exempt \ fresh
      /\ UNCHANGED <<setup, phase, todo, coarsen>>
  BY <1>0, <1>1, <1>2 DEF SplitAndUnlock
<1>4. reset' \subseteq reset /\ exempt' \subseteq exempt
  BY <1>3
<1> HIDE DEF fresh
<1>5. NetInv /\ ListInv /\ WorkerInv /\ RoomInv
  BY DEF IInv
<1>6. Locking(t)
  BY <1>3 DEF Locking
<1>7. phase = "refine" /\ p \in DOMAIN refine \ todo /\ refine[p] = NoNode
  BY <1>1, <1>3, <1>5, <1>6 DEF WorkerInv, WorkerOK, PreMerge, Idle
<1>8. p \in Unsplit /\ ~Coarsening /\ DOMAIN refine \subseteq setup.refine
  BY <1>5, <1>7 DEF Unsplit, Coarsening, ListInv
<1>9. /\ new \in Node \ DOMAIN net /\ new # NoNode
      /\ Cardinality(DOMAIN net) \in Nat /\ Cardinality(Unsplit) \in Nat
      /\ IsFiniteSet(DOMAIN net) /\ IsFiniteSet(Unsplit)
  BY <1>0, <1>5, <1>8, NewNodeFree, SetupFacts
<1>10. p[1] \in DOMAIN net
  BY <1>5, <1>7 DEF ListInv, Exists
<1>11. /\ DOMAIN net' = IF linked THEN DOMAIN net \cup {new} ELSE DOMAIN net
       /\ \A k \in DOMAIN net' : /\ net'[k] \subseteq DOMAIN net' \ {k}
                                 /\ \A x \in net'[k] : k \in net'[x]
  <2>1. CASE linked
    <3>1. p[2] \in net[p[1]] /\ net' = Bisected(p[1], p[2]) /\ NewNode \in Node \ DOMAIN net
      BY <1>0, <1>2, <1>3, <1>9, <2>1
    <3>2. /\ DOMAIN net' = DOMAIN net \cup {NewNode}
          /\ \A k \in DOMAIN net' : /\ net'[k] \subseteq DOMAIN net' \ {k}
                                    /\ \A x \in net'[k] : k \in net'[x]
      BY <1>5, <1>10, <3>1, BisectedNet
    <3> QED BY <1>0, <2>1, <3>2
  <2>2. CASE ~linked
    BY <1>3, <1>5, <2>2 DEF NetInv
  <2> QED BY <2>1, <2>2
<1>12. NetInv'
  <2>1. setup \in Setups /\ DOMAIN net \subseteq Node /\ reset \subseteq Node /\ exempt \subseteq Node
    BY <1>5 DEF NetInv
  <2>2. DOMAIN net' \subseteq Node
    BY <1>9, <1>11, <2>1
  <2> QED BY <1>3, <1>4, <1>11, <2>1, <2>2 DEF NetInv
<1>13. /\ DOMAIN refine' = DOMAIN refine
       /\ refine'[p] = (IF linked THEN new ELSE NoNode)
       /\ \A q \in DOMAIN refine \ {p} : refine'[q] = refine[q]
       /\ refine' \in [DOMAIN refine -> Node \cup {NoNode}]
  <2>1. refine \in [DOMAIN refine -> Node \cup {NoNode}]
    BY <1>5 DEF ListInv
  <2> QED BY <1>3, <1>7, <1>9, <2>1
<1>14. ListInv'
  <2>1. \A q \in todo : refine'[q] = NoNode /\ q \in DOMAIN refine
    BY <1>5, <1>7, <1>13 DEF ListInv
  <2>2. \A q \in DOMAIN refine : q[1] \in DOMAIN net'
    BY <1>5, <1>7, <1>11 DEF ListInv, Exists
  <2>3. /\ DOMAIN coarsen \subseteq Node /\ coarsen \in [DOMAIN coarsen -> Entry]
        /\ \A n \in DOMAIN coarsen : n # coarsen[n].nbr1 /\ n # coarsen[n].nbr2
                                     /\ coarsen[n].nbr1 # coarsen[n].nbr2 /\ ~Remote(n)
        /\ DOMAIN refine \subseteq setup.refine
    BY <1>5 DEF ListInv
  <2> QED BY <1>3, <1>7, <1>13, <2>1, <2>2, <2>3 DEF ListInv, Remote, Exists
<1>15. WorkerInv' /\ EntryInv'
  <2>1. WorkerOK(t)' /\ Idle = Idle
    BY <1>3, <1>5, Becomes, IdleOK
  <2>2. \A u \in Thread : u # t /\ Locking(u) => refine'[worker[u].seg] = refine[worker[u].seg]
    <3> SUFFICES ASSUME NEW u \in Thread, u # t, Locking(u)
                 PROVE  refine'[worker[u].seg] = refine[worker[u].seg]
      OBVIOUS
    <3>1. worker[u].seg # p /\ worker[u].seg \in DOMAIN refine
      BY <1>1, <1>5, <1>6 DEF WorkerInv, WorkerOK, Differ
    <3> QED BY <1>13, <3>1
  <2>3. ~Locking(t)'
    BY <1>3, <1>5, Becomes, IdleOK
  <2>4. todo' \subseteq todo /\ phase' = "refine" /\ UNCHANGED coarsen
    BY <1>3, <1>7
  <2> QED BY <1>3, <1>5, <1>7, <1>13, <2>1, <2>2, <2>3, <2>4, RefineWorker
<1>16. RoomInv'
  <2>1. Cardinality(DOMAIN net) + Cardinality(Unsplit) <= MaxNode /\ MaxNode \in Nat
    BY <1>5, <1>8, SetupFacts DEF RoomInv
  <2>2. ~Coarsening'
    BY <1>3, <1>7 DEF Coarsening
  <2>3. CASE linked
    <3>1. Unsplit' = Unsplit \ {p}
      BY <1>9, <1>13, <2>3 DEF Unsplit
    <3>2. Cardinality(Unsplit \ {p}) = Cardinality(Unsplit) - 1
      BY <1>8, <1>9, FS_RemoveElement
    <3>3. Cardinality(DOMAIN net \cup {new}) = Cardinality(DOMAIN net) + 1
      BY <1>9, FS_AddElement
    <3>4. Cardinality(DOMAIN net \cup {new}) + Cardinality(Unsplit \ {p}) <= MaxNode
      BY <1>9, <2>1, <3>2, <3>3
    <3> QED BY <1>3, <1>11, <2>2, <2>3, <3>1, <3>4 DEF RoomInv
  <2>4. CASE ~linked
    <3>1. Unsplit' = Unsplit
      BY <1>7, <1>13, <2>4 DEF Unsplit
    <3> QED BY <1>3, <1>11, <2>1, <2>2, <2>4, <3>1 DEF RoomInv
  <2> QED BY <2>3, <2>4
<1>17. ForceInv'
  BY <1>3, <1>7 DEF ForceInv
<1> QED BY <1>12, <1>14, <1>15, <1>16, <1>17 DEF IInv

\* The refinement is over: the new nodes are to be gone through.
LEMMA StartForcesStep == ASSUME IInv, StartForces PROVE IInv'
<1>1. /\ phase = "refine" /\ WorkersIdle /\ phase' = "forces" /\ todo' = DOMAIN refine
      /\ UNCHANGED <<setup, net, reset, exempt, coarsen, refine, worker>>
  BY DEF StartForces, LoopEnds, Begin, lists
<1>2. NetInv /\ ListInv /\ WorkerInv /\ RoomInv
  BY DEF IInv
<1>3. NetInv' /\ ListInv' /\ RoomInv'
  BY <1>1, <1>2 DEF NetInv, ListInv, Remote, RoomInv, Coarsening, Segs, Unsplit
<1>4. WorkerInv' /\ EntryInv'
  BY <1>1, <1>2, AllIdle
<1>5. ForceInv'
  BY <1>1 DEF ForceInv
<1> QED BY <1>3, <1>4, <1>5 DEF IInv

\* The forces of the three nodes of a split segment are reset.
LEMMA ResetForcesStep == ASSUME IInv, ResetForces PROVE IInv'
<1>1. PICK p \in todo :
        /\ todo' = todo \ {p}
        /\ reset' = IF refine[p] # NoNode THEN reset \cup {p[1], p[2], refine[p]} ELSE reset
  BY DEF ResetForces
<1>2. /\ phase = "forces" /\ phase' = "forces"
      /\ UNCHANGED <<setup, net, exempt, coarsen, refine, worker>>
  BY DEF ResetForces, lists
<1>3. NetInv /\ ListInv /\ WorkerInv /\ RoomInv
  BY DEF IInv
<1>4. p[1] \in Node /\ p[2] \in Node /\ refine[p] \in Node \cup {NoNode}
  <2>1. p \in setup.refine /\ refine[p] \in Node \cup {NoNode}
    BY <1>2, <1>3 DEF ListInv
  <2> QED BY <1>3, <2>1, SetupFacts
<1>5. NetInv'
  BY <1>1, <1>2, <1>3, <1>4 DEF NetInv
<1>6. ListInv' /\ RoomInv'
  BY <1>1, <1>2, <1>3 DEF ListInv, Remote, RoomInv, Coarsening, Segs, Unsplit
<1>7. WorkerInv' /\ EntryInv'
  <2>1. WorkersIdle
    BY <1>2, <1>3, LoopIdle
  <2> QED BY <1>2, <1>3, <2>1, AllIdle
<1>8. ForceInv'
  BY <1>2 DEF ForceInv
<1> QED BY <1>5, <1>6, <1>7, <1>8 DEF IInv

\* The remeshing is over.
LEMMA DoneStep == ASSUME IInv, Done PROVE IInv'
<1>1. /\ phase = "forces" /\ WorkersIdle /\ phase' = "done"
      /\ UNCHANGED <<setup, net, reset, exempt, coarsen, refine, worker>>
  BY DEF Done, LoopEnds, Begin, lists
<1>2. NetInv /\ ListInv /\ WorkerInv /\ RoomInv
  BY DEF IInv
<1>3. NetInv' /\ ListInv' /\ RoomInv'
  BY <1>1, <1>2 DEF NetInv, ListInv, Remote, RoomInv, Coarsening, Segs, Unsplit
<1>4. WorkerInv' /\ EntryInv'
  BY <1>1, <1>2, AllIdle
<1>5. ForceInv'
  BY <1>1 DEF ForceInv
<1> QED BY <1>3, <1>4, <1>5 DEF IInv

\* Nothing happens.
LEMMA StutterStep == ASSUME IInv, UNCHANGED vars PROVE IInv'
<1>1. UNCHANGED <<setup, net, reset, exempt, phase, todo, coarsen, refine, worker>>
  BY DEF vars
<1>2. NetInv /\ ListInv /\ WorkerInv /\ EntryInv /\ RoomInv /\ ForceInv
  BY DEF IInv
<1>3. NetInv' /\ ListInv' /\ RoomInv'
  BY <1>1, <1>2 DEF NetInv, ListInv, Remote, Exists, RoomInv, Coarsening, Segs, Unsplit
<1>4. WorkerInv'
  <2>1. ASSUME NEW u \in Thread PROVE WorkerOK(u)'
    <3>1. WorkerOK(u) /\ worker'[u] = worker[u]
      BY <1>1, <1>2 DEF WorkerInv
    <3> QED BY <1>1, <3>1, StaysOK DEF Committed
  <2>2. ASSUME NEW u \in Thread, NEW v \in Thread, u # v PROVE Differ(u, v)'
    <3>1. Differ(u, v)
      BY <1>2, <2>2 DEF WorkerInv
    <3> QED BY <1>1, <3>1 DEF Differ, PreMerge, Locking
  <2> QED BY <1>1, <1>2, <2>1, <2>2 DEF WorkerInv
<1>5. EntryInv'
  <2>1. \A n : /\ (Committed(n)' <=> Committed(n)) /\ GlobalOp(n)' = GlobalOp(n)
               /\ (Intact(n)' <=> Intact(n)) /\ (Apart(n)' <=> Apart(n))
    BY <1>1, SameNet
  <2>2. \A n : Untried(n)' <=> Untried(n)
    BY <1>1 DEF Untried, PreMerge
  <2>3. ASSUME NEW u \in Thread, worker'[u].pc = "estimated"
        PROVE  worker'[u].globalOp = GlobalOp(worker[u].node)'
    <3>1. worker'[u] = worker[u] /\ worker[u].globalOp = GlobalOp(worker[u].node)
      BY <1>1, <1>2, <2>3 DEF EntryInv
    <3> QED BY <2>1, <3>1
  <2> QED BY <1>1, <1>2, <2>1, <2>2, <2>3 DEF EntryInv
<1>6. ForceInv'
  <2>1. \A e, n, x : Cause(e, n, x)' <=> Cause(e, n, x)
    BY <1>1 DEF Cause, Committed, Exists, Marked
  <2>2. \A e : MarksOf(e)' = MarksOf(e) /\ (Committed(e)' <=> Committed(e))
    BY <1>1 DEF MarksOf, EndsOf, Exists, AndNeighbours, Committed
  <2> QED BY <1>1, <1>2, <2>1, <2>2 DEF ForceInv
<1> QED BY <1>3, <1>4, <1>5, <1>6 DEF IInv

\* Every step keeps the invariant.
LEMMA NextInv == IInv /\ [Next]_vars => IInv'
<1> SUFFICES ASSUME IInv, [Next]_vars PROVE IInv'
  OBVIOUS
<1>1. ASSUME NEW t \in Thread, ThreadStep(t) PROVE IInv'
  <2>1. CASE CommitOrReject(t)
    BY <2>1, CommitStep
  <2>2. CASE ReadNeighbours(t)
    BY <2>2, ReadNeighboursStep
  <2>3. CASE EnterMerge(t)
    BY <2>3, EnterMergeStep
  <2>4. CASE LeaveMerge(t)
    BY <2>4, LeaveMergeStep
  <2>5. CASE ResetEnds(t)
    BY <2>5, ResetEndsStep
  <2>6. CASE LockFirst(t)
    BY <2>6, LockFirstStep
  <2>7. CASE LockSecond(t)
    BY <2>7, LockSecondStep
  <2>8. CASE SplitAndUnlock(t)
    BY <2>8, SplitStep
  <2> QED BY <1>1, <2>1, <2>2, <2>3, <2>4, <2>5, <2>6, <2>7, <2>8 DEF ThreadStep
<1>2. ASSUME LoopStep PROVE IInv'
  BY <1>2, ListCoarsenStep, StartMarkStep, MarkEndsStep, ListRefineStep,
     StartForcesStep, ResetForcesStep, DoneStep DEF LoopStep
<1>3. ASSUME UNCHANGED vars PROVE IInv'
  BY <1>3, StutterStep
<1> QED BY <1>1, <1>2, <1>3 DEF Next, Finished

\* The inductive invariant holds in every reachable state.
THEOREM RemeshInvariant == Spec => []IInv
BY InitInv, NextInv, PTL DEF Spec

-----------------------------------------------------------------------------
(* What follows from it.                                                   *)

\* The positions of the threads are those of the phase.
LEMMA InvTyped == IInv => TypeOK
<1> SUFFICES ASSUME IInv PROVE TypeOK
  OBVIOUS
<1>1. NetInv /\ ListInv /\ WorkerInv
  BY DEF IInv
<1>2. \A n \in DOMAIN coarsen : coarsen[n].status \in {"PENDING", "COMMITTED", "REJECTED"}
  BY <1>1 DEF ListInv, Entry
<1>3. \A t \in Thread :
        \/ worker[t].pc = "idle"
        \/ phase = "coarsen" /\ worker[t].pc \in {"read", "estimated", "merging", "merged"}
        \/ phase = "refine" /\ worker[t].pc \in {"locked1", "locked2"}
  BY <1>1 DEF WorkerInv, WorkerOK, PreMerge, Locking, Idle
<1> QED BY <1>1, <1>2, <1>3 DEF NetInv, ListInv, TypeOK

\* What a thread has read of its entry is still so.
LEMMA InvStands == IInv => EntriesStand
<1> SUFFICES ASSUME IInv PROVE EntriesStand
  OBVIOUS
<1>1. ASSUME NEW t \in Thread, worker[t].pc \in {"read", "estimated", "merging"}
      PROVE  /\ \A m \in Triple(worker[t].node) : Exists(m)
             /\ net[worker[t].node] = Triple(worker[t].node) \ {worker[t].node}
  BY <1>1, AtEntry DEF PreMerge, Intact
<1>2. ASSUME NEW t \in Thread, worker[t].pc = "merged"
      PROVE  LET ends == EndsOf(coarsen[worker[t].node], worker[t].mergedNode) IN
             Exists(ends[1]) /\ Exists(ends[2]) => worker[t].mergedNode # NoNode
  <2> DEFINE e == coarsen[worker[t].node]
  <2>1. worker[t].mergedNode = NoNode => ~Exists(e.nbr1) \/ ~Exists(e.nbr2)
    BY <1>2 DEF IInv, WorkerInv, WorkerOK
  <2>2. ~Exists(NoNode)
    BY SetupFacts DEF Exists, IInv, NetInv
  <2> HIDE DEF e
  <2>3. worker[t].mergedNode = NoNode =>
          EndsOf(e, worker[t].mergedNode) =
            IF ~Exists(e.nbr1) THEN <<NoNode, e.nbr2>>
            ELSE IF ~Exists(e.nbr2) THEN <<e.nbr1, NoNode>>
            ELSE <<e.nbr1, e.nbr2>>
    BY DEF EndsOf
  <2>4. LET ends == EndsOf(e, worker[t].mergedNode) IN
        Exists(ends[1]) /\ Exists(ends[2]) => worker[t].mergedNode # NoNode
    BY <2>1, <2>2, <2>3
  <2> QED BY <2>4 DEF e
<1>3. CommittedIntact
  BY <1>1, <1>2 DEF CommittedIntact
<1>4. GlobalOpCurrent
  BY DEF IInv, EntryInv, GlobalOpCurrent
<1> QED BY <1>3, <1>4 DEF EntriesStand

\* The marks of the second loop cover what the first has changed.
LEMMA InvMarked == IInv => ForcesMarked
<1> SUFFICES ASSUME IInv, phase = "mark", todo = {},
                    NEW n \in DOMAIN net, NEW m \in net[n] \ setup.net[n]
             PROVE  n \in reset \/ (BothNbrsGone(m) /\ m \in reset)
  BY DEF ForcesMarked
<1>1. NetInv /\ ListInv /\ ForceInv
  BY DEF IInv
<1>2. PICK e \in DOMAIN coarsen : Cause(e, n, m)
  BY <1>1 DEF ForceInv
<1>3. Committed(e) /\ MarksOf(e) \subseteq reset
  BY <1>1, <1>2 DEF ForceInv, Cause
<1>4. Exists(n) /\ Exists(m) /\ n \in net[m]
  BY <1>1 DEF NetInv, Exists
<1> DEFINE b1 == coarsen[e].nbr1
           b2 == coarsen[e].nbr2
<1>5. /\ Exists(b1) /\ Exists(b2) => {b1, b2} \subseteq MarksOf(e)
      /\ ~Exists(b1) /\ Exists(b2) /\ Exists(e) => net[e] \subseteq MarksOf(e)
      /\ Exists(b1) /\ ~Exists(b2) /\ Exists(e) => net[e] \subseteq MarksOf(e)
  BY DEF MarksOf, EndsOf, AndNeighbours
<1>6. Triple(e) \ {e} \subseteq {b1, b2}
  BY DEF Triple
<1>7. \/ {n, m} = {b1, b2}
      \/ e \in {n, m} /\ e \in reset /\ (~Exists(b1) \/ ~Exists(b2))
  BY <1>2 DEF Cause, Marked
<1> HIDE DEF b1, b2
<1>8. CASE {n, m} = {b1, b2}
  BY <1>3, <1>4, <1>5, <1>8
<1>9. CASE e \in {n, m} /\ e \in reset /\ (~Exists(b1) \/ ~Exists(b2))
  <2>1. CASE e = n
    BY <1>9, <2>1
  <2>2. CASE e = m /\ (Exists(b1) \/ Exists(b2))
    BY <1>3, <1>4, <1>5, <1>9, <2>2
  <2>3. CASE e = m /\ ~Exists(b1) /\ ~Exists(b2)
    BY <1>3, <1>6, <1>9, <2>3 DEF BothNbrsGone
  <2> QED BY <1>9, <2>1, <2>2, <2>3
<1> QED BY <1>7, <1>8, <1>9

\* The links of the network have two ends, and each thread is where the
\* phase has it (MeshCoarsen and MeshRefine, whatever the interleaving).
THEOREM RemeshTyped == Spec => []TypeOK
BY RemeshInvariant, InvTyped, PTL

\* Once ProceedWithCoarsen has let an entry through, no other thread removes
\* one of its nodes, changes the arms of its node or makes globalOp wrong
\* before the entry has merged; mergedNode is not NULL where it is used.
THEOREM CommittedEntriesStand == Spec => []EntriesStand
BY RemeshInvariant, InvStands, PTL

\* When the coarsening is over, each local node with a new neighbour has its
\* forces marked as out of date, although MergeNode may undo a mark that
\* another thread sets meanwhile (Remesh.cc, the second parallel loop).
THEOREM NewLinksMarked == Spec => []ForcesMarked
BY RemeshInvariant, InvMarked, PTL
=============================================================================
