---------------------------- MODULE RemeshThreads ----------------------------
(***************************************************************************)
(* One domain remeshing its part of the network with several OpenMP        *)
(* threads: MeshCoarsen of Remesh.cc, then MeshRefine of RemeshRule_2.cc.  *)
(*                                                                         *)
(* Each of the two lists its candidates, works the list off in a parallel  *)
(* loop, and updates the flags of the nodes in a second one; a parallel    *)
(* loop ends with a barrier.  Threads of one loop share the node           *)
(* structures.  They are kept apart by the rule that committed coarsen     *)
(* entries have no node in common (ProceedWithCoarsen), by the critical    *)
(* section around MergeNode, and by one lock per node in the refinement.   *)
(*                                                                         *)
(* The network is a set of neighbours per node.  Burgers vectors are left  *)
(* out: whether the two links of a double link cancel is open, except that *)
(* no free node may be left with a single arm.  Geometry decides which nodes and *)
(* segments are listed and across which arm a corner may be merged: here   *)
(* any may.  Surfaces are left out.                                        *)
(*                                                                         *)
(* Mutants (see the README): NodesOnly, OneWay, EndsOnly, NbrsGoneAgain,   *)
(* BothDirections.                                                         *)
(***************************************************************************)
EXTENDS Integers, FiniteSets

CONSTANTS Thread,
          MaxNode,  \* nodes are 1 .. MaxNode, compared as OrderNodes does
          Setups    \* the networks, records of
                    \*   net: each node's neighbours, remote: ghost nodes,
                    \*   owned: ghosts whose segments this domain owns,
                    \*   pinned, corner: nodes with these constraints,
                    \*   coarsen: nodes that may be listed for coarsening,
                    \*   refine: pairs that may be listed for refinement

Node == 1 .. MaxNode
NoNode == 0

\* A new node per listed segment fits (NewNode grows nodeKeys if need be).
ASSUME SetupsAssumption ==
  /\ MaxNode \in Nat
  /\ \A s \in Setups :
       /\ DOMAIN s.net \subseteq Node
       /\ \A n \in DOMAIN s.net :
            /\ s.net[n] \subseteq DOMAIN s.net \ {n}
            /\ \A m \in s.net[n] : n \in s.net[m]
            /\ Cardinality(s.net[n]) = 1 => n \in s.pinned \cup s.remote
       /\ s.owned \subseteq s.remote /\ s.refine \subseteq Node \X Node
       /\ Cardinality(DOMAIN s.net)
            + Cardinality({{p[1], p[2]} : p \in s.refine}) <= MaxNode

VARIABLES
  setup,    \* stays as it is
  net,      \* the network as it is now
  reset,    \* nodes flagged NODE_RESET_FORCES
  exempt,   \* nodes flagged NO_MESH_COARSEN
  phase,
  todo,     \* list entries no thread has taken in the present loop
  coarsen,  \* coarsenList: per listed node its neighbours and the status
  refine,   \* refineList: per pair the new node, NoNode if not COMMITTED
  worker    \* what each thread is at

vars == <<setup, net, reset, exempt, phase, todo, coarsen, refine, worker>>
lists == <<coarsen, refine>>

Remote(n)  == n \in setup.remote
Exists(n)  == n \in DOMAIN net           \* GetNodeFromTag is not NULL
OwnsSeg(n) == ~Remote(n) \/ n \in setup.owned  \* the segments local node - n
Constrained == setup.pinned \cup setup.corner

Idle == [pc |-> "idle"]
WorkersIdle == \A t \in Thread : worker[t] = Idle
Become(t, w) == worker' = [worker EXCEPT ![t] = w]
-----------------------------------------------------------------------------
(* Remesh has just called InitTopologyExemptions: no node is exempt.       *)
Init ==
  /\ setup \in Setups
  /\ net = setup.net
  /\ reset = {} /\ exempt = {}
  /\ phase = "coarsenList" /\ todo = {}
  /\ coarsen = << >> /\ refine = << >>
  /\ worker = [t \in Thread |-> Idle]

(* The phases follow each other when every entry is taken and done.        *)
Begin(p, entries) == phase' = p /\ todo' = entries
LoopEnds(p) == phase = p /\ todo = {} /\ WorkersIdle

(* Only reads: the threads' parts of the list add up to some set of nodes. *)
Coarsenable(n) ==
  /\ n \in setup.coarsen /\ ~Remote(n)
  /\ Cardinality(net[n]) = 2 /\ n \notin setup.pinned /\ n \notin exempt
  /\ \A m \in net[n] : OwnsSeg(m)

ListCoarsen ==
  /\ phase = "coarsenList"
  /\ \E S \in SUBSET {n \in DOMAIN net : Coarsenable(n)} :
     \E arm0 \in [S -> Node] :
       /\ \A n \in S : arm0[n] \in net[n]
       /\ coarsen' = [n \in S |->
            [nbr1 |-> arm0[n], nbr2 |-> CHOOSE m \in net[n] : m # arm0[n],
             status |-> "PENDING"]]
       /\ Begin("coarsen", S)
  /\ UNCHANGED <<setup, net, reset, exempt, refine, worker>>

(* ProceedWithCoarsen: has a committed entry a node in common.             *)
Triple(n) == {n, coarsen[n].nbr1, coarsen[n].nbr2}
Committed(n) == coarsen[n].status = "COMMITTED"
NodesOnly(n) == \A m \in DOMAIN coarsen : Committed(m) => n \notin Triple(m)
ProceedWithCoarsen(n) ==
  \A m \in DOMAIN coarsen : Committed(m) => Triple(n) \cap Triple(m) = {}

CommitOrReject(t) ==
  /\ phase = "coarsen" /\ worker[t] = Idle
  /\ \E n \in todo :
       /\ todo' = todo \ {n}
       /\ \/ /\ ProceedWithCoarsen(n)
             /\ coarsen' = [coarsen EXCEPT ![n].status = "COMMITTED"]
             /\ Become(t, [pc |-> "read", node |-> n])
          \/ /\ ~ProceedWithCoarsen(n)
             /\ coarsen' = [coarsen EXCEPT ![n].status = "REJECTED"]
             /\ UNCHANGED worker
  /\ UNCHANGED <<setup, net, reset, exempt, phase, refine>>

(* Outside any critical section: the structures are looked up, a corner    *)
(* chooses which of its arms may be merged, and the arms of both           *)
(* neighbours decide whether other domains must be told.                   *)
GlobalOp(n) ==
  \E m \in Triple(n) \ {n} : Remote(m) \/ \E k \in net[m] : Remote(k)

MergeAllowed(n, allowed) ==
  \A m \in Triple(n) \ {n} : {n, m} \cap setup.corner = {} => m \in allowed

ReadNeighbours(t) ==
  /\ worker[t].pc = "read"
  /\ LET n == worker[t].node IN
     \E allowed \in SUBSET (Triple(n) \ {n}) :
       /\ MergeAllowed(n, allowed)
       /\ Become(t, IF allowed = {} \/ \E m \in Triple(n) : ~Exists(m) THEN Idle
                    ELSE [pc |-> "estimated", node |-> n, allowed |-> allowed,
                          globalOp |-> GlobalOp(n)])
  /\ UNCHANGED <<setup, net, reset, exempt, phase, todo, lists>>

(* CRIT_COARSEN_C.  MergeNode sets flags of the neighbours of the removed  *)
(* node by a plain read and write while the threads outside may set others *)
(* of the same word: the flags are read here and written at the end.       *)
EnterMerge(t) ==
  /\ worker[t].pc = "estimated"
  /\ \A u \in Thread : worker[u].pc # "merging"
  /\ Become(t, [pc |-> "merging", node |-> worker[t].node,
                allowed |-> worker[t].allowed,
                readReset |-> reset, readExempt |-> exempt])
  /\ UNCHANGED <<setup, net, reset, exempt, phase, todo, lists>>
-----------------------------------------------------------------------------
(* MergeNode, as in Topology but without Burgers vectors.                  *)
Deletable(n) ==
  /\ ~Remote(n) /\ n \notin Constrained /\ n \notin exempt
  /\ \A m \in net[n] : OwnsSeg(m)
MayDoubleLink(target, dead) ==
  \A x \in net[target] \cap net[dead] :
    \/ ~Remote(target) /\ OwnsSeg(x)
    \/ ~Remote(x) /\ OwnsSeg(target)

Dead(n, m)   == IF Deletable(n) THEN n ELSE m
Target(n, m) == IF Deletable(n) THEN m ELSE n
CanMerge(n, m) == Deletable(Dead(n, m)) /\ MayDoubleLink(Target(n, m), Dead(n, m))

(* Whether the links of a double link cancel: the Burgers vectors of a     *)
(* free node add up to zero, so it is never left with one arm.             *)
Conserved(f) ==
  \A n \in DOMAIN f \ (setup.pinned \cup setup.remote) : Cardinality(f[n]) # 1

OneWay(target, dead, cancel) ==
  [n \in DOMAIN net \ {dead} |->
     IF n = target THEN (net[n] \cup net[dead]) \ {target, dead}
     ELSE IF cancel THEN net[n] \ {dead}
     ELSE IF dead \in net[n] THEN (net[n] \ {dead}) \cup {target} ELSE net[n]]
Relinked(target, dead, cancel) ==
  LET double == IF cancel THEN net[target] \cap net[dead] ELSE {} IN
  [n \in DOMAIN net \ {dead} |->
     IF n = target THEN (net[n] \cup net[dead]) \ ({target, dead} \cup double)
     ELSE IF n \in double THEN net[n] \ {target, dead}
     ELSE IF dead \in net[n] THEN (net[n] \ {dead}) \cup {target}
     ELSE net[n]]

(* Local nodes left without arms are removed.                              *)
Unorphaned(f) ==
  [n \in {m \in DOMAIN f : Remote(m) \/ f[m] # {}} |-> f[n]]

(* The merge is tried with the first neighbour, then with the second.      *)
Mergeable(t, m) ==
  m \in worker[t].allowed /\ m \notin exempt /\ CanMerge(worker[t].node, m)
Partner(t) ==
  LET e == coarsen[worker[t].node] IN
  IF Mergeable(t, e.nbr1) THEN e.nbr1
  ELSE IF Mergeable(t, e.nbr2) THEN e.nbr2 ELSE NoNode

Merge(t) ==
  LET n == worker[t].node
      dead == Dead(n, Partner(t))
      target == Target(n, Partner(t))
  IN \E cancel \in BOOLEAN, late \in SUBSET (net[dead] \ {target}) :
       /\ Conserved(Relinked(target, dead, cancel))
       /\ net' = Unorphaned(Relinked(target, dead, cancel))
       /\ reset' = ((reset \ late) \cup (worker[t].readReset \cap late))
                     \cup (IF net[dead] = {target} THEN {} ELSE {target})
       /\ exempt' = (exempt \ late) \cup (worker[t].readExempt \cap late)
       /\ Become(t, [pc |-> "merged", node |-> n,
                     mergedNode |-> IF target \in DOMAIN net' THEN target ELSE NoNode])

LeaveMerge(t) ==
  /\ worker[t].pc = "merging"
  /\ \/ Partner(t) # NoNode /\ Merge(t)
     \/ Partner(t) = NoNode /\ Become(t, Idle) /\ UNCHANGED <<net, reset, exempt>>
  /\ UNCHANGED <<setup, phase, todo, lists>>

(* The ends of the new segment: the neighbours, or what has replaced one   *)
(* of them.                                                                *)
NbrsGoneAgain(e, other) == <<e.nbr1, e.nbr2>>
EndsOf(e, other) ==
  IF ~Exists(e.nbr1) THEN <<other, e.nbr2>>
  ELSE IF ~Exists(e.nbr2) THEN <<e.nbr1, other>>
  ELSE <<e.nbr1, e.nbr2>>

ResetEnds(t) ==
  /\ worker[t].pc = "merged"
  /\ LET e == coarsen[worker[t].node]
         ends == EndsOf(e, worker[t].mergedNode)
     IN \/ /\ Exists(ends[1]) /\ Exists(ends[2])
           /\ exempt' = exempt \cup {worker[t].mergedNode}
           /\ reset' = reset \cup {ends[1], ends[2]}
        \/ /\ ~(Exists(ends[1]) /\ Exists(ends[2]))
           /\ UNCHANGED <<exempt, reset>>
  /\ Become(t, Idle)
  /\ UNCHANGED <<setup, net, phase, todo, lists>>
-----------------------------------------------------------------------------
(* The second loop: the forces of the ends and of all their neighbours are *)
(* out of date.                                                            *)
StartMark ==
  /\ LoopEnds("coarsen") /\ Begin("mark", DOMAIN coarsen)
  /\ UNCHANGED <<setup, net, reset, exempt, lists, worker>>

EndsOnly(m) == {m}
AndNeighbours(m) == {m} \cup net[m]

MarkEnds ==
  /\ phase = "mark"
  /\ \E n \in todo :
       LET ends == EndsOf(coarsen[n], n) IN
       /\ todo' = todo \ {n}
       /\ reset' = IF Committed(n) /\ Exists(ends[1]) /\ Exists(ends[2])
                   THEN reset \cup AndNeighbours(ends[1]) \cup AndNeighbours(ends[2])
                   ELSE reset
  /\ UNCHANGED <<setup, net, exempt, phase, lists, worker>>

(* MeshRefine lists segments this domain owns, from either end.            *)
Refinable(n, m) ==
  /\ ~Remote(n) /\ n \notin setup.pinned /\ OwnsSeg(m)
  /\ \/ Cardinality(net[n]) = 2 /\ ~({n, m} \subseteq reset)
     \/ Cardinality(net[n]) # 2 /\ n < m

BothDirections(S) == TRUE
ListedOnce(S) == \A p \in S : <<p[2], p[1]>> \notin S

ListRefine ==
  /\ LoopEnds("mark")
  /\ \E S \in SUBSET {p \in setup.refine : /\ p[1] \in DOMAIN net /\ p[2] \in net[p[1]]
                                           /\ Refinable(p[1], p[2])} :
       /\ ListedOnce(S)
       /\ refine' = [p \in S |-> NoNode]
       /\ Begin("refine", S)
  /\ UNCHANGED <<setup, net, reset, exempt, coarsen, worker>>

(* The locks of the two nodes, one after the other.                        *)
Locked(n) ==
  \E t \in Thread : \/ worker[t].pc = "locked1" /\ n = worker[t].seg[1]
                    \/ worker[t].pc = "locked2" /\ n \in {worker[t].seg[1], worker[t].seg[2]}

LockFirst(t) ==
  /\ phase = "refine" /\ worker[t] = Idle
  /\ \E p \in todo :
       /\ ~Locked(p[1])
       /\ todo' = todo \ {p}
       /\ Become(t, [pc |-> "locked1", seg |-> p])
  /\ UNCHANGED <<setup, net, reset, exempt, phase, lists>>

LockSecond(t) ==
  /\ worker[t].pc = "locked1"
  /\ ~Locked(worker[t].seg[2])
  /\ Become(t, [worker[t] EXCEPT !.pc = "locked2"])
  /\ UNCHANGED <<setup, net, reset, exempt, phase, todo, lists>>

(* CRIT_REFINE_SEG: SplitNode moves the arm to a node under the lowest     *)
(* free tag; then both locks are released.                                 *)
NewNode == CHOOSE k \in Node \ DOMAIN net : \A j \in Node \ DOMAIN net : k <= j
Bisected(n, m) ==
  [k \in DOMAIN net \cup {NewNode} |->
     IF k = NewNode THEN {n, m}
     ELSE IF k = n THEN (net[k] \ {m}) \cup {NewNode}
     ELSE IF k = m THEN (net[k] \ {n}) \cup {NewNode}
     ELSE net[k]]

SplitAndUnlock(t) ==
  /\ worker[t].pc = "locked2"
  /\ LET p == worker[t].seg
         linked == p[2] \in net[p[1]]
         fresh == IF linked THEN {NewNode} ELSE {}
     IN /\ net' = IF linked THEN Bisected(p[1], p[2]) ELSE net
        /\ refine' = [refine EXCEPT ![p] = IF linked THEN NewNode ELSE NoNode]
        /\ reset' = reset \ fresh /\ exempt' = exempt \ fresh
  /\ Become(t, Idle)
  /\ UNCHANGED <<setup, phase, todo, coarsen>>

StartForces ==
  /\ LoopEnds("refine") /\ Begin("forces", DOMAIN refine)
  /\ UNCHANGED <<setup, net, reset, exempt, lists, worker>>

ResetForces ==
  /\ phase = "forces"
  /\ \E p \in todo :
       /\ todo' = todo \ {p}
       /\ reset' = IF refine[p] # NoNode THEN reset \cup {p[1], p[2], refine[p]}
                   ELSE reset
  /\ UNCHANGED <<setup, net, exempt, phase, lists, worker>>

Done ==
  /\ LoopEnds("forces") /\ Begin("done", {})
  /\ UNCHANGED <<setup, net, reset, exempt, lists, worker>>

Finished == phase = "done" /\ UNCHANGED vars
-----------------------------------------------------------------------------
ThreadStep(t) ==
  \/ CommitOrReject(t) \/ ReadNeighbours(t) \/ EnterMerge(t) \/ LeaveMerge(t)
  \/ ResetEnds(t) \/ LockFirst(t) \/ LockSecond(t) \/ SplitAndUnlock(t)

LoopStep == ListCoarsen \/ StartMark \/ MarkEnds \/ ListRefine \/ StartForces
            \/ ResetForces \/ Done

Next == LoopStep \/ Finished \/ \E t \in Thread : ThreadStep(t)

Spec == Init /\ [][Next]_vars

(* The threads are scheduled by the operating system: one that can go on   *)
(* does.  A list is whatever the geometry makes it, but it gets made.      *)
FairSpec == Spec /\ WF_vars(LoopStep) /\ \A t \in Thread : WF_vars(ThreadStep(t))
-----------------------------------------------------------------------------
(* The links have two ends, and the threads' positions fit the phase.      *)
TypeOK ==
  /\ setup \in Setups
  /\ DOMAIN net \subseteq Node
  /\ \A n \in DOMAIN net : /\ net[n] \subseteq DOMAIN net \ {n}
                           /\ \A m \in net[n] : n \in net[m]
  /\ reset \subseteq Node /\ exempt \subseteq Node
  /\ DOMAIN coarsen \subseteq Node
  /\ \A n \in DOMAIN coarsen :
       coarsen[n].status \in {"PENDING", "COMMITTED", "REJECTED"}
  /\ \A p \in DOMAIN refine : refine[p] \in Node \cup {NoNode}
  /\ \A t \in Thread :
       \/ worker[t].pc = "idle"
       \/ phase = "coarsen" /\ worker[t].pc \in {"read", "estimated", "merging", "merged"}
       \/ phase = "refine" /\ worker[t].pc \in {"locked1", "locked2"}

(* Remesh.cc:865: once an entry is committed, no other thread removes its  *)
(* node or a neighbour, or takes an arm of its node away, until it has     *)
(* merged; and mergedNode is not NULL when it is used.                     *)
CommittedIntact ==
  \A t \in Thread :
    /\ worker[t].pc \in {"read", "estimated", "merging"} =>
         LET n == worker[t].node IN
         /\ \A m \in Triple(n) : Exists(m)
         /\ net[n] = Triple(n) \ {n}
    /\ worker[t].pc = "merged" =>
         LET ends == EndsOf(coarsen[worker[t].node], worker[t].mergedNode) IN
         Exists(ends[1]) /\ Exists(ends[2]) => worker[t].mergedNode # NoNode

(* Remesh.cc:912: globalOp is decided from arms that other threads are     *)
(* changing; when the merge logs its operations, or does not, the decision *)
(* is still the right one.                                                 *)
GlobalOpCurrent ==
  \A t \in Thread :
    worker[t].pc = "estimated" =>
      worker[t].globalOp = GlobalOp(worker[t].node)

(* What a thread has read outside the critical section still holds when    *)
(* it acts on it inside.                                                   *)
EntriesStand == CommittedIntact /\ GlobalOpCurrent

(* Remesh.cc:1060: when the coarsening is over, every local node with a    *)
(* new neighbour has its forces marked as out of date, whatever updates of *)
(* the flags were lost on the way.  The exception: when the merge around a *)
(* corner has removed both its neighbours, only the corner is marked.      *)
BothNbrsGone(n) ==
  /\ n \in DOMAIN coarsen /\ Committed(n)
  /\ \A m \in Triple(n) \ {n} : ~Exists(m)
ForcesMarked ==
  phase = "mark" /\ todo = {} =>
    \A n \in DOMAIN net \ setup.remote : \A m \in net[n] \ setup.net[n] :
      n \in reset \/ (BothNbrsGone(m) /\ m \in reset)

(* RemeshRule_2.cc:430: the remesh ends, every listed segment refined.     *)
RemeshEnds ==
  <>(phase = "done" /\ \A p \in DOMAIN refine : refine[p] # NoNode)
=============================================================================
