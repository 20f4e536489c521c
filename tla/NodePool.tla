------------------------------- MODULE NodePool -------------------------------
(***************************************************************************)
(* The per-domain pool of Node_t structures and the table of local tags:   *)
(* QueueOps.cc, GetNewNativeNode.cc, GetNewGhostNode.cc, FreeNode and the  *)
(* tag functions of Util.cc, CompressNodeKeyArray and the threaded unpack  *)
(* of CommSendGhosts.cc, and the temporary ghost of SMNSupport.cc.         *)
(*                                                                         *)
(* The three intrusive queues share the field Node_t::next, so they are    *)
(* modelled as the code has them: a head, a tail pointer and a `next'      *)
(* function, never as sequences.  Node_t structures are the numbers        *)
(* 1 .. nodeCount; a block of BlockCount of them is allocated at a time.   *)
(* The heap of recycled tags is the set of its members (Heap.tla shows     *)
(* that the array heap behaves as one), and nodeKeys is the partial        *)
(* function from the tags in use to their structures.                      *)
(*                                                                         *)
(* The definitions named in "Mutants" of the README (here PopLastPastEnd,  *)
(* HeapUnchanged, KeyPtrOfNewTag, KeysStale, AnyFreeTag, NoCritical) are   *)
(* plausible bugs, used only to see the properties fail.                   *)
(***************************************************************************)
EXTENDS Integers, Sequences, FiniteSets

CONSTANTS BlockCount,   \* NODE_BLOCK_COUNT
          Thread,       \* the OpenMP threads unpacking ghosts
          NoThread,     \* the holder of a free critical section
          MaxImport,    \* most ghosts one thread imports in a cycle
          InitTags      \* tags a restart file may hold

ASSUME BlockCountAssumption == BlockCount \in Nat \ {0}
ASSUME InitTagsAssumption   == InitTags \subseteq Nat
ASSUME MaxImportAssumption  == MaxImport \in Nat
ASSUME NoThreadAssumption   == NoThread \notin Thread

NULL == 0


VARIABLES
  nodeCount,      \* structures in the blocks allocated so far
  next,           \* Node_t::next of each of them
  freeNodeQ, lastFreeNode, nativeNodeQ, ghostNodeQ, lastGhostNode,
  ghostNodeList,  \* the array view of the ghost queue
  nodeKeys, newNodeKeyPtr, recycledNodeHeap,
  tagMap,         \* <<old, new>> pairs recorded by the compression
  phase, ci,      \* place in the cycle; index of the compression loop
  pc, want, tmpNodePtrs, freeLock, ghostLock, \* the unpacking threads
  smnNode         \* the temporary ghost of a multi-node split

queueVars  == <<nodeCount, next, freeNodeQ, lastFreeNode, nativeNodeQ,
                ghostNodeQ, lastGhostNode, ghostNodeList>>
tagVars    == <<nodeKeys, newNodeKeyPtr, recycledNodeHeap, tagMap>>
threadVars == <<pc, want, tmpNodePtrs, freeLock, ghostLock>>
vars == <<queueVars, tagVars, threadVars, phase, ci, smnNode>>

Nodes == 1 .. nodeCount
Live  == DOMAIN nodeKeys
SetMin(S) == CHOOSE i \in S : \A j \in S : i <= j
-----------------------------------------------------------------------------
(* PopFreeNodeQ: the state it leaves, given the state it finds. *)

PopCount == IF freeNodeQ = NULL THEN nodeCount + BlockCount ELSE nodeCount
PopNode  == IF freeNodeQ = NULL THEN nodeCount + 1 ELSE freeNodeQ
PopLastPastEnd == IF freeNodeQ = NULL THEN PopCount + 1 ELSE lastFreeNode
PopLast  == IF freeNodeQ = NULL THEN PopCount ELSE lastFreeNode
PopNext  == [n \in 1 .. PopCount |->
               IF n <= nodeCount THEN next[n]
               ELSE IF n = PopCount THEN NULL ELSE n + 1]

(* GetFreeNodeTag: the lowest recycled tag, or a new one at the end. *)
FreeNodeTag == IF recycledNodeHeap = {} THEN newNodeKeyPtr
                                        ELSE SetMin(recycledNodeHeap)
HeapUnchanged == recycledNodeHeap
HeapAfterTag == recycledNodeHeap \ {FreeNodeTag}
KeyPtrOfNewTag == IF recycledNodeHeap = {} THEN newNodeKeyPtr + 1
                                           ELSE newNodeKeyPtr
KeyPtrAfterTag == IF FreeNodeTag >= newNodeKeyPtr THEN FreeNodeTag + 1
                                                  ELSE newNodeKeyPtr
-----------------------------------------------------------------------------
Init ==
  /\ nodeCount = 0 /\ next = <<>>
  /\ freeNodeQ = NULL /\ lastFreeNode = NULL
  /\ nativeNodeQ = NULL /\ ghostNodeQ = NULL /\ lastGhostNode = NULL
  /\ ghostNodeList = <<>>
  /\ nodeKeys = <<>> /\ newNodeKeyPtr = 0 /\ recycledNodeHeap = {}
  /\ tagMap = {}
  /\ phase = "read" /\ ci = 0
  /\ pc = [t \in Thread |-> "done"] /\ want = [t \in Thread |-> 0]
  /\ tmpNodePtrs = [t \in Thread |-> <<>>]
  /\ freeLock = NoThread /\ ghostLock = NoThread
  /\ smnNode = NULL

(* nodeKeys after tag i is given to structure n, and after it is freed. *)
KeysWith(i, n) == [j \in Live \cup {i} |-> IF j = i THEN n ELSE nodeKeys[j]]
KeysStale(i)   == nodeKeys
KeysWithout(i) == [j \in Live \ {i} |-> nodeKeys[j]]

(* One node of UnpackInitialNodeData: GetNewTag keeps the tag of the       *)
(* restart file or takes the next unused one.                              *)
UnpackInitialNode(i) ==
  /\ phase = "read"
  /\ i \notin Live
  /\ next' = [PopNext EXCEPT ![PopNode] = nativeNodeQ]
  /\ freeNodeQ' = PopNext[PopNode]
  /\ lastFreeNode' = PopLast /\ nodeCount' = PopCount
  /\ nativeNodeQ' = PopNode
  /\ nodeKeys' = KeysWith(i, PopNode)
  /\ newNodeKeyPtr' = IF i >= newNodeKeyPtr THEN i + 1 ELSE newNodeKeyPtr
  /\ UNCHANGED <<ghostNodeQ, lastGhostNode, ghostNodeList, recycledNodeHeap,
                 tagMap, threadVars, phase, ci, smnNode>>

(* Every unused tag below newNodeKeyPtr goes on the heap; the domain then  *)
(* enters CommSendGhosts.                                                  *)
InitRecycleNodeHeap ==
  /\ phase = "read" /\ Live # {}
  /\ recycledNodeHeap' = (0 .. newNodeKeyPtr - 1) \ Live
  /\ phase' = "compress" /\ ci' = newNodeKeyPtr - 1
  /\ UNCHANGED <<queueVars, nodeKeys, newNodeKeyPtr, tagMap,
                 threadVars, smnNode>>
-----------------------------------------------------------------------------
(* CompressNodeKeyArray: from the highest index down, move a node into the *)
(* lowest free slot, until no lower slot is free.                          *)

AnyFreeTag == recycledNodeHeap # {}
CanMove == recycledNodeHeap # {} /\ SetMin(recycledNodeHeap) <= ci

CompressSkip ==
  /\ phase = "compress" /\ ci > 0 /\ ci \notin Live
  /\ ci' = ci - 1
  /\ UNCHANGED <<queueVars, tagVars, threadVars, phase, smnNode>>

CompressMove ==
  /\ phase = "compress" /\ ci > 0 /\ ci \in Live /\ CanMove
  /\ nodeKeys' = [j \in (Live \ {ci}) \cup {FreeNodeTag} |->
                    IF j = FreeNodeTag THEN nodeKeys[ci] ELSE nodeKeys[j]]
  /\ recycledNodeHeap' = HeapAfterTag \cup {ci}
  /\ newNodeKeyPtr' = KeyPtrAfterTag - 1
  /\ tagMap' = tagMap \cup {<<ci, FreeNodeTag>>}
  /\ ci' = ci - 1
  /\ UNCHANGED <<queueVars, threadVars, phase, smnNode>>

(* The loop ends; CommUnpackGhosts then learns how many ghosts each        *)
(* thread's domains sent (k).                                              *)
CompressEnd(k) ==
  /\ phase = "compress"
  /\ ci <= 0 \/ (ci \in Live /\ ~CanMove)
  /\ phase' = "import" /\ want' = k
  /\ pc' = [t \in Thread |-> IF k[t] = 0 THEN "done" ELSE "pop"]
  /\ UNCHANGED <<queueVars, tagVars, ci, tmpNodePtrs, freeLock, ghostLock,
                 smnNode>>
-----------------------------------------------------------------------------
(* CommUnpackGhosts, one thread.  PopFreeNodeQ runs want[t] times inside   *)
(* critical (FREE_NODE_Q) and is split after its read of the head; pushing *)
(* runs inside critical (GHOST_NODE_Q) and is split before the new head is *)
(* published.                                                              *)

NoCritical(t) == TRUE
FreeQCritical(t)  == freeLock \in {NoThread, t}
GhostQCritical(t) == ghostLock \in {NoThread, t}

(* If the queue is empty a block is allocated; then the head is read. *)
PopReadHead(t) ==
  /\ pc[t] = "pop" /\ FreeQCritical(t)
  /\ freeLock' = t
  /\ next' = PopNext
  /\ lastFreeNode' = PopLast /\ nodeCount' = PopCount
  /\ freeNodeQ' = PopNode
  /\ tmpNodePtrs' = [tmpNodePtrs EXCEPT ![t] = Append(@, PopNode)]
  /\ pc' = [pc EXCEPT ![t] = "unlink"]
  /\ UNCHANGED <<nativeNodeQ, ghostNodeQ, lastGhostNode, ghostNodeList,
                 tagVars, want, ghostLock, phase, ci, smnNode>>

LastPopped(t) == tmpNodePtrs[t][Len(tmpNodePtrs[t])]
AllPopped(t)  == Len(tmpNodePtrs[t]) = want[t]

PopUnlink(t) ==
  /\ pc[t] = "unlink"
  /\ freeNodeQ' = next[LastPopped(t)]
  /\ pc' = [pc EXCEPT ![t] = IF AllPopped(t) THEN "push" ELSE "pop"]
  /\ freeLock' = IF AllPopped(t) THEN NoThread ELSE freeLock
  /\ UNCHANGED <<nodeCount, next, lastFreeNode, nativeNodeQ, ghostNodeQ,
                 lastGhostNode, ghostNodeList, tagVars, want, tmpNodePtrs,
                 ghostLock, phase, ci, smnNode>>

(* PushGhostNodeQ, up to the assignment of node->next. *)
PushGhostLink(t) ==
  /\ pc[t] = "push" /\ GhostQCritical(t)
  /\ ghostLock' = t
  /\ LET n == Head(tmpNodePtrs[t]) IN
       /\ lastGhostNode' = IF ghostNodeQ = NULL THEN n ELSE lastGhostNode
       /\ next' = [next EXCEPT ![n] = ghostNodeQ]
  /\ pc' = [pc EXCEPT ![t] = "publish"]
  /\ UNCHANGED <<nodeCount, freeNodeQ, lastFreeNode, nativeNodeQ, ghostNodeQ,
                 ghostNodeList, tagVars, want, tmpNodePtrs, freeLock, phase,
                 ci, smnNode>>

LastPush(t) == Len(tmpNodePtrs[t]) = 1

PushGhostPublish(t) ==
  /\ pc[t] = "publish"
  /\ LET n == Head(tmpNodePtrs[t]) IN
       /\ ghostNodeQ' = n
       /\ ghostNodeList' = Append(ghostNodeList, n)
  /\ tmpNodePtrs' = [tmpNodePtrs EXCEPT ![t] = Tail(@)]
  /\ pc' = [pc EXCEPT ![t] = IF LastPush(t) THEN "done" ELSE "push"]
  /\ ghostLock' = IF LastPush(t) THEN NoThread ELSE ghostLock
  /\ UNCHANGED <<nodeCount, next, freeNodeQ, lastFreeNode, nativeNodeQ,
                 lastGhostNode, tagVars, want, freeLock, phase, ci, smnNode>>

ThreadStep(t) ==
  /\ phase = "import"
  /\ PopReadHead(t) \/ PopUnlink(t) \/ PushGhostLink(t) \/ PushGhostPublish(t)

(* The parallel region ends (its locals go with it) and                    *)
(* ReconcileCompressedNodeKeys clears the map.                             *)
EndCommSendGhosts ==
  /\ phase = "import" /\ \A t \in Thread : pc[t] = "done"
  /\ phase' = "topology" /\ tagMap' = {}
  /\ want' = [t \in Thread |-> 0] /\ ci' = 0
  /\ UNCHANGED <<queueVars, nodeKeys, newNodeKeyPtr, recycledNodeHeap, pc,
                 tmpNodePtrs, freeLock, ghostLock, smnNode>>
-----------------------------------------------------------------------------
(* Topological changes and migration. *)

(* GetNewNativeNode, and one node of UnpackMigrators. *)
GetNewNativeNode ==
  /\ phase = "topology" /\ smnNode = NULL
  /\ next' = PopNext
  /\ freeNodeQ' = PopNext[PopNode]
  /\ lastFreeNode' = PopLast /\ nodeCount' = PopCount
  /\ nodeKeys' = KeysWith(FreeNodeTag, PopNode)
  /\ recycledNodeHeap' = HeapAfterTag
  /\ newNodeKeyPtr' = KeyPtrAfterTag
  /\ UNCHANGED <<nativeNodeQ, ghostNodeQ, lastGhostNode, ghostNodeList,
                 tagMap, threadVars, phase, ci, smnNode>>

(* FreeNode: the tag is recycled and the structure pushed on freeNodeQ.    *)
FreeNode(i) ==
  /\ phase = "topology" /\ smnNode = NULL
  /\ i \in Live
  /\ recycledNodeHeap' = recycledNodeHeap \cup {i}
  /\ next' = [next EXCEPT ![nodeKeys[i]] = freeNodeQ]
  /\ freeNodeQ' = nodeKeys[i]
  /\ nodeKeys' = KeysWithout(i)
  /\ UNCHANGED <<nodeCount, lastFreeNode, nativeNodeQ, ghostNodeQ,
                 lastGhostNode, ghostNodeList, newNodeKeyPtr, tagMap, threadVars,
                 phase, ci, smnNode>>

(* Pop and PushGhostNodeQ, called by one thread. *)
AddGhost ==
  /\ next' = [PopNext EXCEPT ![PopNode] = ghostNodeQ]
  /\ freeNodeQ' = PopNext[PopNode]
  /\ lastFreeNode' = PopLast /\ nodeCount' = PopCount
  /\ lastGhostNode' = IF ghostNodeQ = NULL THEN PopNode ELSE lastGhostNode
  /\ ghostNodeQ' = PopNode
  /\ ghostNodeList' = Append(ghostNodeList, PopNode)

(* GetNewGhostNode, as FixRemesh calls it for a node split elsewhere.      *)
GetNewGhostNode ==
  /\ phase = "topology" /\ smnNode = NULL
  /\ AddGhost
  /\ UNCHANGED <<nativeNodeQ, tagVars, threadVars, phase, ci, smnNode>>

(* The trial split of a ghost (SplitGhostNode) adds a ghost ...            *)
SplitGhostNode ==
  /\ phase = "topology" /\ smnNode = NULL /\ ghostNodeQ # NULL
  /\ AddGhost
  /\ smnNode' = PopNode
  /\ UNCHANGED <<nativeNodeQ, tagVars, threadVars, phase, ci>>

(* ... and MergeGhostNode takes it off the head of the queue again.        *)
MergeGhostNode ==
  /\ smnNode # NULL
  /\ ghostNodeQ' = next[smnNode]
  /\ ghostNodeList' = SubSeq(ghostNodeList, 1, Len(ghostNodeList) - 1)
  /\ next' = [next EXCEPT ![smnNode] = freeNodeQ]
  /\ freeNodeQ' = smnNode
  /\ smnNode' = NULL
  /\ UNCHANGED <<nodeCount, lastFreeNode, nativeNodeQ, lastGhostNode, tagVars,
                 threadVars, phase, ci>>

(* RecycleGhostNodes splices the ghost queue behind lastFreeNode; the      *)
(* domain then sorts its nodes and enters CommSendGhosts.                  *)
RecycleGhostNodes ==
  /\ phase = "topology" /\ smnNode = NULL
  /\ IF ghostNodeQ = NULL
       THEN UNCHANGED queueVars
       ELSE /\ freeNodeQ' = IF freeNodeQ = NULL THEN ghostNodeQ ELSE freeNodeQ
            /\ next' = IF freeNodeQ = NULL THEN next
                       ELSE [next EXCEPT ![lastFreeNode] = ghostNodeQ]
            /\ lastFreeNode' = lastGhostNode
            /\ lastGhostNode' = NULL /\ ghostNodeQ' = NULL
            /\ ghostNodeList' = <<>>
            /\ UNCHANGED <<nodeCount, nativeNodeQ>>
  /\ phase' = "compress" /\ ci' = newNodeKeyPtr - 1
  /\ UNCHANGED <<tagVars, threadVars, smnNode>>
-----------------------------------------------------------------------------
Next ==
  \/ \E i \in InitTags : UnpackInitialNode(i)
  \/ InitRecycleNodeHeap
  \/ CompressSkip \/ CompressMove
  \/ \E k \in [Thread -> 0 .. MaxImport] : CompressEnd(k)
  \/ \E t \in Thread : ThreadStep(t)
  \/ EndCommSendGhosts
  \/ GetNewNativeNode \/ GetNewGhostNode
  \/ \E i \in Live : FreeNode(i)
  \/ SplitGhostNode \/ MergeGhostNode
  \/ RecycleGhostNodes

Spec == Init /\ [][Next]_vars
-----------------------------------------------------------------------------
(* Properties. *)

TypeOK ==
  /\ nodeCount \in Nat
  /\ next \in [Nodes -> Nodes \cup {NULL}]
  /\ {freeNodeQ, lastFreeNode, nativeNodeQ, ghostNodeQ, lastGhostNode, smnNode}
       \subseteq Nodes \cup {NULL}
  /\ ghostNodeList \in Seq(Nodes)
  /\ nodeKeys \in [Live -> Nodes] /\ Live \subseteq Nat
  /\ newNodeKeyPtr \in Nat /\ recycledNodeHeap \subseteq Nat
  /\ tagMap \subseteq Nat \X Nat
  /\ phase \in {"read", "compress", "import", "topology"}
  /\ ci \in Int
  /\ pc \in [Thread -> {"pop", "unlink", "push", "publish", "done"}]
  /\ want \in [Thread -> 0 .. MaxImport]
  /\ tmpNodePtrs \in [Thread -> Seq(Nodes)]
  /\ {freeLock, ghostLock} \subseteq Thread \cup {NoThread}

Elems(s)    == {s[j] : j \in 1 .. Len(s)}
Native      == {nodeKeys[i] : i \in Live}
Ghosts      == Elems(ghostNodeList)
InFlight(t) == Elems(tmpNodePtrs[t])
InUse       == Native \cup Ghosts \cup UNION {InFlight(t) : t \in Thread}
Injective(s) == \A j, k \in 1 .. Len(s) : s[j] = s[k] => j = k

(* A Node_t has one role at a time: it is under one local tag, or once in  *)
(* the ghost list, or held by one unpacking thread.  This is what the two  *)
(* critical sections of CommUnpackGhosts and the order of pop and push in  *)
(* every allocation path are for.                                          *)
OneRole ==
  /\ \A i, j \in Live : nodeKeys[i] = nodeKeys[j] => i = j
  /\ Injective(ghostNodeList)
  /\ Native \cap Ghosts = {}
  /\ \A t \in Thread :
       /\ Injective(tmpNodePtrs[t])
       /\ InFlight(t) \cap (Native \cup Ghosts) = {}
       /\ \A u \in Thread \ {t} : InFlight(t) \cap InFlight(u) = {}

(* The head of the free queue once a pop under way has unlinked it. *)
FreeHead == IF \E t \in Thread : pc[t] = "unlink"
              THEN next[LastPopped(CHOOSE t \in Thread : pc[t] = "unlink")]
              ELSE freeNodeQ

(* F holds every structure that can be reached from the free queue. *)
FreeClosed(F) == /\ FreeHead \in F \cup {NULL}
                 /\ \A n \in F : next[n] \in F \cup {NULL}

(* What the free queue leads to is never in use, so no pop can hand out a  *)
(* node, a ghost or another thread's structure, although lastFreeNode,     *)
(* through which RecycleGhostNodes writes, may point anywhere.             *)
FreeNotInUse == \E F \in SUBSET Nodes : FreeClosed(F) /\ F \cap InUse = {}

(* The ghost queue and the ghost array hold the same structures in the     *)
(* same order, with lastGhostNode the oldest: the array is what threaded   *)
(* loops use, the queue and its tail are what is recycled.                 *)
GhostViewsAgree ==
  /\ ghostNodeQ = IF ghostNodeList = <<>> THEN NULL
                  ELSE ghostNodeList[Len(ghostNodeList)]
  /\ ghostNodeList # <<>> => lastGhostNode = ghostNodeList[1]
  /\ \A j \in 1 .. Len(ghostNodeList) :
       next[ghostNodeList[j]] = IF j = 1 THEN NULL ELSE ghostNodeList[j - 1]

(* Every tag below newNodeKeyPtr is either in use or on the recycle heap,  *)
(* never both, and loops bounded by newNodeKeyPtr miss no node.  A tag     *)
(* above newNodeKeyPtr may be on the heap (after a compression), but then  *)
(* all tags below it are accounted for too.                                *)
TagAccounting ==
  /\ Live \cap recycledNodeHeap = {}
  /\ \A i \in Live : i < newNodeKeyPtr
  /\ phase # "read" =>
       /\ 0 .. newNodeKeyPtr - 1 \subseteq Live \cup recycledNodeHeap
       /\ \A i \in recycledNodeHeap : \A j \in 0 .. i : j \in Live \cup recycledNodeHeap

(* A remapping of tags is applied by one lookup per arm, so no tag may be  *)
(* mapped twice, and none may be both the old tag of one node and the new  *)
(* tag of another: what the comment in CompressNodeKeyArray promises.      *)
TagMapIsOneStep ==
  \A p, q \in tagMap : /\ p[1] = q[1] => p = q
                       /\ p[2] = q[2] => p = q
                       /\ p[2] # q[1]

(* A tag in use is never given to another structure without being freed in *)
(* between.                                                                *)
LiveTagKept == \A i \in Live : i \in Live' => nodeKeys'[i] = nodeKeys[i]
TagsNeverReused == [][LiveTagKept]_vars

(* Each structure has one role, and none that is in use can be popped: the *)
(* two halves of what the queues of QueueOps.cc promise.                   *)
RolesSound == OneRole /\ FreeNotInUse

(* Tags are accounted for at every moment, and a change of tags can be     *)
(* followed in one step (GetFreeNodeTag, CompressNodeKeyArray).            *)
TagsSound == TagAccounting /\ TagMapIsOneStep

(* "Put all the nodes in the ghostNodeQ back onto the freeNodeQ"           *)
(* (QueueOps.cc, RecycleGhostNodes).  Not so when the tail is stale: see   *)
(* the README, no run checks it.                                           *)
GhostsReachable ==
  phase = "topology" /\ phase' = "compress" =>
    \A F \in SUBSET Nodes : FreeClosed(F)' => Ghosts \subseteq F
RecycleReturnsAllGhosts == [][GhostsReachable]_vars

(* "compress the array so there are no empty slots in the array"           *)
(* (CommSendGhosts.cc, CompressNodeKeyArray).  Not so behind the last      *)
(* node: see the README, no run checks it.                                 *)
NoEmptySlots == phase = "import" => Live = 0 .. newNodeKeyPtr - 1
=============================================================================
