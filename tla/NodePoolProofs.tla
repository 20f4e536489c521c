--------------------------- MODULE NodePoolProofs ---------------------------
(***************************************************************************)
(* Theorems about NodePool, for any number of nodes, threads, tags and     *)
(* structures per block: the accounting of local tags; then the roles of   *)
(* structures: a Node_t structure never has two, what the free queue leads *)
(* to is never in use, and the two views of the ghosts agree; then the     *)
(* array heap that keeps the recycled tags.                                *)
(*                                                                         *)
(* The free queue may lose structures (lastFreeNode is not kept), so its   *)
(* contents cannot be described as a list from freeNodeQ to lastFreeNode.  *)
(* The argument about roles uses a set F that the queue never leaves, with *)
(* a rank that falls along `next': F holds no structure in use, and since  *)
(* the rank falls, what is popped is not reached again from its successor. *)
(***************************************************************************)
EXTENDS NodePool, Heap, NaturalsInduction, WellFoundedInduction, SequenceTheorems,
        TLAPS

(* The tag part of the state has its type. *)
TagTypeOK ==
  /\ Live \subseteq Nat /\ recycledNodeHeap \subseteq Nat
  /\ newNodeKeyPtr \in Nat /\ ci \in Int
  /\ tagMap \subseteq Nat \X Nat
  /\ phase \in {"read", "compress", "import", "topology"}

(* While the compression loop runs, no node has an index above the loop    *)
(* index, every index vacated so far is above it, and every slot filled so *)
(* far is below all the tags that are still free.                          *)
CompressInv ==
  phase = "compress" =>
    /\ ci < newNodeKeyPtr
    /\ \A i \in Live : i <= ci
    /\ \A p \in tagMap : /\ p[1] > ci /\ p[2] < p[1]
                         /\ \A h \in recycledNodeHeap : p[2] < h

(* The tag map is empty outside CommSendGhosts, the heap before it is      *)
(* initialised.                                                            *)
IdleInv == /\ phase \in {"read", "topology"} => tagMap = {}
           /\ phase = "read" => recycledNodeHeap = {}

TagInv == /\ TagTypeOK
          /\ TagAccounting
          /\ TagMapIsOneStep
          /\ CompressInv
          /\ IdleInv
-----------------------------------------------------------------------------
(* The recycled tag handed out is on the heap and is its least member.     *)
LEMMA SetMinOfNaturals ==
  ASSUME NEW S \in SUBSET Nat, S # {}
  PROVE  SetMin(S) \in S /\ \A j \in S : SetMin(S) <= j
<1>1. \E i \in S : \A j \in S : ~(<<j, i>> \in OpToRel(<, Nat))
  BY NatLessThanWellFounded, WFMin
<1>2. PICK i \in S : \A j \in S : ~(<<j, i>> \in OpToRel(<, Nat))
  BY <1>1
<1>3. ASSUME NEW j \in S PROVE i <= j
  <2>1. <<j, i>> \in Nat \X Nat /\ ~(j < i)
    BY <1>2 DEF OpToRel
  <2> QED BY <2>1
<1>4. \E k \in S : \A j \in S : k <= j
  BY <1>3
<1> QED BY <1>4 DEF SetMin

(* GetFreeNodeTag returns a tag that no node has, leaves newNodeKeyPtr     *)
(* above it, and keeps every tag accounted for.                            *)
LEMMA FreeNodeTagIsFree ==
  ASSUME TagTypeOK, TagAccounting, phase # "read"
  PROVE  /\ FreeNodeTag \in Nat /\ FreeNodeTag \notin Live
         /\ recycledNodeHeap # {} => /\ FreeNodeTag \in recycledNodeHeap
                                     /\ \A h \in recycledNodeHeap : FreeNodeTag <= h
         /\ recycledNodeHeap = {} => FreeNodeTag = newNodeKeyPtr
         /\ KeyPtrAfterTag \in Nat /\ FreeNodeTag < KeyPtrAfterTag
         /\ newNodeKeyPtr <= KeyPtrAfterTag
         /\ KeyPtrAfterTag # newNodeKeyPtr => KeyPtrAfterTag = FreeNodeTag + 1
         /\ \A j \in 0 .. FreeNodeTag : j \in Live \cup recycledNodeHeap \cup {FreeNodeTag}
<1>1. CASE recycledNodeHeap = {}
  BY <1>1 DEF FreeNodeTag, KeyPtrAfterTag, TagTypeOK, TagAccounting
<1>2. CASE recycledNodeHeap # {}
  <2>1. FreeNodeTag \in recycledNodeHeap /\ \A h \in recycledNodeHeap : FreeNodeTag <= h
    BY <1>2, SetMinOfNaturals DEF FreeNodeTag, TagTypeOK
  <2> QED BY <1>2, <2>1 DEF KeyPtrAfterTag, TagTypeOK, TagAccounting
<1> QED BY <1>1, <1>2
-----------------------------------------------------------------------------
LEMMA TagInvInit == Init => TagInv
<1> SUFFICES ASSUME Init PROVE TagInv OBVIOUS
<1>1. Live = {}
  BY DEF Init, Live
<1> QED BY <1>1 DEF Init, TagInv, TagTypeOK, TagAccounting, TagMapIsOneStep,
                    CompressInv, IdleInv

(* A step that leaves the tags, the phase and the loop index alone. *)
LEMMA TagInvStutter ==
  ASSUME TagInv, UNCHANGED <<tagVars, phase, ci>> PROVE TagInv'
BY DEF TagInv, tagVars, TagTypeOK, TagAccounting, TagMapIsOneStep, CompressInv,
       IdleInv, Live

LEMMA TagInvStep == TagInv /\ [Next]_vars => TagInv'
<1> SUFFICES ASSUME TagInv, [Next]_vars PROVE TagInv'
  OBVIOUS
<1> USE DEF TagInv
<1>1. ASSUME NEW i \in InitTags, UnpackInitialNode(i) PROVE TagInv'
  <2>1. Live' = Live \cup {i} /\ i \in Nat
    BY <1>1, InitTagsAssumption DEF UnpackInitialNode, KeysWith, Live
  <2> QED BY <1>1, <2>1
       DEF UnpackInitialNode, TagTypeOK, TagAccounting, TagMapIsOneStep,
           CompressInv, IdleInv
<1>2. CASE InitRecycleNodeHeap
  <2>1. Live' = Live BY <1>2 DEF InitRecycleNodeHeap, Live
  <2> QED BY <1>2, <2>1
       DEF InitRecycleNodeHeap, TagTypeOK, TagAccounting, TagMapIsOneStep,
           CompressInv, IdleInv
<1>3. CASE CompressSkip
  <2>1. Live' = Live BY <1>3 DEF CompressSkip, tagVars, Live
  <2> QED BY <1>3, <2>1
       DEF CompressSkip, tagVars, TagTypeOK, TagAccounting, TagMapIsOneStep,
           CompressInv, IdleInv
<1>4. CASE CompressMove
  <2> DEFINE t == FreeNodeTag
  <2>1. /\ t \in recycledNodeHeap /\ t \in Nat /\ t \notin Live
        /\ \A h \in recycledNodeHeap : t <= h
        /\ KeyPtrAfterTag = newNodeKeyPtr
    <3>1. phase # "read" /\ recycledNodeHeap # {} /\ SetMin(recycledNodeHeap) <= ci
      BY <1>4 DEF CompressMove, CanMove
    <3> QED BY <3>1, <1>4, FreeNodeTagIsFree
         DEF CompressMove, FreeNodeTag, KeyPtrAfterTag, CompressInv, TagTypeOK
  <2>2. t < ci /\ ci \in Live /\ ci \in Nat
    BY <1>4, <2>1 DEF CompressMove, CanMove, FreeNodeTag, TagTypeOK, TagAccounting
  <2>3. Live' = (Live \ {ci}) \cup {t}
    BY <1>4 DEF CompressMove, Live
  <2>4. /\ recycledNodeHeap' = (recycledNodeHeap \ {t}) \cup {ci}
        /\ newNodeKeyPtr' = newNodeKeyPtr - 1
        /\ tagMap' = tagMap \cup {<<ci, t>>}
        /\ ci' = ci - 1 /\ phase' = phase /\ phase = "compress"
    BY <1>4, <2>1 DEF CompressMove, HeapAfterTag
  <2> HIDE DEF t
  <2>5. TagTypeOK'
    BY <2>1, <2>2, <2>3, <2>4 DEF TagTypeOK, CompressInv
  <2>6. TagAccounting'
    BY <2>1, <2>2, <2>3, <2>4 DEF TagTypeOK, TagAccounting, CompressInv
  <2>7. \A p \in tagMap : p[1] > ci /\ p[1] \in Nat /\ p[2] \in Nat
                          /\ p[2] < t /\ p = <<p[1], p[2]>>
    BY <2>1, <2>4 DEF CompressInv, TagTypeOK
  <2>8. TagMapIsOneStep'
    BY <2>1, <2>2, <2>4, <2>7 DEF TagMapIsOneStep, TagTypeOK
  <2>9. CompressInv'
    BY <2>1, <2>2, <2>3, <2>4, <2>7 DEF TagTypeOK, CompressInv
  <2>10. IdleInv'
    BY <2>4 DEF IdleInv
  <2> QED BY <2>5, <2>6, <2>8, <2>9, <2>10
<1>5. ASSUME NEW k \in [Thread -> 0 .. MaxImport], CompressEnd(k) PROVE TagInv'
  <2>1. Live' = Live BY <1>5 DEF CompressEnd, tagVars, Live
  <2> QED BY <1>5, <2>1
       DEF CompressEnd, tagVars, TagTypeOK, TagAccounting, TagMapIsOneStep,
           CompressInv, IdleInv
<1>6. ASSUME NEW t \in Thread, ThreadStep(t) PROVE TagInv'
  BY <1>6, TagInvStutter
     DEF ThreadStep, PopReadHead, PopUnlink, PushGhostLink, PushGhostPublish
<1>7. CASE EndCommSendGhosts
  <2>1. Live' = Live BY <1>7 DEF EndCommSendGhosts, Live
  <2> QED BY <1>7, <2>1
       DEF EndCommSendGhosts, TagTypeOK, TagAccounting, TagMapIsOneStep,
           CompressInv, IdleInv
<1>8. CASE GetNewNativeNode
  <2>1. Live' = Live \cup {FreeNodeTag}
    BY <1>8 DEF GetNewNativeNode, KeysWith, Live
  <2>2. phase = "topology" /\ phase' = phase /\ ci' = ci /\ tagMap' = tagMap
        /\ recycledNodeHeap' = recycledNodeHeap \ {FreeNodeTag}
        /\ newNodeKeyPtr' = KeyPtrAfterTag
    BY <1>8 DEF GetNewNativeNode, HeapAfterTag
  <2>3. TagTypeOK'
    BY <2>1, <2>2, FreeNodeTagIsFree DEF TagTypeOK
  <2>4. TagAccounting'
    <3> DEFINE t == FreeNodeTag
               K == KeyPtrAfterTag
    <3>1. /\ t \in Nat /\ K \in Nat /\ t < K /\ newNodeKeyPtr <= K
          /\ K # newNodeKeyPtr => K = t + 1
          /\ \A j \in 0 .. t : j \in Live \cup recycledNodeHeap \cup {t}
      BY <2>2, FreeNodeTagIsFree
    <3>2. /\ Live' = Live \cup {t} /\ recycledNodeHeap' = recycledNodeHeap \ {t}
          /\ newNodeKeyPtr' = K
      BY <2>1, <2>2
    <3> HIDE DEF t, K
    <3>3. \A i \in Live' : i < K
      BY <3>1, <3>2 DEF TagTypeOK, TagAccounting
    <3>4. 0 .. K - 1 \subseteq Live' \cup recycledNodeHeap'
      BY <2>2, <3>1, <3>2 DEF TagTypeOK, TagAccounting
    <3>5. \A i \in recycledNodeHeap' : \A j \in 0 .. i : j \in Live' \cup recycledNodeHeap'
      BY <2>2, <3>2 DEF TagAccounting
    <3>6. Live' \cap recycledNodeHeap' = {}
      BY <3>2 DEF TagAccounting
    <3> QED BY <3>2, <3>3, <3>4, <3>5, <3>6 DEF TagAccounting
  <2> QED BY <2>2, <2>3, <2>4 DEF TagMapIsOneStep, CompressInv, IdleInv
<1>9. ASSUME NEW i \in Live, FreeNode(i) PROVE TagInv'
  <2>1. Live' = Live \ {i}
    BY <1>9 DEF FreeNode, KeysWithout, Live
  <2> QED BY <1>9, <2>1
       DEF FreeNode, TagTypeOK, TagAccounting, TagMapIsOneStep, CompressInv, IdleInv
<1>10. CASE GetNewGhostNode \/ SplitGhostNode \/ MergeGhostNode
  BY <1>10, TagInvStutter DEF GetNewGhostNode, SplitGhostNode, MergeGhostNode
<1>11. CASE RecycleGhostNodes
  <2>1. Live' = Live BY <1>11 DEF RecycleGhostNodes, tagVars, Live
  <2> QED BY <1>11, <2>1
       DEF RecycleGhostNodes, tagVars, TagTypeOK, TagAccounting, TagMapIsOneStep,
           CompressInv, IdleInv
<1>12. CASE UNCHANGED vars
  BY <1>12, TagInvStutter DEF vars
<1> QED BY <1>1, <1>2, <1>3, <1>4, <1>5, <1>6, <1>7, <1>8, <1>9, <1>10, <1>11,
           <1>12 DEF Next

(* The strengthened tag invariant holds of every behaviour. *)
THEOREM TagInvariant == Spec => []TagInv
<1> QED BY TagInvInit, TagInvStep, PTL DEF Spec

(* Every tag below newNodeKeyPtr is in use or recycled, never both, and no *)
(* node lies at or beyond newNodeKeyPtr: GetFreeNodeTag, FreeNode and the  *)
(* compression lose no tag and give none out twice.                        *)
THEOREM TagsAccountedFor == Spec => []TagAccounting
<1>1. TagInv => TagAccounting
  BY DEF TagInv
<1> QED BY <1>1, TagInvariant, PTL

(* The map the compression leaves may be applied by one lookup per arm: no *)
(* tag is remapped twice and no new tag is another node's old one.         *)
THEOREM TagMapNeedsOneLookup == Spec => []TagMapIsOneStep
<1>1. TagInv => TagMapIsOneStep
  BY DEF TagInv
<1> QED BY <1>1, TagInvariant, PTL

(* The two together, as the model is checked for them. *)
THEOREM TagsAreSound == Spec => []TagsSound
<1>1. TagAccounting /\ TagMapIsOneStep => TagsSound
  BY DEF TagsSound
<1> QED BY <1>1, TagsAccountedFor, TagMapNeedsOneLookup, PTL

(* No step gives a tag that is in use to another structure. *)
THEOREM LiveTagsKept == Spec => TagsNeverReused
<1>1. TagInv /\ [Next]_vars => [LiveTagKept]_vars
  <2> SUFFICES ASSUME TagInv, Next, NEW i \in Live, i \in Live'
               PROVE  nodeKeys'[i] = nodeKeys[i]
    BY DEF LiveTagKept
  <2> USE DEF TagInv
  <2>1. ASSUME NEW j \in InitTags, UnpackInitialNode(j)
        PROVE  nodeKeys'[i] = nodeKeys[i]
    BY <2>1 DEF UnpackInitialNode, KeysWith
  <2>2. CASE CompressMove
    <3>1. FreeNodeTag \notin Live
      BY <2>2, FreeNodeTagIsFree DEF CompressMove
    <3> QED BY <2>2, <3>1 DEF CompressMove, Live
  <2>3. CASE GetNewNativeNode
    <3>1. FreeNodeTag \notin Live
      BY <2>3, FreeNodeTagIsFree DEF GetNewNativeNode
    <3> QED BY <2>3, <3>1 DEF GetNewNativeNode, KeysWith
  <2>4. ASSUME NEW j \in Live, FreeNode(j) PROVE nodeKeys'[i] = nodeKeys[i]
    BY <2>4 DEF FreeNode, KeysWithout, Live
  <2>5. CASE UNCHANGED nodeKeys
    BY <2>5
  <2> QED BY <2>1, <2>2, <2>3, <2>4, <2>5
       DEF Next, InitRecycleNodeHeap, CompressSkip, CompressEnd, ThreadStep,
           PopReadHead, PopUnlink, PushGhostLink, PushGhostPublish, tagVars,
           EndCommSendGhosts, GetNewGhostNode, SplitGhostNode, MergeGhostNode,
           RecycleGhostNodes
<1> QED BY <1>1, TagInvariant, PTL DEF Spec, TagsNeverReused
-----------------------------------------------------------------------------
(* Types of the queues.  RecycleGhostNodes writes through lastFreeNode and *)
(* copies lastGhostNode without a test for NULL, and MergeGhostNode and    *)
(* the pushes take the first element of a list: what makes them safe.      *)

GhostPushed == \/ ghostNodeQ # NULL \/ smnNode # NULL
               \/ \E t \in Thread : pc[t] = "publish"

QueueInv ==
  /\ nodeCount # 0 => lastFreeNode # NULL
  /\ GhostPushed => lastGhostNode # NULL
  /\ smnNode # NULL => phase = "topology" /\ ghostNodeList # <<>>
  /\ \A t \in Thread :
       /\ pc[t] \in {"unlink", "push", "publish"} => tmpNodePtrs[t] # <<>>
       /\ phase # "import" => pc[t] = "done"

PoolInv == TypeOK /\ QueueInv

(* What PopFreeNodeQ returns and leaves behind has its type, and the tail  *)
(* pointer is set.                                                         *)
LEMMA PopTypes ==
  ASSUME TypeOK, QueueInv
  PROVE  /\ PopCount \in Nat /\ nodeCount <= PopCount /\ PopCount # 0
         /\ PopNode \in 1 .. PopCount
         /\ PopNext \in [1 .. PopCount -> (1 .. PopCount) \cup {NULL}]
         /\ PopLast \in 1 .. PopCount
<1>1. freeNodeQ \in Nodes \cup {NULL} /\ lastFreeNode \in Nodes \cup {NULL}
      /\ nodeCount \in Nat /\ next \in [Nodes -> Nodes \cup {NULL}]
  BY DEF TypeOK
<1>2. PopCount \in Nat /\ nodeCount <= PopCount /\ PopCount # 0
  BY <1>1, BlockCountAssumption DEF PopCount, Nodes, NULL
<1>3. PopNode \in 1 .. PopCount /\ PopLast \in 1 .. PopCount
  BY <1>1, BlockCountAssumption DEF PopCount, PopNode, PopLast, Nodes, NULL, QueueInv
<1>4. ASSUME NEW n \in 1 .. PopCount PROVE PopNext[n] \in (1 .. PopCount) \cup {NULL}
  <2>1. CASE n <= nodeCount
    BY <1>1, <1>2, <2>1 DEF PopNext, Nodes
  <2>2. CASE ~(n <= nodeCount) /\ n # PopCount
    BY <1>1, <1>2, <2>2 DEF PopNext
  <2>3. CASE ~(n <= nodeCount) /\ n = PopCount
    BY <1>2, <2>3 DEF PopNext
  <2> QED BY <2>1, <2>2, <2>3
<1>5. PopNext \in [1 .. PopCount -> (1 .. PopCount) \cup {NULL}]
  <2>1. PopNext = [n \in 1 .. PopCount |-> PopNext[n]]
    BY DEF PopNext
  <2> QED BY <1>4, <2>1
<1> QED BY <1>2, <1>3, <1>5

LEMMA PoolInvInit == Init => PoolInv
<1> SUFFICES ASSUME Init PROVE PoolInv OBVIOUS
<1>1. Nodes = {} /\ Live = {}
  BY DEF Init, Nodes, Live
<1>2. TypeOK
  BY <1>1, MaxImportAssumption DEF Init, TypeOK
<1>3. QueueInv
  BY DEF Init, QueueInv, GhostPushed
<1> QED BY <1>2, <1>3 DEF PoolInv

(* A step that leaves the pool alone. *)
LEMMA PoolInvStutter ==
  ASSUME PoolInv, UNCHANGED vars PROVE PoolInv'
BY DEF PoolInv, TypeOK, QueueInv, GhostPushed, vars, queueVars, tagVars,
       threadVars, Nodes, Live

(* Sequences of structures stay so when a block is added. *)
LEMMA SeqGrows ==
  ASSUME NEW c \in Nat, NEW d \in Nat, c <= d
  PROVE  Seq(1 .. c) \subseteq Seq(1 .. d)
<1> SUFFICES ASSUME NEW s \in Seq(1 .. c) PROVE s \in Seq(1 .. d)
  OBVIOUS
<1> QED OBVIOUS

LEMMA PoolInvStep == PoolInv /\ TagInv /\ [Next]_vars => PoolInv'
<1> SUFFICES ASSUME PoolInv, TagInv, Next PROVE PoolInv'
  BY PoolInvStutter
<1> USE DEF PoolInv
<1> DEFINE P == 1 .. PopCount
<1>P. /\ PopCount \in Nat /\ nodeCount <= PopCount /\ PopCount # 0
      /\ PopNode \in P /\ PopNode # NULL
      /\ PopNext \in [P -> P \cup {NULL}]
      /\ PopLast \in P /\ PopLast # NULL
      /\ Nodes \subseteq P
      /\ Seq(Nodes) \subseteq Seq(P)
  BY PopTypes, SeqGrows DEF NULL, Nodes, TypeOK
<1>T. TagTypeOK'
  BY TagInvStep DEF TagInv
<1>1. ASSUME NEW i \in InitTags, UnpackInitialNode(i) PROVE PoolInv'
  <2>1. Nodes' = P /\ Live' = Live \cup {i} /\ i \in Nat
    BY <1>1, InitTagsAssumption DEF UnpackInitialNode, KeysWith, Live, Nodes
  <2>2. next' \in [P -> P \cup {NULL}]
    BY <1>P, <1>1 DEF UnpackInitialNode, TypeOK
  <2>3. nodeKeys' \in [Live' -> P]
    BY <1>P, <1>1, <2>1 DEF UnpackInitialNode, KeysWith, TypeOK
  <2>4. TypeOK'
    <3>1. {freeNodeQ', lastFreeNode', nativeNodeQ'} \subseteq P \cup {NULL}
      BY <1>P, <1>1 DEF UnpackInitialNode
    <3>2. {ghostNodeQ, lastGhostNode, smnNode} \subseteq P \cup {NULL}
      BY <1>P DEF TypeOK
    <3> QED BY <1>P, <1>T, <1>1, <2>1, <2>2, <2>3, <3>1, <3>2
       DEF UnpackInitialNode, threadVars, TypeOK, TagTypeOK
  <2> QED BY <1>P, <1>1, <2>4 DEF UnpackInitialNode, QueueInv, GhostPushed, threadVars
<1>2. CASE InitRecycleNodeHeap \/ CompressSkip
  <2>1. Nodes' = Nodes /\ Live' = Live
    BY <1>2 DEF InitRecycleNodeHeap, CompressSkip, queueVars, tagVars, Nodes, Live
  <2>2. TypeOK'
    BY <1>T, <1>2, <2>1 DEF InitRecycleNodeHeap, CompressSkip, queueVars, tagVars,
       threadVars, TypeOK, TagTypeOK
  <2> QED BY <1>2, <2>2 DEF InitRecycleNodeHeap, CompressSkip, queueVars,
          threadVars, QueueInv, GhostPushed
<1>3. CASE CompressMove
  <2>2. Nodes' = Nodes BY <1>3 DEF CompressMove, queueVars, Nodes
  <2>3. nodeKeys' \in [Live' -> Nodes]
    BY <1>3 DEF CompressMove, Live, TypeOK
  <2>4. TypeOK'
    BY <1>T, <1>3, <2>2, <2>3 DEF CompressMove, queueVars, threadVars, TypeOK,
       TagTypeOK
  <2> QED BY <1>3, <2>4 DEF CompressMove, queueVars, threadVars, QueueInv, GhostPushed
<1>4. ASSUME NEW k \in [Thread -> 0 .. MaxImport], CompressEnd(k) PROVE PoolInv'
  <2>1. Nodes' = Nodes /\ Live' = Live
    BY <1>4 DEF CompressEnd, queueVars, tagVars, Nodes, Live
  <2>2. pc' \in [Thread -> {"pop", "unlink", "push", "publish", "done"}]
        /\ \A t \in Thread : pc'[t] \in {"pop", "done"}
    BY <1>4 DEF CompressEnd
  <2> QED BY <1>4, <2>1, <2>2 DEF CompressEnd, queueVars, tagVars, TypeOK,
             QueueInv, GhostPushed
<1>5. ASSUME NEW t \in Thread, PopReadHead(t) PROVE PoolInv'
  <2>1. Nodes' = P /\ Live' = Live
    BY <1>5 DEF PopReadHead, tagVars, Nodes, Live
  <2>2. tmpNodePtrs' \in [Thread -> Seq(P)] /\ tmpNodePtrs'[t] # <<>>
        /\ \A u \in Thread \ {t} : tmpNodePtrs'[u] = tmpNodePtrs[u]
    <3>1. tmpNodePtrs' = [tmpNodePtrs EXCEPT ![t] = Append(@, PopNode)]
      BY <1>5 DEF PopReadHead
    <3>2. tmpNodePtrs \in [Thread -> Seq(P)]
      BY <1>P DEF TypeOK
    <3> HIDE DEF P
    <3>3. ASSUME NEW s \in Seq(P)
          PROVE  Append(s, PopNode) \in Seq(P) /\ Append(s, PopNode) # <<>>
      BY <1>P
    <3> QED BY <3>1, <3>2, <3>3
  <2>3. pc' \in [Thread -> {"pop", "unlink", "push", "publish", "done"}]
        /\ pc'[t] = "unlink" /\ \A u \in Thread \ {t} : pc'[u] = pc[u]
    BY <1>5 DEF PopReadHead, TypeOK
  <2>4. TypeOK'
    BY <1>P, <1>5, <2>1, <2>2, <2>3 DEF PopReadHead, tagVars, TypeOK
  <2> QED BY <1>P, <1>5, <2>2, <2>3, <2>4 DEF PopReadHead, QueueInv, GhostPushed
<1>6. ASSUME NEW t \in Thread, PopUnlink(t) PROVE PoolInv'
  <2>1. Nodes' = Nodes /\ Live' = Live
    BY <1>6 DEF PopUnlink, tagVars, Nodes, Live
  <2>2. LastPopped(t) \in Nodes
    BY <1>6 DEF PopUnlink, LastPopped, TypeOK, QueueInv
  <2>3. freeNodeQ' \in Nodes \cup {NULL}
    BY <1>6, <2>2 DEF PopUnlink, TypeOK
  <2>4. pc' \in [Thread -> {"pop", "unlink", "push", "publish", "done"}]
        /\ pc'[t] \in {"push", "pop"} /\ \A u \in Thread \ {t} : pc'[u] = pc[u]
    BY <1>6 DEF PopUnlink, TypeOK
  <2>5. TypeOK'
    BY <1>6, <2>1, <2>3, <2>4 DEF PopUnlink, tagVars, TypeOK
  <2> QED BY <1>6, <2>4, <2>5 DEF PopUnlink, QueueInv, GhostPushed
<1>7. ASSUME NEW t \in Thread, PushGhostLink(t) PROVE PoolInv'
  <2> DEFINE n == Head(tmpNodePtrs[t])
  <2>1. Nodes' = Nodes /\ Live' = Live
    BY <1>7 DEF PushGhostLink, tagVars, Nodes, Live
  <2>2. n \in Nodes /\ n # NULL
    BY <1>7 DEF PushGhostLink, TypeOK, QueueInv, Nodes, NULL
  <2>3. next' \in [Nodes -> Nodes \cup {NULL}]
    BY <1>7, <2>2 DEF PushGhostLink, TypeOK
  <2>4. lastGhostNode' \in Nodes \cup {NULL} /\ lastGhostNode' # NULL
    BY <1>7, <2>2 DEF PushGhostLink, TypeOK, QueueInv, GhostPushed
  <2>5. pc' \in [Thread -> {"pop", "unlink", "push", "publish", "done"}]
        /\ pc'[t] = "publish" /\ pc[t] = "push" /\ \A u \in Thread \ {t} : pc'[u] = pc[u]
    BY <1>7 DEF PushGhostLink, TypeOK
  <2>6. TypeOK'
    BY <1>7, <2>1, <2>3, <2>4, <2>5 DEF PushGhostLink, tagVars, TypeOK
  <2> QED BY <1>7, <2>4, <2>5, <2>6 DEF PushGhostLink, QueueInv
<1>8. ASSUME NEW t \in Thread, PushGhostPublish(t) PROVE PoolInv'
  <2> DEFINE n == Head(tmpNodePtrs[t])
  <2>1. Nodes' = Nodes /\ Live' = Live
    BY <1>8 DEF PushGhostPublish, tagVars, Nodes, Live
  <2>2. n \in Nodes /\ lastGhostNode # NULL /\ tmpNodePtrs[t] \in Seq(Nodes)
        /\ tmpNodePtrs[t] # <<>>
    BY <1>8 DEF PushGhostPublish, TypeOK, QueueInv, GhostPushed
  <2>3. tmpNodePtrs' \in [Thread -> Seq(Nodes)]
        /\ tmpNodePtrs'[t] = Tail(tmpNodePtrs[t])
        /\ \A u \in Thread \ {t} : tmpNodePtrs'[u] = tmpNodePtrs[u]
    BY <1>8, <2>2 DEF PushGhostPublish, TypeOK
  <2>4. /\ pc' \in [Thread -> {"pop", "unlink", "push", "publish", "done"}]
        /\ pc'[t] \in {"done", "push"}
        /\ pc'[t] = "push" => Len(tmpNodePtrs[t]) # 1
        /\ \A u \in Thread \ {t} : pc'[u] = pc[u]
    BY <1>8 DEF PushGhostPublish, LastPush, TypeOK
  <2>5. pc'[t] = "push" => tmpNodePtrs'[t] # <<>>
    <3>1. Tail(tmpNodePtrs[t]) \in Seq(Nodes)
          /\ Len(Tail(tmpNodePtrs[t])) = Len(tmpNodePtrs[t]) - 1
      BY <2>2, HeadTailProperties
    <3>2. Len(tmpNodePtrs[t]) \in Nat
      BY <2>2, LenProperties
    <3>3. Len(tmpNodePtrs[t]) # 1 => Len(Tail(tmpNodePtrs[t])) # 0
      BY <3>1, <3>2
    <3>4. Tail(tmpNodePtrs[t]) = <<>> => Len(Tail(tmpNodePtrs[t])) = 0
      BY <3>1, EmptySeq
    <3> QED BY <2>3, <2>4, <3>3, <3>4
  <2>6. ghostNodeList' \in Seq(Nodes)
    BY <1>8, <2>2 DEF PushGhostPublish, TypeOK
  <2>7. TypeOK'
    BY <1>8, <2>1, <2>2, <2>3, <2>4, <2>6 DEF PushGhostPublish, tagVars, TypeOK
  <2>8. smnNode # NULL => ghostNodeList' # <<>>
    BY <1>8, <2>2 DEF PushGhostPublish, TypeOK
  <2>9. phase' = "import"
    BY <1>8 DEF PushGhostPublish, QueueInv
  <2>10. \A u \in Thread : pc'[u] \in {"unlink", "push", "publish"} => tmpNodePtrs'[u] # <<>>
    <3> SUFFICES ASSUME NEW u \in Thread, pc'[u] \in {"unlink", "push", "publish"}
                 PROVE  tmpNodePtrs'[u] # <<>>
      OBVIOUS
    <3>1. CASE u = t
      BY <2>4, <2>5, <3>1
    <3>2. CASE u # t
      BY <2>3, <2>4, <3>2 DEF QueueInv
    <3> QED BY <3>1, <3>2
  <2>11. lastFreeNode' = lastFreeNode /\ nodeCount' = nodeCount /\ smnNode' = smnNode
         /\ lastGhostNode' = lastGhostNode /\ phase' = phase
    BY <1>8 DEF PushGhostPublish
  <2> QED BY <2>2, <2>7, <2>8, <2>9, <2>10, <2>11 DEF QueueInv
<1>9. CASE EndCommSendGhosts
  <2>1. Nodes' = Nodes /\ Live' = Live
    BY <1>9 DEF EndCommSendGhosts, queueVars, Nodes, Live
  <2> QED BY <1>9, <2>1, MaxImportAssumption
          DEF EndCommSendGhosts, queueVars, TypeOK, QueueInv, GhostPushed
<1>10. CASE GetNewNativeNode
  <2>1. Nodes' = P /\ Live' = Live \cup {FreeNodeTag}
    BY <1>10 DEF GetNewNativeNode, KeysWith, Live, Nodes
  <2>2. nodeKeys' \in [Live' -> P]
    BY <1>P, <1>10, <2>1 DEF GetNewNativeNode, KeysWith, TypeOK
  <2>3. freeNodeQ' \in P \cup {NULL}
    BY <1>P, <1>10 DEF GetNewNativeNode
  <2>5. TypeOK'
    BY <1>P, <1>T, <1>10, <2>1, <2>2, <2>3 DEF GetNewNativeNode, threadVars, TypeOK,
       TagTypeOK
  <2> QED BY <1>P, <1>10, <2>5 DEF GetNewNativeNode, threadVars, QueueInv, GhostPushed
<1>11. ASSUME NEW i \in Live, FreeNode(i) PROVE PoolInv'
  <2>1. Nodes' = Nodes /\ Live' = Live \ {i} /\ nodeKeys[i] \in Nodes
    BY <1>11 DEF FreeNode, KeysWithout, Live, Nodes, TypeOK
  <2>2. nodeKeys' \in [Live' -> Nodes]
    BY <1>11, <2>1 DEF FreeNode, KeysWithout, TypeOK
  <2>3. next' \in [Nodes -> Nodes \cup {NULL}]
    BY <1>11, <2>1 DEF FreeNode, TypeOK
  <2>4. TypeOK'
    BY <1>11, <2>1, <2>2, <2>3 DEF FreeNode, threadVars, TypeOK
  <2> QED BY <1>11, <2>4 DEF FreeNode, threadVars, QueueInv, GhostPushed
<1>12. ASSUME AddGhost, UNCHANGED <<nativeNodeQ, tagVars, threadVars, phase, ci>>,
              phase = "topology", smnNode' \in {NULL, PopNode}
       PROVE  PoolInv'
  <2>1. Nodes' = P /\ Live' = Live
    BY <1>12 DEF AddGhost, tagVars, Nodes, Live
  <2>2. next' \in [P -> P \cup {NULL}] /\ freeNodeQ' \in P \cup {NULL}
    BY <1>P, <1>12 DEF AddGhost, TypeOK
  <2>3. ghostNodeList' \in Seq(P) /\ ghostNodeList' # <<>>
    BY <1>P, <1>12 DEF AddGhost, TypeOK
  <2>4. lastGhostNode' \in P
    BY <1>P, <1>12 DEF AddGhost, TypeOK, QueueInv, GhostPushed
  <2>5. TypeOK'
    BY <1>P, <1>12, <2>1, <2>2, <2>3, <2>4 DEF AddGhost, tagVars, threadVars, TypeOK
  <2> QED BY <1>P, <1>12, <2>3, <2>4, <2>5 DEF AddGhost, threadVars, QueueInv, NULL
<1>13. CASE GetNewGhostNode \/ SplitGhostNode
  BY <1>12, <1>13 DEF GetNewGhostNode, SplitGhostNode
<1>14. CASE MergeGhostNode
  <2>1. Nodes' = Nodes /\ Live' = Live /\ smnNode \in Nodes
    BY <1>14 DEF MergeGhostNode, tagVars, Nodes, Live, TypeOK
  <2>2. next' \in [Nodes -> Nodes \cup {NULL}] /\ ghostNodeQ' \in Nodes \cup {NULL}
    BY <1>14, <2>1 DEF MergeGhostNode, TypeOK
  <2>3. ghostNodeList' \in Seq(Nodes)
    BY <1>14 DEF MergeGhostNode, TypeOK, QueueInv
  <2>4. TypeOK'
    BY <1>14, <2>1, <2>2, <2>3 DEF MergeGhostNode, tagVars, threadVars, TypeOK
  <2> QED BY <1>14, <2>4 DEF MergeGhostNode, threadVars, QueueInv, GhostPushed
<1>15. CASE RecycleGhostNodes
  <2>1. Nodes' = Nodes /\ Live' = Live
    BY <1>15 DEF RecycleGhostNodes, queueVars, tagVars, Nodes, Live
  <2>2. CASE ghostNodeQ = NULL
    BY <1>15, <2>1, <2>2 DEF RecycleGhostNodes, queueVars, tagVars, threadVars,
       TypeOK, TagInv, TagTypeOK, QueueInv, GhostPushed
  <2>3. CASE ghostNodeQ # NULL
    <3>1. lastGhostNode # NULL /\ lastGhostNode \in Nodes /\ ghostNodeQ \in Nodes
          /\ nodeCount # 0 /\ lastFreeNode \in Nodes
      BY <2>3 DEF TypeOK, QueueInv, GhostPushed, Nodes
    <3>2. next' \in [Nodes -> Nodes \cup {NULL}]
      BY <1>15, <2>3, <3>1 DEF RecycleGhostNodes, TypeOK
    <3>3. ghostNodeList' \in Seq(Nodes) /\ ci' \in Int
      BY <1>15, <2>3 DEF RecycleGhostNodes, TypeOK
    <3>4. TypeOK'
      BY <1>15, <2>1, <2>3, <3>1, <3>2, <3>3
         DEF RecycleGhostNodes, tagVars, threadVars, TypeOK
    <3>5. ~\E t \in Thread : pc[t] = "publish"
      BY <1>15 DEF RecycleGhostNodes, QueueInv
    <3> QED BY <1>15, <2>3, <3>1, <3>4, <3>5
            DEF RecycleGhostNodes, threadVars, QueueInv, GhostPushed
  <2> QED BY <2>2, <2>3
<1> QED BY <1>1, <1>2, <1>3, <1>4, <1>5, <1>6, <1>7, <1>8, <1>9, <1>10, <1>11,
           <1>13, <1>14, <1>15 DEF Next, ThreadStep

(* Every variable of the pool keeps its type: no list is popped when       *)
(* empty, no NULL tail pointer is written through.                         *)
THEOREM PoolTyped == Spec => []TypeOK
<1>1. PoolInv => TypeOK
  BY DEF PoolInv
<1> QED BY <1>1, PoolInvInit, PoolInvStep, TagInvariant, PTL DEF Spec

-----------------------------------------------------------------------------
(* The roles of structures.                                                *)


(* From h, the links nx stay within F and come to an end. *)
Ranked(F, nx, h) ==
  /\ h \in F \cup {NULL}
  /\ \A n \in F : nx[n] \in F \cup {NULL}
  /\ \E r \in [F -> Nat] : \A n \in F : nx[n] \in F => r[nx[n]] < r[n]

(* Taking the head off. *)
LEMMA RankedTail ==
  ASSUME NEW F \in SUBSET Nat, NEW nx, NEW h \in F, NULL \notin F, Ranked(F, nx, h)
  PROVE  \E G \in SUBSET F : h \notin G /\ Ranked(G, nx, nx[h])
<1>1. PICK r \in [F -> Nat] : \A n \in F : nx[n] \in F => r[nx[n]] < r[n]
  BY DEF Ranked
<1> DEFINE G == {n \in F : r[n] < r[h]}
<1>2. h \notin G /\ G \in SUBSET F
  BY <1>1
<1>3. \A n \in F : nx[n] \in F \cup {NULL}
  BY DEF Ranked
<1>4. nx[h] \in G \cup {NULL}
  BY <1>1, <1>3
<1>5. ASSUME NEW n \in G PROVE nx[n] \in G \cup {NULL}
  <2>1. CASE nx[n] \in F
    <3>1. r[nx[n]] \in Nat /\ r[n] \in Nat /\ r[h] \in Nat /\ r[nx[n]] < r[n] /\ r[n] < r[h]
      BY <1>1, <2>1
    <3> QED BY <2>1, <3>1
  <2>2. CASE nx[n] = NULL
    BY <2>2
  <2> QED BY <1>3, <2>1, <2>2
<1>6. \E q \in [G -> Nat] : \A n \in G : nx[n] \in G => q[nx[n]] < q[n]
  <2> DEFINE q == [n \in G |-> r[n]]
  <2>1. q \in [G -> Nat]
    BY <1>1
  <2>2. \A n \in G : nx[n] \in G => q[nx[n]] < q[n]
    BY <1>1
  <2> QED BY <2>1, <2>2
<1>7. Ranked(G, nx, nx[h])
  BY <1>4, <1>5, <1>6 DEF Ranked
<1> QED BY <1>2, <1>7

(* Putting a new head n in front. *)
LEMMA RankedPush ==
  ASSUME NEW F \in SUBSET Nat, NEW D \in SUBSET Nat, NULL \notin D, F \subseteq D,
         NEW nx \in [D -> D \cup {NULL}], NEW h, Ranked(F, nx, h),
         NEW n \in D, n \notin F
  PROVE  Ranked(F \cup {n}, [nx EXCEPT ![n] = h], n)
<1>1. PICK r \in [F -> Nat] : \A m \in F : nx[m] \in F => r[nx[m]] < r[m]
  BY DEF Ranked
<1> DEFINE G == F \cup {n}
           ny == [nx EXCEPT ![n] = h]
           q  == [m \in G |-> IF m = n THEN (IF h \in F THEN r[h] + 1 ELSE 0) ELSE r[m]]
<1>2. h \in F \cup {NULL} /\ \A m \in F : nx[m] \in F \cup {NULL}
  BY DEF Ranked
<1>3. ny[n] = h /\ \A m \in F : ny[m] = nx[m]
  OBVIOUS
<1>4. q \in [G -> Nat]
  <2>1. \A m \in F : r[m] \in Nat /\ r[m] + 1 \in Nat
    BY <1>1
  <2>2. \A m \in G : (IF m = n THEN (IF h \in F THEN r[h] + 1 ELSE 0) ELSE r[m]) \in Nat
    BY <2>1
  <2> QED BY <2>2
<1>5. \A m \in G : ny[m] \in G => q[ny[m]] < q[m]
  <2> SUFFICES ASSUME NEW m \in G, ny[m] \in G PROVE q[ny[m]] < q[m]
    OBVIOUS
  <2>1. ny[m] \in F
    BY <1>2, <1>3
  <2>2. q[ny[m]] = r[ny[m]] /\ r[ny[m]] \in Nat
    BY <2>1, <1>1
  <2>3. CASE m = n
    BY <2>1, <2>2, <2>3, <1>3
  <2>4. CASE m # n
    BY <2>1, <2>2, <2>4, <1>1, <1>3
  <2> QED BY <2>3, <2>4
<1>6. \A m \in G : ny[m] \in G \cup {NULL}
  BY <1>2, <1>3
<1> HIDE DEF q, ny, G
<1>7. Ranked(G, ny, n)
  BY <1>4, <1>5, <1>6 DEF Ranked, G
<1> QED BY <1>7 DEF G, ny

(* Links outside F do not matter. *)
LEMMA RankedFrame ==
  ASSUME NEW F, NEW nx, NEW ny, NEW h, Ranked(F, nx, h), \A n \in F : ny[n] = nx[n]
  PROVE  Ranked(F, ny, h)
<1>1. PICK r \in [F -> Nat] : \A n \in F : nx[n] \in F => r[nx[n]] < r[n]
  BY DEF Ranked
<1>2. \A n \in F : ny[n] \in F => r[ny[n]] < r[n]
  BY <1>1
<1> QED BY <1>2 DEF Ranked

(* Splicing a second queue, of head g, behind a member of the first.       *)
LEMMA RankedSplice ==
  ASSUME NEW F \in SUBSET Nat, NEW E \in SUBSET Nat, F \cap E = {},
         NULL \notin F, NULL \notin E,
         NEW nx, NEW h, Ranked(F, nx, h), NEW g \in E, Ranked(E, nx, g),
         NEW bound \in Nat, \E r \in [E -> 0 .. bound] : \A n \in E : nx[n] \in E => r[nx[n]] < r[n],
         NEW l \in F, NEW ny, ny[l] = g, \A n \in (F \cup E) \ {l} : ny[n] = nx[n]
  PROVE  Ranked(F \cup E, ny, h)
<1>1. PICK r \in [F -> Nat] : \A n \in F : nx[n] \in F => r[nx[n]] < r[n]
  BY DEF Ranked
<1>2. PICK e \in [E -> 0 .. bound] : \A n \in E : nx[n] \in E => e[nx[n]] < e[n]
  OBVIOUS
<1> DEFINE q == [n \in F \cup E |-> IF n \in F THEN r[n] + bound + 1 ELSE e[n]]
<1>3. /\ h \in F \cup {NULL} /\ \A n \in F : nx[n] \in F \cup {NULL}
      /\ \A n \in E : nx[n] \in E \cup {NULL}
  BY DEF Ranked
<1>4. q \in [F \cup E -> Nat]
  BY <1>1, <1>2
<1>5. ASSUME NEW n \in F \cup E, ny[n] \in F \cup E PROVE q[ny[n]] < q[n]
  <2>1. CASE n = l
    BY <1>1, <1>2, <2>1
  <2>2. CASE n # l /\ n \in F
    <3>1. ny[n] = nx[n] /\ nx[n] \in F
      BY <1>3, <1>5, <2>2
    <3>2. r[nx[n]] \in Nat /\ r[n] \in Nat /\ r[nx[n]] < r[n]
      BY <1>1, <2>2, <3>1
    <3> QED BY <2>2, <3>1, <3>2
  <2>3. CASE n # l /\ n \in E
    <3>1. ny[n] = nx[n] /\ nx[n] \in E
      BY <1>3, <1>5, <2>3
    <3>2. e[nx[n]] < e[n]
      BY <1>2, <2>3, <3>1
    <3> QED BY <2>3, <3>1, <3>2
  <2> QED BY <2>1, <2>2, <2>3
<1>6. \A n \in F \cup E : ny[n] \in F \cup E \cup {NULL}
  <2> SUFFICES ASSUME NEW n \in F \cup E PROVE ny[n] \in F \cup E \cup {NULL}
    OBVIOUS
  <2>1. CASE n = l BY <2>1
  <2>2. CASE n # l BY <2>2, <1>3
  <2> QED BY <2>1, <2>2
<1> HIDE DEF q
<1> QED BY <1>3, <1>4, <1>5, <1>6 DEF Ranked
-----------------------------------------------------------------------------
(* What the operations do to the elements of a list. *)
LEMMA ElemsAppend ==
  ASSUME NEW S, NEW s \in Seq(S), NEW x \in S
  PROVE  /\ Elems(Append(s, x)) = Elems(s) \cup {x}
         /\ Injective(s) /\ x \notin Elems(s) => Injective(Append(s, x))
<1> DEFINE w == Append(s, x)
<1>1. /\ Len(s) \in Nat /\ Len(w) = Len(s) + 1
      /\ \A i \in 1 .. Len(s) : w[i] = s[i]
      /\ w[Len(s) + 1] = x
  BY AppendProperties, LenProperties
<1> HIDE DEF w
<1>2. Elems(w) = Elems(s) \cup {x}
  <2>1. \A i \in 1 .. Len(w) : i \in 1 .. Len(s) \/ i = Len(s) + 1
    BY <1>1
  <2>2. \A i \in 1 .. Len(s) : i \in 1 .. Len(w)
    BY <1>1
  <2>3. Len(s) + 1 \in 1 .. Len(w)
    BY <1>1
  <2> QED BY <1>1, <2>1, <2>2, <2>3 DEF Elems
<1>3. ASSUME Injective(s), x \notin Elems(s) PROVE Injective(w)
  <2> SUFFICES ASSUME NEW j \in 1 .. Len(w), NEW k \in 1 .. Len(w), w[j] = w[k]
               PROVE  j = k
    BY DEF Injective
  <2>1. CASE j = Len(s) + 1 /\ k = Len(s) + 1
    BY <2>1
  <2>2. CASE j = Len(s) + 1 /\ k \in 1 .. Len(s)
    BY <1>1, <1>3, <2>2 DEF Elems
  <2>3. CASE k = Len(s) + 1 /\ j \in 1 .. Len(s)
    BY <1>1, <1>3, <2>3 DEF Elems
  <2>4. CASE j \in 1 .. Len(s) /\ k \in 1 .. Len(s)
    BY <1>1, <1>3, <2>4 DEF Injective
  <2> QED BY <1>1, <2>1, <2>2, <2>3, <2>4
<1> QED BY <1>2, <1>3 DEF w

LEMMA ElemsTail ==
  ASSUME NEW S, NEW s \in Seq(S), s # <<>>, Injective(s)
  PROVE  /\ Head(s) \in Elems(s)
         /\ Elems(Tail(s)) = Elems(s) \ {Head(s)}
         /\ Injective(Tail(s))
<1> DEFINE w == Tail(s)
<1>1. /\ Len(s) \in Nat /\ Len(s) >= 1 /\ Len(w) = Len(s) - 1
      /\ Head(s) = s[1]
      /\ \A i \in 1 .. Len(w) : w[i] = s[i + 1]
  BY EmptySeq, LenProperties, HeadTailProperties
<1> HIDE DEF w
<1>2. Head(s) \in Elems(s)
  BY <1>1 DEF Elems
<1>3. ASSUME NEW y PROVE y \in Elems(w) <=> y \in Elems(s) \ {Head(s)}
  <2>1. ASSUME y \in Elems(w) PROVE y \in Elems(s) \ {Head(s)}
    <3>1. PICK i \in 1 .. Len(w) : y = w[i]
      BY <2>1 DEF Elems
    <3>2. i + 1 \in 1 .. Len(s) /\ 1 \in 1 .. Len(s) /\ i + 1 # 1 /\ y = s[i + 1]
      BY <1>1, <3>1
    <3> QED BY <1>1, <3>2 DEF Elems, Injective
  <2>2. ASSUME y \in Elems(s) \ {Head(s)} PROVE y \in Elems(w)
    <3>1. PICK i \in 1 .. Len(s) : y = s[i]
      BY <2>2 DEF Elems
    <3>2. i # 1
      BY <1>1, <2>2, <3>1
    <3>3. i - 1 \in 1 .. Len(w) /\ (i - 1) + 1 = i
      BY <1>1, <3>1, <3>2
    <3>4. w[i - 1] = y
      BY <1>1, <3>1, <3>3
    <3> QED BY <3>3, <3>4 DEF Elems
  <2> QED BY <2>1, <2>2
<1>4. Injective(w)
  <2> SUFFICES ASSUME NEW j \in 1 .. Len(w), NEW k \in 1 .. Len(w), w[j] = w[k]
               PROVE  j = k
    BY DEF Injective
  <2>1. j + 1 \in 1 .. Len(s) /\ k + 1 \in 1 .. Len(s) /\ s[j + 1] = s[k + 1]
    BY <1>1
  <2>2. j + 1 = k + 1
    BY <2>1 DEF Injective
  <2> QED BY <2>2
<1> QED BY <1>2, <1>3, <1>4 DEF w

AllButLast(s) == SubSeq(s, 1, Len(s) - 1)

LEMMA ElemsFront ==
  ASSUME NEW S, NEW s \in Seq(S), s # <<>>, Injective(s)
  PROVE  /\ Len(s) \in Nat /\ Len(s) >= 1
         /\ Len(AllButLast(s)) = Len(s) - 1
         /\ \A i \in 1 .. Len(AllButLast(s)) : AllButLast(s)[i] = s[i]
         /\ s[Len(s)] \in Elems(s)
         /\ Elems(AllButLast(s)) = Elems(s) \ {s[Len(s)]}
         /\ Injective(AllButLast(s))
<1> DEFINE w == AllButLast(s)
<1> HIDE DEF w
<1>1. Len(s) \in Nat /\ Len(s) >= 1
  BY EmptySeq, LenProperties
<1>2. \A i \in 1 .. Len(s) - 1 : s[i] \in S
  BY <1>1, ElementOfSeq
<1>3. /\ Len(w) = Len(s) - 1
      /\ \A i \in 1 .. Len(w) : w[i] = s[i]
  <2>1. Len(w) = IF 1 <= Len(s) - 1 THEN Len(s) - 1 - 1 + 1 ELSE 0
    BY <1>1, <1>2, SubSeqProperties DEF w, AllButLast
  <2>2. \A i \in 1 .. Len(s) - 1 - 1 + 1 : w[i] = s[1 + i - 1]
    BY <1>1, <1>2, SubSeqProperties DEF w, AllButLast
  <2>3. Len(w) = Len(s) - 1
    <3>1. \A m \in Nat : \A k : m >= 1 /\ k = (IF 1 <= m - 1 THEN m - 1 - 1 + 1 ELSE 0)
                            => k = m - 1
      OBVIOUS
    <3> QED BY <1>1, <2>1, <3>1
  <2>4. \A i \in 1 .. Len(w) : i \in 1 .. Len(s) - 1 - 1 + 1 /\ 1 + i - 1 = i
    BY <1>1, <2>3
  <2> QED BY <2>2, <2>3, <2>4
<1>4. s[Len(s)] \in Elems(s)
  BY <1>1 DEF Elems
<1>5. ASSUME NEW y PROVE y \in Elems(w) <=> y \in Elems(s) \ {s[Len(s)]}
  <2>1. ASSUME y \in Elems(w) PROVE y \in Elems(s) \ {s[Len(s)]}
    <3>1. PICK i \in 1 .. Len(w) : y = w[i]
      BY <2>1 DEF Elems
    <3>2. i \in 1 .. Len(s) /\ Len(s) \in 1 .. Len(s) /\ i # Len(s) /\ y = s[i]
      BY <1>1, <1>3, <3>1
    <3> QED BY <3>2 DEF Elems, Injective
  <2>2. ASSUME y \in Elems(s) \ {s[Len(s)]} PROVE y \in Elems(w)
    <3>1. PICK i \in 1 .. Len(s) : y = s[i]
      BY <2>2 DEF Elems
    <3>2. i \in 1 .. Len(w)
      BY <1>1, <1>3, <2>2, <3>1
    <3> QED BY <1>3, <3>1, <3>2 DEF Elems
  <2> QED BY <2>1, <2>2
<1>6. Injective(w)
  BY <1>1, <1>3 DEF Injective
<1> QED BY <1>1, <1>3, <1>4, <1>5, <1>6 DEF w
-----------------------------------------------------------------------------
(* The inductive invariant. *)

(* What the holder of a critical section has done so far. *)
LockInv ==
  /\ smnNode # NULL => smnNode = ghostNodeQ
  /\ \A t \in Thread :
       /\ pc[t] = "unlink" => freeLock = t /\ LastPopped(t) = freeNodeQ
       /\ pc[t] = "publish" => ghostLock = t
       /\ pc[t] = "publish" => next[Head(tmpNodePtrs[t])] = ghostNodeQ
       /\ pc[t] = "publish" /\ ghostNodeQ = NULL => lastGhostNode = Head(tmpNodePtrs[t])
       /\ pc[t] = "done" => tmpNodePtrs[t] = <<>>

FreeSet(F) == Ranked(F, next, FreeHead) /\ F \cap InUse = {}
FreeInv == \E F \in SUBSET Nodes : FreeSet(F)

RoleInv == OneRole /\ GhostViewsAgree /\ LockInv /\ FreeInv

LEMMA FreeInvSuffices == FreeInv => FreeNotInUse
BY DEF FreeInv, FreeSet, FreeNotInUse, FreeClosed, Ranked

LEMMA RolesTyped ==
  ASSUME TypeOK
  PROVE  /\ Native \subseteq Nodes /\ Ghosts \subseteq Nodes
         /\ \A t \in Thread : InFlight(t) \subseteq Nodes
         /\ InUse \subseteq Nodes /\ NULL \notin Nodes
<1>1. \A s \in Seq(Nodes) : Elems(s) \subseteq Nodes
  BY ElementOfSeq DEF Elems
<1>2. Native \subseteq Nodes
  BY DEF TypeOK, Native
<1>3. Ghosts \subseteq Nodes /\ \A t \in Thread : InFlight(t) \subseteq Nodes
  BY <1>1 DEF TypeOK, Ghosts, InFlight
<1>4. NULL \notin Nodes
  BY DEF NULL, Nodes, TypeOK
<1> QED BY <1>2, <1>3, <1>4 DEF InUse

LEMMA ChooseOnly ==
  ASSUME NEW p, NEW u \in Thread, p[u] = "unlink",
         \A t \in Thread : p[t] = "unlink" => t = u
  PROVE  (CHOOSE t \in Thread : p[t] = "unlink") = u
OBVIOUS

(* At most one thread is between the read of the head and the unlinking.   *)
LEMMA FreeHeadOf ==
  ASSUME LockInv, NEW u \in Thread, pc[u] = "unlink"
  PROVE  /\ \A t \in Thread : pc[t] = "unlink" => t = u
         /\ FreeHead = next[LastPopped(u)]
<1>1. \A t \in Thread : pc[t] = "unlink" => t = u
  BY DEF LockInv
<1>2. (CHOOSE t \in Thread : pc[t] = "unlink") = u
  BY <1>1, ChooseOnly
<1> QED BY <1>1, <1>2 DEF FreeHead

(* The popped structure has no role, and neither has what stays behind.    *)
LEMMA PopIsFree ==
  ASSUME PoolInv, RoleInv, \A t \in Thread : pc[t] # "unlink"
  PROVE  /\ PopNode \notin InUse
         /\ \A n \in Nodes : n \in 1 .. PopCount /\ PopNext[n] = next[n]
         /\ \E F \in SUBSET (1 .. PopCount) :
              /\ PopNode \notin F /\ F \cap InUse = {}
              /\ Ranked(F, PopNext, PopNext[PopNode])
<1>1. /\ nodeCount \in Nat /\ PopCount \in Nat /\ nodeCount <= PopCount
      /\ freeNodeQ \in Nodes \cup {NULL} /\ InUse \subseteq Nodes /\ NULL \notin Nodes
  BY PopTypes, RolesTyped DEF PoolInv, TypeOK
<1>2. \A n \in Nodes : n \in 1 .. PopCount /\ PopNext[n] = next[n]
  BY <1>1 DEF Nodes, PopNext
<1>3. CASE freeNodeQ = NULL
  <2> DEFINE F == nodeCount + 2 .. PopCount
             r == [n \in F |-> PopCount - n]
  <2>1. PopNode = nodeCount + 1 /\ PopNode \notin InUse /\ PopNode \notin F
        /\ F \cap InUse = {} /\ NULL \notin F /\ F \in SUBSET (1 .. PopCount)
    BY <1>1, <1>3 DEF PopNode, Nodes, NULL
  <2>2. PopCount = nodeCount + BlockCount
    BY <1>3 DEF PopCount
  <2>3. \A n \in nodeCount + 1 .. PopCount :
           PopNext[n] = IF n = PopCount THEN NULL ELSE n + 1
    BY <1>1 DEF PopNext
  <2>4. PopNext[PopNode] \in F \cup {NULL} /\ \A n \in F : PopNext[n] \in F \cup {NULL}
    BY <1>1, <2>1, <2>2, <2>3, BlockCountAssumption
  <2>5. r \in [F -> Nat] /\ \A n \in F : PopNext[n] \in F => r[PopNext[n]] < r[n]
    <3>1. r \in [F -> Nat]
      BY <1>1
    <3>2. ASSUME NEW n \in F, PopNext[n] \in F PROVE r[PopNext[n]] < r[n]
      <4>1. n \in nodeCount + 1 .. PopCount /\ PopNext[n] = n + 1
        BY <1>1, <2>1, <2>3, <3>2
      <4> QED BY <1>1, <3>2, <4>1
    <3> QED BY <3>1, <3>2
  <2> HIDE DEF F, r
  <2> QED BY <1>2, <2>1, <2>4, <2>5 DEF Ranked
<1>4. CASE freeNodeQ # NULL
  <2>1. PICK F \in SUBSET Nodes : Ranked(F, next, freeNodeQ) /\ F \cap InUse = {}
    BY DEF RoleInv, FreeInv, FreeSet, FreeHead
  <2>2. PopNode = freeNodeQ /\ freeNodeQ \in F
    BY <1>4, <2>1 DEF PopNode, Ranked
  <2>3. F \in SUBSET Nat /\ NULL \notin F
    <3>1. Nodes \subseteq Nat
      BY <1>1 DEF Nodes
    <3> QED BY <1>1, <2>1, <3>1
  <2>4. PICK G \in SUBSET F : PopNode \notin G /\ Ranked(G, next, next[PopNode])
    BY <2>1, <2>2, <2>3, RankedTail
  <2>5. PopNext[PopNode] = next[PopNode] /\ \A n \in G : PopNext[n] = next[n]
    BY <1>2, <2>2
  <2>6. Ranked(G, PopNext, PopNext[PopNode])
    BY <2>4, <2>5, RankedFrame
  <2>7. G \in SUBSET (1 .. PopCount) /\ G \cap InUse = {} /\ PopNode \notin InUse
    BY <1>2, <2>1, <2>2
  <2> QED BY <1>2, <2>4, <2>6, <2>7
<1> QED BY <1>3, <1>4

(* The ghost views depend on the links of the ghosts only. *)
LEMMA GhostFrame ==
  ASSUME GhostViewsAgree, UNCHANGED <<ghostNodeList, ghostNodeQ, lastGhostNode>>,
         \A n \in Ghosts : next'[n] = next[n]
  PROVE  GhostViewsAgree'
<1>1. \A j \in 1 .. Len(ghostNodeList) : ghostNodeList[j] \in Ghosts
  BY DEF Ghosts, Elems
<1> QED BY <1>1 DEF GhostViewsAgree

LEMMA RoleInvInit == Init => RoleInv
<1> SUFFICES ASSUME Init PROVE RoleInv OBVIOUS
<1>1. Live = {} /\ Native = {} /\ Nodes = {} /\ Len(<<>>) = 0
  BY DEF Init, Live, Native, Nodes
<1>2. Ghosts = {} /\ \A t \in Thread : InFlight(t) = {} /\ Len(tmpNodePtrs[t]) = 0
  BY <1>1 DEF Init, Ghosts, InFlight, Elems
<1>3. InUse = {}
  BY <1>1, <1>2 DEF InUse
<1>4. OneRole
  BY <1>1, <1>2 DEF Init, OneRole, Injective
<1>5. GhostViewsAgree
  BY <1>1 DEF Init, GhostViewsAgree
<1>6. LockInv
  BY DEF Init, LockInv
<1>7. FreeHead = NULL
  BY DEF Init, FreeHead
<1>8. Ranked({}, next, NULL)
  <2>1. [n \in {} |-> 0] \in [{} -> Nat]
    OBVIOUS
  <2> QED BY <2>1 DEF Ranked
<1>9. FreeInv
  BY <1>3, <1>7, <1>8 DEF FreeInv, FreeSet
<1> QED BY <1>4, <1>5, <1>6, <1>9 DEF RoleInv
-----------------------------------------------------------------------------
(* The steps that take a structure off the free queue. *)

(* UnpackInitialNode and GetNewNativeNode. *)
LEMMA NativeStep ==
  ASSUME PoolInv, RoleInv, \A t \in Thread : pc[t] = "done",
         NEW i, i \notin Live, nodeKeys' = KeysWith(i, PopNode),
         \A n \in 1 .. PopCount : n # PopNode => next'[n] = PopNext[n],
         freeNodeQ' = PopNext[PopNode], nodeCount' = PopCount,
         UNCHANGED <<ghostNodeQ, lastGhostNode, ghostNodeList, threadVars, smnNode>>
  PROVE  RoleInv'
<1>1. /\ PopNode \notin InUse
      /\ \A n \in Nodes : n \in 1 .. PopCount /\ PopNext[n] = next[n]
  BY PopIsFree
<1>2. PICK F \in SUBSET (1 .. PopCount) :
        /\ PopNode \notin F /\ F \cap InUse = {}
        /\ Ranked(F, PopNext, PopNext[PopNode])
  BY PopIsFree
<1>3. \A n \in 1 .. PopCount : n # PopNode => next'[n] = PopNext[n]
  OBVIOUS
<1>4. /\ pc' = pc /\ tmpNodePtrs' = tmpNodePtrs /\ ghostNodeList' = ghostNodeList
      /\ Ghosts' = Ghosts /\ \A t \in Thread : InFlight(t)' = InFlight(t)
  BY DEF threadVars, Ghosts, InFlight
<1>5. /\ Live' = Live \cup {i} /\ nodeKeys'[i] = PopNode
      /\ \A j \in Live : nodeKeys'[j] = nodeKeys[j]
  BY DEF KeysWith, Live
<1>6. Native' = Native \cup {PopNode} /\ InUse' = InUse \cup {PopNode}
  BY <1>4, <1>5 DEF Native, InUse
<1>7. \A j \in Live : nodeKeys[j] \in InUse
  BY DEF InUse, Native
<1>8. OneRole'
  BY <1>1, <1>4, <1>5, <1>6, <1>7 DEF OneRole, RoleInv, InUse
<1>9. GhostViewsAgree'
  <2>1. \A n \in Ghosts : n \in Nodes /\ n # PopNode
    BY <1>1, RolesTyped DEF PoolInv, InUse
  <2> QED BY <1>1, <1>3, <2>1, GhostFrame DEF RoleInv
<1>10. LockInv'
  BY <1>4 DEF LockInv, RoleInv
<1>11. FreeInv'
  <2>1. FreeHead' = PopNext[PopNode] /\ Nodes' = 1 .. PopCount
    BY <1>4 DEF FreeHead, Nodes
  <2>2. \A n \in F : next'[n] = PopNext[n]
    BY <1>2, <1>3
  <2>3. Ranked(F, next', FreeHead')
    BY <1>2, <2>1, <2>2, RankedFrame
  <2>4. F \cap InUse' = {} /\ F \in SUBSET Nodes'
    BY <1>2, <1>6, <2>1
  <2> QED BY <2>3, <2>4 DEF FreeInv, FreeSet
<1> QED BY <1>8, <1>9, <1>10, <1>11 DEF RoleInv

(* GetNewGhostNode and SplitGhostNode. *)
LEMMA AddGhostStep ==
  ASSUME PoolInv, RoleInv, \A t \in Thread : pc[t] = "done",
         AddGhost, UNCHANGED <<tagVars, threadVars>>, smnNode' \in {NULL, PopNode}
  PROVE  RoleInv'
<1>1. /\ PopNode \notin InUse
      /\ \A n \in Nodes : n \in 1 .. PopCount /\ PopNext[n] = next[n]
  BY PopIsFree
<1>2. PICK F \in SUBSET (1 .. PopCount) :
        /\ PopNode \notin F /\ F \cap InUse = {}
        /\ Ranked(F, PopNext, PopNext[PopNode])
  BY PopIsFree
<1>3. /\ PopNode \in 1 .. PopCount /\ PopNode # NULL /\ PopCount \in Nat
      /\ next'[PopNode] = ghostNodeQ
      /\ \A n \in 1 .. PopCount : n # PopNode => next'[n] = PopNext[n]
  BY PopTypes DEF PoolInv, AddGhost, NULL
<1>4. /\ pc' = pc /\ tmpNodePtrs' = tmpNodePtrs /\ nodeKeys' = nodeKeys
      /\ Native' = Native /\ Live' = Live
      /\ \A t \in Thread : InFlight(t)' = InFlight(t)
  BY DEF threadVars, tagVars, Native, Live, InFlight
<1>5. /\ ghostNodeList' = Append(ghostNodeList, PopNode)
      /\ ghostNodeList \in Seq(1 .. PopCount)
  BY <1>1, SeqGrows, PopTypes DEF AddGhost, PoolInv, TypeOK, Nodes
<1>6. /\ Ghosts' = Ghosts \cup {PopNode}
      /\ Injective(ghostNodeList')
      /\ InUse' = InUse \cup {PopNode}
  <2>1. Injective(ghostNodeList) /\ PopNode \notin Elems(ghostNodeList)
    BY <1>1 DEF RoleInv, OneRole, InUse, Ghosts
  <2>2. Elems(ghostNodeList') = Elems(ghostNodeList) \cup {PopNode}
        /\ Injective(ghostNodeList')
    BY <1>3, <1>5, <2>1, ElemsAppend
  <2> QED BY <1>4, <2>2 DEF Ghosts, InUse
<1>7. OneRole'
  BY <1>1, <1>4, <1>6 DEF OneRole, RoleInv, InUse
<1>8. GhostViewsAgree'
  <2> DEFINE L == Len(ghostNodeList)
  <2>1. /\ L \in Nat /\ Len(ghostNodeList') = L + 1
        /\ ghostNodeList' # <<>>
        /\ \A j \in 1 .. L : ghostNodeList'[j] = ghostNodeList[j]
        /\ ghostNodeList'[L + 1] = PopNode
    BY <1>3, <1>5, AppendProperties, LenProperties
  <2>2. /\ ghostNodeList = <<>> <=> L = 0
        /\ ghostNodeQ = NULL <=> ghostNodeList = <<>>
        /\ ghostNodeList # <<>> => ghostNodeQ = ghostNodeList[L]
    <3>1. ghostNodeList = <<>> <=> L = 0
      BY <1>5, EmptySeq
    <3>2. ghostNodeList # <<>> => ghostNodeList[L] \in 1 .. PopCount
      <4> HAVE ghostNodeList # <<>>
      <4>1. L \in 1 .. L
        BY <2>1, <3>1
      <4> QED BY <1>5, <4>1, ElementOfSeq
    <3> QED BY <3>1, <3>2 DEF RoleInv, GhostViewsAgree, NULL
  <2>3. \A j \in 1 .. L : /\ ghostNodeList[j] \in Ghosts
                          /\ next'[ghostNodeList[j]] = next[ghostNodeList[j]]
    <3> SUFFICES ASSUME NEW j \in 1 .. L
                 PROVE  /\ ghostNodeList[j] \in Ghosts
                        /\ next'[ghostNodeList[j]] = next[ghostNodeList[j]]
      OBVIOUS
    <3>1. ghostNodeList[j] \in Ghosts
      BY DEF Ghosts, Elems
    <3>2. ghostNodeList[j] \in Nodes /\ ghostNodeList[j] # PopNode
      BY <1>1, <3>1, RolesTyped DEF PoolInv, InUse
    <3> QED BY <1>1, <1>3, <3>1, <3>2
  <2>4. ghostNodeQ' = PopNode
        /\ lastGhostNode' = IF ghostNodeQ = NULL THEN PopNode ELSE lastGhostNode
    BY DEF AddGhost
  <2> HIDE DEF L
  <2>5. lastGhostNode' = ghostNodeList'[1]
    <3>1. CASE L = 0
      BY <2>1, <2>2, <2>4, <3>1
    <3>2. CASE L # 0
      <4>1. 1 \in 1 .. L /\ ghostNodeList # <<>> /\ ghostNodeQ # NULL
        BY <2>1, <2>2, <3>2
      <4>2. lastGhostNode = ghostNodeList[1]
        BY <4>1 DEF RoleInv, GhostViewsAgree
      <4> QED BY <2>1, <2>4, <4>1, <4>2
    <3> QED BY <3>1, <3>2
  <2>6. \A j \in 1 .. L + 1 :
          next'[ghostNodeList'[j]] = IF j = 1 THEN NULL ELSE ghostNodeList'[j - 1]
    <3> SUFFICES ASSUME NEW j \in 1 .. L + 1
                 PROVE  next'[ghostNodeList'[j]] =
                          IF j = 1 THEN NULL ELSE ghostNodeList'[j - 1]
      OBVIOUS
    <3>1. CASE j = L + 1
      <4>1. next'[ghostNodeList'[j]] = ghostNodeQ
        BY <1>3, <2>1, <3>1
      <4>2. CASE L = 0
        BY <2>2, <3>1, <4>1, <4>2
      <4>3. CASE L # 0
        <5>1. j # 1 /\ j - 1 = L /\ L \in 1 .. L
          BY <2>1, <3>1, <4>3
        <5> QED BY <2>1, <2>2, <4>1, <4>3, <5>1
      <4> QED BY <4>2, <4>3
    <3>2. CASE j \in 1 .. L
      <4>1. next[ghostNodeList[j]] = IF j = 1 THEN NULL ELSE ghostNodeList[j - 1]
        BY <3>2 DEF RoleInv, GhostViewsAgree, L
      <4>2. j # 1 => j - 1 \in 1 .. L
        BY <2>1, <3>2
      <4> QED BY <2>1, <2>3, <3>2, <4>1, <4>2
    <3> QED BY <2>1, <3>1, <3>2
  <2> QED BY <2>1, <2>4, <2>5, <2>6 DEF GhostViewsAgree
<1>9. LockInv'
  <2>1. ghostNodeQ' = PopNode
    BY DEF AddGhost
  <2> QED BY <1>4, <2>1 DEF LockInv, RoleInv
<1>10. FreeInv'
  <2>1. FreeHead' = PopNext[PopNode] /\ Nodes' = 1 .. PopCount
    BY <1>4 DEF FreeHead, Nodes, AddGhost
  <2>2. \A n \in F : next'[n] = PopNext[n]
    BY <1>2, <1>3
  <2>3. Ranked(F, next', FreeHead')
    BY <1>2, <2>1, <2>2, RankedFrame
  <2>4. F \cap InUse' = {} /\ F \in SUBSET Nodes'
    BY <1>2, <1>6, <2>1
  <2> QED BY <2>3, <2>4 DEF FreeInv, FreeSet
<1> QED BY <1>7, <1>8, <1>9, <1>10 DEF RoleInv
-----------------------------------------------------------------------------
(* The steps of the threads. *)

LEMMA PopReadHeadStep ==
  ASSUME PoolInv, RoleInv, NEW t \in Thread, PopReadHead(t)
  PROVE  RoleInv'
<1>1. \A u \in Thread : pc[u] # "unlink"
  BY NoThreadAssumption DEF PopReadHead, FreeQCritical, RoleInv, LockInv
<1>2. /\ PopNode \notin InUse
      /\ \A n \in Nodes : n \in 1 .. PopCount /\ PopNext[n] = next[n]
  BY <1>1, PopIsFree
<1>3. PICK F \in SUBSET (1 .. PopCount) :
        /\ PopNode \notin F /\ F \cap InUse = {}
        /\ Ranked(F, PopNext, PopNext[PopNode])
  BY <1>1, PopIsFree
<1>4. tmpNodePtrs[t] \in Seq(1 .. PopCount) /\ PopNode \in 1 .. PopCount
      /\ PopCount \in Nat
  BY <1>2, SeqGrows, PopTypes DEF PoolInv, TypeOK, Nodes
<1>5. /\ tmpNodePtrs'[t] = Append(tmpNodePtrs[t], PopNode)
      /\ pc'[t] = "unlink" /\ freeLock' = t
      /\ \A u \in Thread \ {t} : tmpNodePtrs'[u] = tmpNodePtrs[u] /\ pc'[u] = pc[u]
      /\ next' = PopNext /\ freeNodeQ' = PopNode /\ nodeCount' = PopCount
      /\ nodeKeys' = nodeKeys /\ ghostNodeList' = ghostNodeList
      /\ Native' = Native /\ Ghosts' = Ghosts /\ Live' = Live
  BY DEF PopReadHead, PoolInv, TypeOK, tagVars, Native, Ghosts, Live
<1>6. /\ InFlight(t)' = InFlight(t) \cup {PopNode} /\ Injective(tmpNodePtrs'[t])
      /\ \A u \in Thread \ {t} : InFlight(u)' = InFlight(u)
      /\ InUse' = InUse \cup {PopNode}
  <2>1. Injective(tmpNodePtrs[t]) /\ PopNode \notin Elems(tmpNodePtrs[t])
    BY <1>2 DEF RoleInv, OneRole, InUse, InFlight
  <2>2. /\ Elems(tmpNodePtrs'[t]) = Elems(tmpNodePtrs[t]) \cup {PopNode}
        /\ Injective(tmpNodePtrs'[t])
    BY <1>4, <1>5, <2>1, ElemsAppend
  <2>3. \A u \in Thread \ {t} : InFlight(u)' = InFlight(u)
    BY <1>5 DEF InFlight
  <2>4. InFlight(t)' = InFlight(t) \cup {PopNode}
    BY <2>2 DEF InFlight
  <2> QED BY <1>5, <2>2, <2>3, <2>4 DEF InUse
<1>7. OneRole'
  <2>1. /\ \A i, j \in Live' : nodeKeys'[i] = nodeKeys'[j] => i = j
        /\ Injective(ghostNodeList') /\ Native' \cap Ghosts' = {}
    BY <1>5 DEF RoleInv, OneRole
  <2>2. ASSUME NEW u \in Thread
        PROVE  /\ Injective(tmpNodePtrs'[u])
               /\ InFlight(u)' \cap (Native' \cup Ghosts') = {}
               /\ \A v \in Thread \ {u} : InFlight(u)' \cap InFlight(v)' = {}
    <3>1. /\ PopNode \notin Native \cup Ghosts
          /\ \A v \in Thread : PopNode \notin InFlight(v)
      BY <1>2 DEF InUse
    <3>2. CASE u = t
      BY <1>5, <1>6, <3>1, <3>2 DEF RoleInv, OneRole
    <3>3. CASE u # t
      BY <1>5, <1>6, <3>1, <3>3 DEF RoleInv, OneRole
    <3> QED BY <3>2, <3>3
  <2> QED BY <2>1, <2>2 DEF OneRole
<1>8. GhostViewsAgree'
  <2>1. \A n \in Ghosts : next'[n] = next[n]
    BY <1>2, <1>5, RolesTyped DEF PoolInv
  <2> QED BY <2>1, GhostFrame DEF RoleInv, PopReadHead
<1>9. LastPopped(t)' = PopNode
  BY <1>4, <1>5, AppendProperties DEF LastPopped
<1>10. LockInv'
  <2>1. \A u \in Thread \ {t} : pc[u] = "publish" => Head(tmpNodePtrs[u]) \in Nodes
    <3> SUFFICES ASSUME NEW u \in Thread, pc[u] = "publish"
                 PROVE  Head(tmpNodePtrs[u]) \in Nodes
      OBVIOUS
    <3>1. tmpNodePtrs[u] \in Seq(Nodes) /\ tmpNodePtrs[u] # <<>>
      BY DEF PoolInv, QueueInv, TypeOK
    <3> QED BY <3>1, HeadTailProperties
  <2> SUFFICES ASSUME NEW u \in Thread
        PROVE  /\ pc'[u] = "unlink" => freeLock' = u /\ LastPopped(u)' = freeNodeQ'
               /\ pc'[u] = "publish" => ghostLock' = u
               /\ pc'[u] = "publish" => next'[Head(tmpNodePtrs'[u])] = ghostNodeQ'
               /\ pc'[u] = "publish" /\ ghostNodeQ' = NULL =>
                    lastGhostNode' = Head(tmpNodePtrs'[u])
               /\ pc'[u] = "done" => tmpNodePtrs'[u] = <<>>
    BY DEF RoleInv, LockInv, PopReadHead
  <2>2. CASE u = t
    BY <1>5, <1>9, <2>2
  <2>3. CASE u # t
    BY <1>1, <1>2, <1>5, <2>1, <2>3 DEF RoleInv, LockInv, PopReadHead
  <2> QED BY <2>2, <2>3
<1>11. FreeInv'
  <2>1. (CHOOSE u \in Thread : pc'[u] = "unlink") = t
    BY <1>1, <1>5, ChooseOnly
  <2>2. FreeHead' = PopNext[PopNode] /\ Nodes' = 1 .. PopCount
    BY <1>5, <1>9, <2>1 DEF FreeHead, Nodes
  <2>3. Ranked(F, next', FreeHead')
    BY <1>3, <1>5, <2>2
  <2>4. F \cap InUse' = {} /\ F \in SUBSET Nodes'
    BY <1>3, <1>6, <2>2
  <2> QED BY <2>3, <2>4 DEF FreeInv, FreeSet
<1> QED BY <1>7, <1>8, <1>10, <1>11 DEF RoleInv

LEMMA PopUnlinkStep ==
  ASSUME PoolInv, RoleInv, NEW t \in Thread, PopUnlink(t)
  PROVE  RoleInv'
<1>1. /\ pc[t] = "unlink" /\ pc'[t] \in {"push", "pop"}
      /\ \A u \in Thread \ {t} : pc'[u] = pc[u]
      /\ freeNodeQ' = next[LastPopped(t)]
      /\ UNCHANGED <<nodeCount, next, ghostNodeQ, lastGhostNode, ghostNodeList,
                     nodeKeys, tmpNodePtrs, ghostLock, smnNode>>
  BY DEF PopUnlink, PoolInv, TypeOK, tagVars
<1>2. /\ FreeHead = next[LastPopped(t)]
      /\ \A u \in Thread : pc[u] = "unlink" => u = t
  BY <1>1, FreeHeadOf DEF RoleInv
<1>3. Native' = Native /\ Ghosts' = Ghosts /\ Live' = Live /\ Nodes' = Nodes
      /\ InUse' = InUse /\ \A u \in Thread : InFlight(u)' = InFlight(u)
  BY <1>1 DEF Native, Ghosts, Live, Nodes, InUse, InFlight
<1>4. OneRole'
  BY <1>1, <1>3 DEF RoleInv, OneRole
<1>5. GhostViewsAgree'
  BY <1>1 DEF RoleInv, GhostViewsAgree
<1>6. \A u \in Thread : pc'[u] # "unlink"
  BY <1>1, <1>2
<1>7. LockInv'
  BY <1>1, <1>6 DEF RoleInv, LockInv
<1>8. FreeInv'
  <2>1. FreeHead' = FreeHead
    BY <1>1, <1>2, <1>6 DEF FreeHead
  <2> QED BY <1>1, <1>3, <2>1 DEF RoleInv, FreeInv, FreeSet
<1> QED BY <1>4, <1>5, <1>7, <1>8 DEF RoleInv

LEMMA PushGhostLinkStep ==
  ASSUME PoolInv, RoleInv, NEW t \in Thread, PushGhostLink(t)
  PROVE  RoleInv'
<1> DEFINE n == Head(tmpNodePtrs[t])
<1>1. tmpNodePtrs[t] \in Seq(Nodes) /\ tmpNodePtrs[t] # <<>> /\ pc[t] = "push"
      /\ Injective(tmpNodePtrs[t])
  BY DEF PushGhostLink, PoolInv, TypeOK, QueueInv, RoleInv, OneRole
<1>2. n \in InFlight(t) /\ n \in Nodes
  BY <1>1, ElemsTail, HeadTailProperties DEF InFlight
<1>3. /\ pc'[t] = "publish" /\ ghostLock' = t
      /\ \A u \in Thread \ {t} : pc'[u] = pc[u]
      /\ next'[n] = ghostNodeQ
      /\ \A m \in Nodes : m # n => next'[m] = next[m]
      /\ lastGhostNode' = IF ghostNodeQ = NULL THEN n ELSE lastGhostNode
      /\ UNCHANGED <<nodeCount, freeNodeQ, ghostNodeQ, ghostNodeList, nodeKeys,
                     tmpNodePtrs, freeLock, smnNode>>
  BY <1>2 DEF PushGhostLink, PoolInv, TypeOK, tagVars
<1> HIDE DEF n
<1>4. Native' = Native /\ Ghosts' = Ghosts /\ Live' = Live /\ Nodes' = Nodes
      /\ InUse' = InUse /\ \A u \in Thread : InFlight(u)' = InFlight(u)
  BY <1>3 DEF Native, Ghosts, Live, Nodes, InUse, InFlight
<1>5. OneRole'
  BY <1>3, <1>4 DEF RoleInv, OneRole
<1>6. \A u \in Thread : pc[u] # "publish"
  BY <1>1, NoThreadAssumption DEF PushGhostLink, GhostQCritical, RoleInv, LockInv
<1>7. GhostViewsAgree'
  <2>1. \A m \in Ghosts : next'[m] = next[m]
    BY <1>2, <1>3, RolesTyped DEF PoolInv, RoleInv, OneRole
  <2>2. \A j \in 1 .. Len(ghostNodeList) : ghostNodeList[j] \in Ghosts
    BY DEF Ghosts, Elems
  <2>3. ghostNodeList # <<>> => ghostNodeQ # NULL
    <3> HAVE ghostNodeList # <<>>
    <3>1. ghostNodeList \in Seq(Nodes) /\ Len(ghostNodeList) \in 1 .. Len(ghostNodeList)
      BY EmptySeq, LenProperties DEF PoolInv, TypeOK
    <3>2. ghostNodeQ \in Nodes
      BY <3>1, ElementOfSeq DEF RoleInv, GhostViewsAgree
    <3> QED BY <3>2, RolesTyped DEF PoolInv
  <2> QED BY <1>3, <2>1, <2>2, <2>3 DEF RoleInv, GhostViewsAgree
<1>8. LockInv'
  BY <1>3, <1>6 DEF RoleInv, LockInv, LastPopped, n
<1>9. PICK F \in SUBSET Nodes : Ranked(F, next, FreeHead) /\ F \cap InUse = {}
  BY DEF RoleInv, FreeInv, FreeSet
<1>10. FreeInv'
  <2>1. \A m \in F : next'[m] = next[m]
    BY <1>2, <1>3, <1>9 DEF InUse
  <2>2. FreeHead' = FreeHead
    <3>1. CASE \A u \in Thread : pc[u] # "unlink"
      BY <1>3, <3>1 DEF FreeHead
    <3>2. ASSUME NEW u \in Thread, pc[u] = "unlink" PROVE FreeHead' = FreeHead
      <4>1. FreeHead = next[LastPopped(u)] /\ \A v \in Thread : pc[v] = "unlink" => v = u
        BY <3>2, FreeHeadOf DEF RoleInv
      <4>2. u # t /\ pc'[u] = "unlink" /\ \A v \in Thread : pc'[v] = "unlink" => v = u
        BY <1>1, <1>3, <3>2, <4>1
      <4>3. (CHOOSE v \in Thread : pc'[v] = "unlink") = u
        BY <4>2, ChooseOnly
      <4>4. FreeHead' = next'[LastPopped(u)] /\ LastPopped(u)' = LastPopped(u)
        BY <1>3, <4>2, <4>3 DEF FreeHead, LastPopped
      <4>5. LastPopped(u) \in InFlight(u) /\ LastPopped(u) \in Nodes
        <5>1. tmpNodePtrs[u] \in Seq(Nodes) /\ tmpNodePtrs[u] # <<>>
          BY <3>2 DEF PoolInv, TypeOK, QueueInv
        <5>2. Len(tmpNodePtrs[u]) \in 1 .. Len(tmpNodePtrs[u])
          BY <5>1, EmptySeq, LenProperties
        <5> QED BY <5>1, <5>2, ElementOfSeq DEF LastPopped, InFlight, Elems
      <4>6. LastPopped(u) # n
        BY <1>2, <4>2, <4>5 DEF RoleInv, OneRole
      <4> QED BY <1>3, <4>1, <4>4, <4>5, <4>6
    <3> QED BY <3>1, <3>2
  <2>3. Ranked(F, next', FreeHead')
    BY <1>9, <2>1, <2>2, RankedFrame
  <2> QED BY <1>4, <1>9, <2>3 DEF FreeInv, FreeSet
<1> QED BY <1>5, <1>7, <1>8, <1>10 DEF RoleInv

LEMMA PushGhostPublishStep ==
  ASSUME PoolInv, RoleInv, NEW t \in Thread, PushGhostPublish(t)
  PROVE  RoleInv'
<1> DEFINE n == Head(tmpNodePtrs[t])
           L == Len(ghostNodeList)
<1>1. /\ tmpNodePtrs[t] \in Seq(Nodes) /\ tmpNodePtrs[t] # <<>> /\ pc[t] = "publish"
      /\ Injective(tmpNodePtrs[t]) /\ ghostNodeList \in Seq(Nodes)
      /\ Injective(ghostNodeList)
  BY DEF PushGhostPublish, PoolInv, TypeOK, QueueInv, RoleInv, OneRole
<1>2. /\ n \in InFlight(t) /\ n \in Nodes /\ n # NULL /\ n \notin Ghosts
      /\ n \notin Native /\ next[n] = ghostNodeQ
      /\ ghostNodeQ = NULL => lastGhostNode = n
      /\ \A u \in Thread \ {t} : n \notin InFlight(u) /\ pc[u] # "publish"
  <2>1. n \in InFlight(t) /\ n \in Nodes /\ n # NULL
    BY <1>1, ElemsTail, HeadTailProperties, RolesTyped DEF InFlight, PoolInv
  <2> QED BY <1>1, <2>1 DEF RoleInv, OneRole, LockInv
<1>3. /\ tmpNodePtrs'[t] = Tail(tmpNodePtrs[t])
      /\ pc'[t] \in {"done", "push"}
      /\ pc'[t] = "done" => Len(tmpNodePtrs[t]) = 1
      /\ \A u \in Thread \ {t} : pc'[u] = pc[u] /\ tmpNodePtrs'[u] = tmpNodePtrs[u]
      /\ ghostNodeQ' = n /\ ghostNodeList' = Append(ghostNodeList, n)
      /\ UNCHANGED <<nodeCount, next, freeNodeQ, lastGhostNode, nodeKeys, freeLock,
                     smnNode>>
  BY DEF PushGhostPublish, LastPush, PoolInv, TypeOK, tagVars
<1>4. smnNode = NULL
  BY <1>1 DEF PoolInv, QueueInv
<1> HIDE DEF n
<1>5. /\ InFlight(t)' = InFlight(t) \ {n} /\ Injective(tmpNodePtrs'[t])
      /\ \A u \in Thread \ {t} : InFlight(u)' = InFlight(u)
  BY <1>1, <1>3, ElemsTail DEF InFlight, n
<1>6. Ghosts' = Ghosts \cup {n} /\ Injective(ghostNodeList')
  BY <1>1, <1>2, <1>3, ElemsAppend DEF Ghosts
<1>7. Native' = Native /\ Live' = Live /\ Nodes' = Nodes
  BY <1>3 DEF Native, Live, Nodes
<1>8. InUse' = InUse
  BY <1>2, <1>5, <1>6, <1>7 DEF InUse
<1>9. OneRole'
  <2>1. /\ \A i, j \in Live' : nodeKeys'[i] = nodeKeys'[j] => i = j
        /\ Injective(ghostNodeList') /\ Native' \cap Ghosts' = {}
    BY <1>2, <1>3, <1>6, <1>7 DEF RoleInv, OneRole
  <2>2. ASSUME NEW u \in Thread
        PROVE  /\ Injective(tmpNodePtrs'[u])
               /\ InFlight(u)' \cap (Native' \cup Ghosts') = {}
               /\ \A v \in Thread \ {u} : InFlight(u)' \cap InFlight(v)' = {}
    <3>1. CASE u = t
      BY <1>3, <1>5, <1>6, <1>7, <3>1 DEF RoleInv, OneRole
    <3>2. CASE u # t
      BY <1>2, <1>3, <1>5, <1>6, <1>7, <3>2 DEF RoleInv, OneRole
    <3> QED BY <3>1, <3>2
  <2> QED BY <2>1, <2>2 DEF OneRole
<1>10. GhostViewsAgree'
  <2>1. /\ L \in Nat /\ Len(ghostNodeList') = L + 1
        /\ ghostNodeList' # <<>>
        /\ \A j \in 1 .. L : ghostNodeList'[j] = ghostNodeList[j]
        /\ ghostNodeList'[L + 1] = n
    BY <1>1, <1>2, <1>3, AppendProperties, LenProperties
  <2>2. /\ ghostNodeList = <<>> <=> L = 0
        /\ ghostNodeQ = NULL <=> ghostNodeList = <<>>
        /\ ghostNodeList # <<>> => ghostNodeQ = ghostNodeList[L]
    <3>1. ghostNodeList = <<>> <=> L = 0
      BY <1>1, EmptySeq
    <3>2. ghostNodeList # <<>> => ghostNodeList[L] \in Nodes
      <4> HAVE ghostNodeList # <<>>
      <4>1. L \in 1 .. L
        BY <2>1, <3>1
      <4> QED BY <1>1, <4>1, ElementOfSeq
    <3> QED BY <3>1, <3>2, RolesTyped DEF RoleInv, GhostViewsAgree, PoolInv
  <2>3. /\ ghostNodeList # <<>> => lastGhostNode = ghostNodeList[1]
        /\ \A j \in 1 .. L : next[ghostNodeList[j]] =
                               IF j = 1 THEN NULL ELSE ghostNodeList[j - 1]
    BY DEF RoleInv, GhostViewsAgree
  <2> HIDE DEF L
  <2>4. lastGhostNode' = ghostNodeList'[1]
    <3>1. CASE L = 0
      BY <1>2, <1>3, <2>1, <2>2, <3>1
    <3>2. CASE L # 0
      <4>1. 1 \in 1 .. L
        BY <2>1, <3>2
      <4> QED BY <1>3, <2>1, <2>2, <2>3, <3>2, <4>1
    <3> QED BY <3>1, <3>2
  <2>5. ASSUME NEW j \in 1 .. L + 1
        PROVE  next'[ghostNodeList'[j]] = IF j = 1 THEN NULL ELSE ghostNodeList'[j - 1]
    <3>1. CASE j = L + 1
      <4>1. next'[ghostNodeList'[j]] = ghostNodeQ
        BY <1>2, <1>3, <2>1, <3>1
      <4>2. CASE L = 0
        BY <2>2, <3>1, <4>1, <4>2
      <4>3. CASE L # 0
        <5>1. j # 1 /\ j - 1 = L /\ L \in 1 .. L
          BY <2>1, <3>1, <4>3
        <5> QED BY <2>1, <2>2, <4>1, <4>3, <5>1
      <4> QED BY <4>2, <4>3
    <3>2. CASE j \in 1 .. L
      <4>1. j # 1 => j - 1 \in 1 .. L
        BY <2>1, <3>2
      <4> QED BY <1>3, <2>1, <2>3, <3>2, <4>1
    <3> QED BY <2>1, <3>1, <3>2
  <2> QED BY <1>3, <2>1, <2>4, <2>5 DEF GhostViewsAgree
<1>11. LockInv'
  <2>1. pc'[t] = "done" => tmpNodePtrs'[t] = <<>>
    <3> HAVE pc'[t] = "done"
    <3>1. Len(Tail(tmpNodePtrs[t])) = 0 /\ Tail(tmpNodePtrs[t]) \in Seq(Nodes)
      BY <1>1, <1>3, HeadTailProperties
    <3> QED BY <1>3, <3>1, EmptySeq
  <2> QED BY <1>2, <1>3, <1>4, <2>1 DEF RoleInv, LockInv, LastPopped
<1>12. FreeInv'
  <2>1. FreeHead' = FreeHead
    <3>1. CASE \A u \in Thread : pc[u] # "unlink"
      BY <1>3, <3>1 DEF FreeHead
    <3>2. ASSUME NEW u \in Thread, pc[u] = "unlink" PROVE FreeHead' = FreeHead
      <4>1. FreeHead = next[LastPopped(u)] /\ \A v \in Thread : pc[v] = "unlink" => v = u
        BY <3>2, FreeHeadOf DEF RoleInv
      <4>2. u # t /\ pc'[u] = "unlink" /\ \A v \in Thread : pc'[v] = "unlink" => v = u
        BY <1>1, <1>3, <3>2, <4>1
      <4>3. (CHOOSE v \in Thread : pc'[v] = "unlink") = u
        BY <4>2, ChooseOnly
      <4> QED BY <1>3, <4>1, <4>2, <4>3 DEF FreeHead, LastPopped
    <3> QED BY <3>1, <3>2
  <2> QED BY <1>3, <1>7, <1>8, <2>1 DEF RoleInv, FreeInv, FreeSet
<1> QED BY <1>9, <1>10, <1>11, <1>12 DEF RoleInv
-----------------------------------------------------------------------------
(* The steps of a domain whose threads are idle. *)

(* A step that leaves every structure where it is. *)
LEMMA RolesKept ==
  ASSUME RoleInv, \A t \in Thread : pc[t] # "unlink" /\ pc[t] # "publish",
         \A t \in Thread : /\ pc'[t] # "unlink" /\ pc'[t] # "publish"
                           /\ pc'[t] = "done" => tmpNodePtrs[t] = <<>>,
         UNCHANGED <<queueVars, tmpNodePtrs, smnNode>>,
         Native' = Native,
         \A i, j \in Live' : nodeKeys'[i] = nodeKeys'[j] => i = j
  PROVE  RoleInv'
<1>1. /\ UNCHANGED <<nodeCount, next, freeNodeQ, ghostNodeQ, lastGhostNode, ghostNodeList>>
      /\ Ghosts' = Ghosts /\ Nodes' = Nodes
      /\ \A u \in Thread : InFlight(u)' = InFlight(u)
  BY DEF queueVars, Ghosts, Nodes, InFlight
<1>2. InUse' = InUse /\ FreeHead' = FreeHead
  BY <1>1 DEF InUse, FreeHead
<1>3. OneRole'
  BY <1>1 DEF RoleInv, OneRole
<1>4. GhostViewsAgree'
  BY <1>1 DEF RoleInv, GhostViewsAgree
<1>5. LockInv'
  BY <1>1 DEF RoleInv, LockInv
<1>6. FreeInv'
  BY <1>1, <1>2 DEF RoleInv, FreeInv, FreeSet
<1> QED BY <1>3, <1>4, <1>5, <1>6 DEF RoleInv

LEMMA CompressMoveStep ==
  ASSUME PoolInv, TagInv, RoleInv, CompressMove
  PROVE  RoleInv'
<1> DEFINE t == FreeNodeTag
<1>1. t \notin Live /\ ci \in Live /\ Live' = (Live \ {ci}) \cup {t}
  BY FreeNodeTagIsFree DEF CompressMove, TagInv, Live
<1>2. nodeKeys'[t] = nodeKeys[ci] /\ \A j \in Live \ {ci} : nodeKeys'[j] = nodeKeys[j]
  BY <1>1 DEF CompressMove
<1> HIDE DEF t
<1>3. Native' = Native
  BY <1>1, <1>2 DEF Native
<1>4. \A i, j \in Live' : nodeKeys'[i] = nodeKeys'[j] => i = j
  BY <1>1, <1>2 DEF RoleInv, OneRole
<1> QED BY <1>3, <1>4, RolesKept
        DEF CompressMove, threadVars, PoolInv, QueueInv, RoleInv, LockInv

LEMMA FreeNodeStep ==
  ASSUME PoolInv, RoleInv, NEW i \in Live, FreeNode(i)
  PROVE  RoleInv'
<1> DEFINE n == nodeKeys[i]
<1>1. /\ n \in Nodes /\ n \in Native /\ n \in InUse
      /\ \A t \in Thread : pc[t] = "done" /\ n \notin InFlight(t)
      /\ n \notin Ghosts
  BY DEF FreeNode, PoolInv, TypeOK, QueueInv, Native, InUse, RoleInv, OneRole
<1>2. /\ next' = [next EXCEPT ![n] = freeNodeQ] /\ freeNodeQ' = n
      /\ \A m \in Nodes : m # n => next'[m] = next[m]
      /\ Live' = Live \ {i} /\ \A j \in Live' : nodeKeys'[j] = nodeKeys[j]
      /\ UNCHANGED <<nodeCount, ghostNodeQ, lastGhostNode, ghostNodeList, threadVars,
                     smnNode>>
  BY DEF FreeNode, KeysWithout, Live, PoolInv, TypeOK
<1> HIDE DEF n
<1>3. Native' = Native \ {n}
  BY <1>2 DEF Native, RoleInv, OneRole, n
<1>4. /\ Ghosts' = Ghosts /\ Nodes' = Nodes
      /\ \A u \in Thread : InFlight(u)' = InFlight(u)
  BY <1>2 DEF Ghosts, Nodes, InFlight, threadVars
<1>5. InUse' = InUse \ {n}
  BY <1>1, <1>3, <1>4 DEF InUse
<1>6. OneRole'
  BY <1>2, <1>3, <1>4 DEF RoleInv, OneRole, threadVars
<1>7. GhostViewsAgree'
  BY <1>1, <1>2, GhostFrame, RolesTyped DEF PoolInv, RoleInv
<1>8. LockInv'
  BY <1>1, <1>2 DEF RoleInv, LockInv, threadVars
<1>9. FreeInv'
  <2>1. PICK F \in SUBSET Nodes : Ranked(F, next, freeNodeQ) /\ F \cap InUse = {}
    BY <1>1 DEF RoleInv, FreeInv, FreeSet, FreeHead
  <2>2. Nodes \in SUBSET Nat /\ NULL \notin Nodes /\ next \in [Nodes -> Nodes \cup {NULL}]
    BY DEF PoolInv, TypeOK, Nodes, NULL
  <2>3. F \in SUBSET Nat /\ n \notin F
    BY <1>1, <2>1, <2>2
  <2>4. Ranked(F \cup {n}, next', n)
    BY <1>1, <1>2, <2>1, <2>2, <2>3, RankedPush
  <2>5. FreeHead' = n
    BY <1>1, <1>2 DEF FreeHead, threadVars
  <2>6. F \cup {n} \in SUBSET Nodes' /\ (F \cup {n}) \cap InUse' = {}
    BY <1>1, <1>4, <1>5, <2>1
  <2> QED BY <2>4, <2>5, <2>6 DEF FreeInv, FreeSet
<1> QED BY <1>6, <1>7, <1>8, <1>9 DEF RoleInv

LEMMA MergeGhostNodeStep ==
  ASSUME PoolInv, RoleInv, MergeGhostNode
  PROVE  RoleInv'
<1> DEFINE n == smnNode
           L == Len(ghostNodeList)
           w == AllButLast(ghostNodeList)
<1>1. /\ ghostNodeList \in Seq(Nodes) /\ ghostNodeList # <<>>
      /\ Injective(ghostNodeList) /\ n = ghostNodeList[L] /\ n = ghostNodeQ
      /\ \A t \in Thread : pc[t] = "done"
  BY DEF MergeGhostNode, PoolInv, TypeOK, QueueInv, RoleInv, OneRole, LockInv,
         GhostViewsAgree
<1>2. /\ L \in Nat /\ L >= 1 /\ Len(w) = L - 1 /\ \A j \in 1 .. L - 1 : w[j] = ghostNodeList[j]
      /\ n \in Ghosts /\ Elems(w) = Ghosts \ {n} /\ Injective(w)
  <2>1. /\ Len(ghostNodeList) \in Nat /\ Len(ghostNodeList) >= 1
        /\ Len(w) = Len(ghostNodeList) - 1
        /\ \A j \in 1 .. Len(w) : w[j] = ghostNodeList[j]
        /\ ghostNodeList[Len(ghostNodeList)] \in Elems(ghostNodeList)
        /\ Elems(w) = Elems(ghostNodeList) \ {ghostNodeList[Len(ghostNodeList)]}
        /\ Injective(w)
    BY <1>1, ElemsFront
  <2> QED BY <1>1, <2>1 DEF Ghosts
<1>3. /\ n \in Nodes /\ n \in InUse /\ n \notin Native
      /\ \A t \in Thread : n \notin InFlight(t)
  BY <1>2, RolesTyped DEF PoolInv, InUse, RoleInv, OneRole
<1>4. /\ ghostNodeQ' = next[n] /\ ghostNodeList' = w
      /\ next' = [next EXCEPT ![n] = freeNodeQ] /\ freeNodeQ' = n /\ smnNode' = NULL
      /\ \A m \in Nodes : m # n => next'[m] = next[m]
      /\ UNCHANGED <<nodeCount, lastGhostNode, tagVars, threadVars>>
  BY DEF MergeGhostNode, AllButLast, PoolInv, TypeOK
<1>5. /\ next[n] = IF L = 1 THEN NULL ELSE ghostNodeList[L - 1]
      /\ lastGhostNode = ghostNodeList[1]
      /\ \A j \in 1 .. L : next[ghostNodeList[j]] =
                             IF j = 1 THEN NULL ELSE ghostNodeList[j - 1]
  BY <1>1, <1>2 DEF RoleInv, GhostViewsAgree
<1> HIDE DEF n, w, L
<1>6. /\ Ghosts' = Ghosts \ {n} /\ Injective(ghostNodeList')
      /\ Native' = Native /\ Live' = Live /\ nodeKeys' = nodeKeys /\ Nodes' = Nodes
      /\ \A u \in Thread : InFlight(u)' = InFlight(u)
  BY <1>2, <1>4 DEF Ghosts, Native, Live, Nodes, InFlight, threadVars, tagVars
<1>7. InUse' = InUse \ {n}
  BY <1>3, <1>6 DEF InUse
<1>8. OneRole'
  BY <1>4, <1>6 DEF RoleInv, OneRole, threadVars
<1>9. GhostViewsAgree'
  <2>1. w = <<>> => L = 1
    <3>1. w = <<>> => Len(w) = 0
      BY EmptySeq
    <3> QED BY <1>2, <3>1
  <2>2. L = 1 => w = <<>>
    <3>1. w \in Seq(Nodes)
      <4>1. \A i \in 1 .. L - 1 : ghostNodeList[i] \in Nodes
        BY <1>1, <1>2, ElementOfSeq DEF L
      <4> QED BY <1>2, <4>1, SubSeqProperties DEF w, L, AllButLast
    <3> QED BY <1>2, <3>1, EmptySeq
  <2>3. ghostNodeQ' = IF w = <<>> THEN NULL ELSE w[Len(w)]
    BY <1>2, <1>4, <1>5, <2>1, <2>2
  <2>4. w # <<>> => lastGhostNode' = w[1]
    BY <1>2, <1>4, <1>5, <2>2
  <2>5. ASSUME NEW j \in 1 .. Len(w)
        PROVE  next'[w[j]] = IF j = 1 THEN NULL ELSE w[j - 1]
    <3>1. j \in 1 .. L /\ w[j] = ghostNodeList[j] /\ w[j] \in Elems(w)
          /\ (j # 1 => j - 1 \in 1 .. L - 1)
      BY <1>2 DEF Elems
    <3>2. w[j] \in Nodes /\ w[j] # n
      BY <1>2, <3>1, RolesTyped DEF PoolInv
    <3> QED BY <1>2, <1>4, <1>5, <3>1, <3>2
  <2> QED BY <1>4, <2>3, <2>4, <2>5 DEF GhostViewsAgree
<1>10. LockInv'
  BY <1>1, <1>4 DEF RoleInv, LockInv, threadVars
<1>11. FreeInv'
  <2>1. PICK F \in SUBSET Nodes : Ranked(F, next, freeNodeQ) /\ F \cap InUse = {}
    BY <1>1 DEF RoleInv, FreeInv, FreeSet, FreeHead
  <2>2. Nodes \in SUBSET Nat /\ NULL \notin Nodes /\ next \in [Nodes -> Nodes \cup {NULL}]
    BY DEF PoolInv, TypeOK, Nodes, NULL
  <2>3. F \in SUBSET Nat /\ n \notin F
    BY <1>3, <2>1, <2>2
  <2>4. Ranked(F \cup {n}, next', n)
    BY <1>3, <1>4, <2>1, <2>2, <2>3, RankedPush
  <2>5. FreeHead' = n
    BY <1>1, <1>4 DEF FreeHead, threadVars
  <2>6. F \cup {n} \in SUBSET Nodes' /\ (F \cup {n}) \cap InUse' = {}
    BY <1>3, <1>6, <1>7, <2>1
  <2> QED BY <2>4, <2>5, <2>6 DEF FreeInv, FreeSet
<1> QED BY <1>8, <1>9, <1>10, <1>11 DEF RoleInv

(* The ghost queue is a chain, ranked by the place in the ghost array. *)
LEMMA GhostChain ==
  ASSUME TypeOK, OneRole, GhostViewsAgree, ghostNodeQ # NULL
  PROVE  /\ Len(ghostNodeList) \in Nat
         /\ ghostNodeQ \in Ghosts
         /\ Ranked(Ghosts, next, ghostNodeQ)
         /\ \E r \in [Ghosts -> 0 .. Len(ghostNodeList)] :
              \A n \in Ghosts : next[n] \in Ghosts => r[next[n]] < r[n]
<1> DEFINE s == ghostNodeList
           L == Len(ghostNodeList)
           r == [n \in Ghosts |-> CHOOSE j \in 1 .. L : s[j] = n]
<1>1. s \in Seq(Nodes) /\ s # <<>> /\ L \in Nat /\ L \in 1 .. L /\ ghostNodeQ = s[L]
  BY EmptySeq, LenProperties DEF TypeOK, GhostViewsAgree
<1>2. ghostNodeQ \in Ghosts
  BY <1>1 DEF Ghosts, Elems
<1>3. \A n \in Ghosts : r[n] \in 1 .. L /\ s[r[n]] = n
  BY DEF Ghosts, Elems
<1>4. \A j \in 1 .. L : s[j] \in Ghosts /\ r[s[j]] = j
  <2> SUFFICES ASSUME NEW j \in 1 .. L PROVE s[j] \in Ghosts /\ r[s[j]] = j
    OBVIOUS
  <2>1. s[j] \in Ghosts
    BY DEF Ghosts, Elems
  <2>2. r[s[j]] \in 1 .. L /\ s[r[s[j]]] = s[j]
    BY <1>3, <2>1
  <2> HIDE DEF r
  <2> QED BY <2>1, <2>2 DEF OneRole, Injective
<1>5. \A j \in 1 .. L : next[s[j]] = IF j = 1 THEN NULL ELSE s[j - 1]
  BY DEF GhostViewsAgree
<1>6. \A j \in 1 .. L : j # 1 => j - 1 \in 1 .. L
  BY <1>1
<1>7. Ghosts \subseteq Nodes /\ NULL \notin Ghosts
  BY RolesTyped
<1>8. r \in [Ghosts -> 0 .. L]
  BY <1>3
<1> HIDE DEF s, r
<1>9. ASSUME NEW n \in Ghosts
      PROVE  /\ next[n] \in Ghosts \cup {NULL}
             /\ next[n] \in Ghosts => r[next[n]] < r[n]
  <2>1. PICK j \in 1 .. L : n = s[j] /\ r[n] = j
    BY <1>3
  <2>2. CASE j = 1
    BY <1>5, <1>7, <2>1, <2>2
  <2>3. CASE j # 1
    <3>1. j - 1 \in 1 .. L /\ next[n] = s[j - 1]
      BY <1>5, <1>6, <2>1, <2>3
    <3>2. next[n] \in Ghosts /\ r[next[n]] = j - 1
      BY <1>4, <3>1
    <3> QED BY <2>1, <3>2, <1>1
  <2> QED BY <2>2, <2>3
<1>10. r \in [Ghosts -> Nat]
  BY <1>1, <1>8
<1>11. Ranked(Ghosts, next, ghostNodeQ)
  BY <1>2, <1>9, <1>10 DEF Ranked
<1> QED BY <1>1, <1>2, <1>8, <1>9, <1>11

LEMMA RecycleGhostNodesStep ==
  ASSUME PoolInv, RoleInv, RecycleGhostNodes
  PROVE  RoleInv'
<1>1. /\ \A t \in Thread : pc[t] = "done" /\ tmpNodePtrs[t] = <<>>
      /\ UNCHANGED <<tagVars, threadVars, smnNode>>
  BY DEF RecycleGhostNodes, PoolInv, QueueInv, RoleInv, LockInv
<1>2. CASE ghostNodeQ = NULL
  <2>1. UNCHANGED <<queueVars, tmpNodePtrs, pc, nodeKeys, smnNode>>
    BY <1>1, <1>2 DEF RecycleGhostNodes, threadVars, tagVars
  <2>2. Native' = Native /\ Live' = Live
    BY <2>1 DEF Native, Live
  <2>3. \A i, j \in Live' : nodeKeys'[i] = nodeKeys'[j] => i = j
    BY <2>1, <2>2 DEF RoleInv, OneRole
  <2> QED BY <1>1, <2>1, <2>2, <2>3, RolesKept
<1>3. CASE ghostNodeQ # NULL
  <2> DEFINE L == Len(ghostNodeList)
  <2>1. /\ freeNodeQ' = (IF freeNodeQ = NULL THEN ghostNodeQ ELSE freeNodeQ)
        /\ next' = (IF freeNodeQ = NULL THEN next
                    ELSE [next EXCEPT ![lastFreeNode] = ghostNodeQ])
        /\ ghostNodeQ' = NULL /\ ghostNodeList' = <<>> /\ nodeCount' = nodeCount
    BY <1>3 DEF RecycleGhostNodes
  <2>2. /\ Ghosts' = {} /\ Native' = Native /\ Live' = Live /\ Nodes' = Nodes
        /\ \A u \in Thread : InFlight(u)' = InFlight(u) /\ InFlight(u) = {}
    <3>1. Len(<<>>) = 0
      OBVIOUS
    <3> QED BY <1>1, <2>1, <3>1
            DEF Ghosts, Native, Live, Nodes, InFlight, Elems, tagVars, threadVars
  <2>3. InUse' = Native
    BY <2>2 DEF InUse
  <2>4. OneRole'
    BY <1>1, <2>1, <2>2 DEF RoleInv, OneRole, Injective, tagVars, threadVars
  <2>5. GhostViewsAgree'
    BY <2>1 DEF GhostViewsAgree
  <2>6. LockInv'
    <3>1. smnNode' = NULL
      BY DEF RecycleGhostNodes
    <3> QED BY <1>1, <3>1 DEF LockInv, threadVars
  <2>7. /\ L \in Nat /\ ghostNodeQ \in Ghosts /\ Ranked(Ghosts, next, ghostNodeQ)
        /\ \E r \in [Ghosts -> 0 .. L] :
             \A n \in Ghosts : next[n] \in Ghosts => r[next[n]] < r[n]
    BY <1>3, GhostChain DEF PoolInv, RoleInv
  <2>8. Ghosts \cap Native = {} /\ Ghosts \subseteq Nodes /\ Ghosts \subseteq InUse
        /\ Native \subseteq InUse
    BY RolesTyped DEF PoolInv, RoleInv, OneRole, InUse
  <2>9. Nodes \in SUBSET Nat /\ NULL \notin Nodes /\ next \in [Nodes -> Nodes \cup {NULL}]
    BY DEF PoolInv, TypeOK, Nodes, NULL
  <2>10. FreeHead' = freeNodeQ'
    BY <1>1 DEF FreeHead, threadVars
  <2> HIDE DEF L
  <2>11. \E G \in SUBSET Nodes : Ranked(G, next', freeNodeQ') /\ G \cap Native = {}
    <3>1. CASE freeNodeQ = NULL
      BY <2>1, <2>7, <2>8, <3>1
    <3>2. CASE freeNodeQ # NULL
      <4>1. PICK F \in SUBSET Nodes : Ranked(F, next, freeNodeQ) /\ F \cap InUse = {}
        BY <1>1 DEF RoleInv, FreeInv, FreeSet, FreeHead
      <4>2. \A n \in Nodes : n # lastFreeNode => next'[n] = next[n]
        BY <2>1, <2>9, <3>2
      <4>3. CASE lastFreeNode \in F
        <5>1. next'[lastFreeNode] = ghostNodeQ
          BY <2>1, <2>9, <3>2, <4>1, <4>3
        <5>2. F \in SUBSET Nat /\ Ghosts \in SUBSET Nat /\ F \cap Ghosts = {}
              /\ NULL \notin F /\ NULL \notin Ghosts
          BY <2>8, <2>9, <4>1
        <5>3. \A n \in (F \cup Ghosts) \ {lastFreeNode} : next'[n] = next[n]
          BY <2>8, <4>1, <4>2
        <5>4. Ranked(F \cup Ghosts, next', freeNodeQ)
          BY <2>7, <4>1, <4>3, <5>1, <5>2, <5>3, RankedSplice
        <5> QED BY <2>1, <2>8, <3>2, <4>1, <5>4
      <4>4. CASE lastFreeNode \notin F
        <5>1. \A n \in F : next'[n] = next[n]
          BY <4>1, <4>2, <4>4
        <5>2. Ranked(F, next', freeNodeQ)
          BY <4>1, <5>1, RankedFrame
        <5> QED BY <2>1, <2>8, <3>2, <4>1, <5>2
      <4> QED BY <4>3, <4>4
    <3> QED BY <3>1, <3>2
  <2>12. FreeInv'
    BY <2>2, <2>3, <2>10, <2>11 DEF FreeInv, FreeSet
  <2> QED BY <2>4, <2>5, <2>6, <2>12 DEF RoleInv
<1> QED BY <1>2, <1>3
-----------------------------------------------------------------------------
LEMMA RoleInvStep == PoolInv /\ TagInv /\ RoleInv /\ [Next]_vars => RoleInv'
<1> SUFFICES ASSUME PoolInv, TagInv, RoleInv, [Next]_vars PROVE RoleInv'
  OBVIOUS
<1>1. ASSUME phase # "import"
      PROVE  \A t \in Thread : pc[t] = "done" /\ tmpNodePtrs[t] = <<>>
  BY <1>1 DEF PoolInv, QueueInv, RoleInv, LockInv
<1>2. ASSUME UNCHANGED <<queueVars, nodeKeys, tmpNodePtrs, smnNode>>
      PROVE  /\ UNCHANGED <<queueVars, tmpNodePtrs, smnNode>> /\ Native' = Native
             /\ \A i, j \in Live' : nodeKeys'[i] = nodeKeys'[j] => i = j
  BY <1>2 DEF Native, Live, RoleInv, OneRole
<1>3. ASSUME NEW i \in InitTags, UnpackInitialNode(i) PROVE RoleInv'
  <2>1. /\ \A t \in Thread : pc[t] = "done"
        /\ i \notin Live /\ nodeKeys' = KeysWith(i, PopNode)
        /\ \A n \in 1 .. PopCount : n # PopNode => next'[n] = PopNext[n]
        /\ freeNodeQ' = PopNext[PopNode] /\ nodeCount' = PopCount
        /\ UNCHANGED <<ghostNodeQ, lastGhostNode, ghostNodeList, threadVars, smnNode>>
    BY <1>1, <1>3, PopTypes DEF UnpackInitialNode, PoolInv
  <2> QED BY <2>1, NativeStep
<1>4. CASE InitRecycleNodeHeap \/ CompressSkip
  <2>1. UNCHANGED <<queueVars, nodeKeys, tmpNodePtrs, smnNode, pc>> /\ phase # "import"
    BY <1>4 DEF InitRecycleNodeHeap, CompressSkip, threadVars, tagVars
  <2> QED BY <1>1, <1>2, <2>1, RolesKept
<1>5. CASE CompressMove
  BY <1>5, CompressMoveStep
<1>6. ASSUME NEW k \in [Thread -> 0 .. MaxImport], CompressEnd(k) PROVE RoleInv'
  <2>1. UNCHANGED <<queueVars, nodeKeys, tmpNodePtrs, smnNode>> /\ phase # "import"
        /\ \A t \in Thread : pc'[t] \in {"pop", "done"}
    BY <1>6 DEF CompressEnd, tagVars
  <2> QED BY <1>1, <1>2, <2>1, RolesKept
<1>7. ASSUME NEW t \in Thread, ThreadStep(t) PROVE RoleInv'
  BY <1>7, PopReadHeadStep, PopUnlinkStep, PushGhostLinkStep, PushGhostPublishStep
     DEF ThreadStep
<1>8. CASE EndCommSendGhosts
  <2>1. UNCHANGED <<queueVars, nodeKeys, tmpNodePtrs, smnNode, pc>>
        /\ \A t \in Thread : pc[t] = "done"
    BY <1>8 DEF EndCommSendGhosts
  <2> QED BY <1>2, <2>1, RolesKept DEF RoleInv, LockInv
<1>9. CASE GetNewNativeNode
  <2>1. FreeNodeTag \notin Live /\ phase # "import"
    BY <1>9, FreeNodeTagIsFree DEF GetNewNativeNode, TagInv
  <2> QED BY <1>1, <1>9, <2>1, NativeStep DEF GetNewNativeNode
<1>10. CASE GetNewGhostNode \/ SplitGhostNode
  BY <1>1, <1>10, AddGhostStep DEF GetNewGhostNode, SplitGhostNode
<1>11. ASSUME NEW i \in Live, FreeNode(i) PROVE RoleInv'
  BY <1>11, FreeNodeStep
<1>12. CASE MergeGhostNode
  BY <1>12, MergeGhostNodeStep
<1>13. CASE RecycleGhostNodes
  BY <1>13, RecycleGhostNodesStep
<1>14. CASE UNCHANGED vars
  <2>1. UNCHANGED <<queueVars, nodeKeys, tmpNodePtrs, smnNode, pc, freeLock, ghostLock>>
        /\ UNCHANGED <<nodeCount, next, freeNodeQ, ghostNodeQ, lastGhostNode, ghostNodeList>>
    BY <1>14 DEF vars, queueVars, threadVars, tagVars
  <2>2. Native' = Native /\ Live' = Live /\ Ghosts' = Ghosts /\ Nodes' = Nodes
        /\ InUse' = InUse /\ \A u \in Thread : InFlight(u)' = InFlight(u)
    BY <2>1 DEF Native, Live, Ghosts, Nodes, InUse, InFlight
  <2>3. OneRole' /\ GhostViewsAgree' /\ LockInv'
    BY <2>1, <2>2 DEF RoleInv, OneRole, GhostViewsAgree, LockInv, LastPopped
  <2>4. FreeInv'
    BY <2>1, <2>2 DEF RoleInv, FreeInv, FreeSet, FreeHead, LastPopped
  <2> QED BY <2>3, <2>4 DEF RoleInv
<1> QED BY <1>3, <1>4, <1>5, <1>6, <1>7, <1>8, <1>9, <1>10, <1>11, <1>12, <1>13,
           <1>14 DEF Next

LEMMA RoleInvariant == Spec => [](PoolInv /\ TagInv /\ RoleInv)
<1> QED BY PoolInvInit, PoolInvStep, TagInvInit, TagInvStep, RoleInvInit, RoleInvStep,
           PTL DEF Spec

(* No structure ever has two roles, whatever the threads interleave and    *)
(* wherever lastFreeNode points.                                           *)
THEOREM NodesHaveOneRole == Spec => []OneRole
<1>1. RoleInv => OneRole
  BY DEF RoleInv
<1> QED BY <1>1, RoleInvariant, PTL

(* No pop can hand out a structure that is in use. *)
THEOREM FreeQueueNotInUse == Spec => []FreeNotInUse
<1>1. RoleInv => FreeNotInUse
  BY FreeInvSuffices DEF RoleInv
<1> QED BY <1>1, RoleInvariant, PTL

(* The two together, as the model is checked for them. *)
THEOREM RolesAreSound == Spec => []RolesSound
<1>1. OneRole /\ FreeNotInUse => RolesSound
  BY DEF RolesSound
<1> QED BY <1>1, NodesHaveOneRole, FreeQueueNotInUse, PTL

(* The ghost queue and the ghost array always hold the same structures in  *)
(* the same order.                                                         *)
THEOREM GhostViewsAlwaysAgree == Spec => []GhostViewsAgree
<1>1. RoleInv => GhostViewsAgree
  BY DEF RoleInv
<1> QED BY <1>1, RoleInvariant, PTL
-----------------------------------------------------------------------------
(* The array heap behind the recycled tags.  The heap rule as it stands is *)
(* inductive: besides the place a loop works on it relates the descendants *)
(* of that place to its ancestors.  That the root is the least entry is an *)
(* induction over the array: the first entry smaller than the root would   *)
(* have a parent that is smaller too.                                      *)
HeapInv == HeapTypeOK /\ HeapRule

(* Every non-empty set of numbers has a least element.                     *)
LEMMA LeastNumber ==
  ASSUME NEW S, S \subseteq Nat, S # {}
  PROVE  \E n \in S : \A m \in S : n <= m
<1> DEFINE R == OpToRel(<, Nat)
<1>1. IsWellFoundedOn(R, Nat)
  BY NatLessThanWellFounded
<1>2. \A m \in Nat : \A k \in Nat : m < k => <<m, k>> \in R
  BY DEF OpToRel
<1> HIDE DEF R
<1>3. PICK n \in S : \A m \in S : ~(<<m, n>> \in R)
  BY <1>1, WFMin
<1>4. ASSUME NEW m \in S PROVE n <= m
  <2>1. m \in Nat /\ n \in Nat /\ ~(<<m, n>> \in R)
    BY <1>3
  <2>2. ~(m < n)
    BY <1>2, <2>1
  <2> QED BY <2>1, <2>2
<1> QED BY <1>4

(* The parent of an entry comes before it, and an entry has two children.  *)
LEMMA Parents ==
  /\ \A i \in Nat \ {0} : Parent(i) \in Nat /\ Parent(i) < i
  /\ \A i, j \in Nat : j > 0 => (Parent(j) = i <=> j \in {2 * i + 1, 2 * i + 2})
BY DEF Parent

(* What holds of the entries in use, in numbers.                           *)
LEMMA Entries ==
  ASSUME HeapInv
  PROVE  /\ Used \in Nat /\ Used <= heapSize /\ heapSize \in Nat /\ heapCnt \in Nat
         /\ at \in Nat /\ (loop # "idle" => at < Used \/ Used = 0)
         /\ DOMAIN heap = 0 .. heapSize - 1
         /\ \A i \in 0 .. Used - 1 : heap[i] \in Tags /\ heap[i] \in Nat
         /\ \A i, j \in 0 .. Used - 1 : heap[i] = heap[j] => i = j
<1>1. heapCnt \in Nat /\ Used \in Nat /\ heapSize \in Nat /\ at \in Nat
  BY DEF HeapInv, HeapTypeOK, Used
<1>2. DOMAIN heap = 0 .. heapSize - 1
  BY DEF HeapInv, HeapTypeOK
<1>3. /\ Used <= heapSize /\ (loop # "idle" => at < Used \/ Used = 0)
      /\ \A i \in 0 .. Used - 1 : heap[i] \in Tags
      /\ \A i, j \in 0 .. Used - 1 : heap[i] = heap[j] => i = j
  BY DEF HeapInv, HeapRule, EntriesValid
<1> QED BY <1>1, <1>2, <1>3, HeapTagsAssumption

(* The heap is empty at the beginning.                                     *)
LEMMA InvInit == HeapInit => HeapInv
BY DEF HeapInit, HeapInv, HeapTypeOK, HeapRule, EntriesValid, Used

(* A tag is written behind the entries.                                    *)
LEMMA InvAdd ==
  ASSUME HeapInv, NEW t \in Tags, HeapAdd(t)
  PROVE  HeapInv'
<1>1. /\ loop = "idle" /\ Used = heapCnt /\ heapCnt \in Nat /\ heapSize \in Nat
      /\ heapCnt <= heapSize /\ t \in Tags /\ t \notin Contents(heapCnt)
  BY Entries DEF HeapAdd, Used
<1>2. NewSize \in Nat /\ heapCnt < NewSize /\ heapSize <= NewSize
  BY <1>1, HeapSizeIncrAssumption DEF NewSize, MustGrow
<1>3. /\ loop' = "up" /\ at' = heapCnt /\ heapCnt' = heapCnt /\ heapSize' = NewSize
      /\ result' = result /\ Used' = heapCnt + 1
  BY DEF HeapAdd, Used
<1>4. heap' = [i \in 0 .. NewSize - 1 |->
                 IF i = heapCnt THEN t ELSE IF i < heapSize THEN heap[i] ELSE Uninit]
  BY DEF HeapAdd
<1>5. HeapTypeOK'
  <2>1. heap' \in [0 .. NewSize - 1 -> Tags \cup {Uninit}]
    BY <1>1, <1>4 DEF HeapInv, HeapTypeOK
  <2> QED BY <1>1, <1>2, <1>3, <2>1 DEF HeapInv, HeapTypeOK
<1>6. heap'[heapCnt] = t /\ \A i \in 0 .. heapCnt - 1 : heap'[i] = heap[i]
  BY <1>1, <1>2, <1>4
<1>7. EntriesValid'
  <2>1. \A i \in 0 .. heapCnt - 1 : heap[i] # t
    BY <1>1 DEF Contents
  <2> QED BY <1>1, <1>2, <1>3, <1>6, <2>1, Entries DEF EntriesValid
<1>8. \A i \in 1 .. heapCnt - 1 : heap'[Parent(i)] < heap'[i]
  BY <1>1, <1>6, Parents DEF HeapInv, HeapRule
<1>9. \A i \in 1 .. heapCnt : Parent(i) # heapCnt
  BY <1>1, Parents
<1> QED BY <1>1, <1>3, <1>5, <1>7, <1>8, <1>9 DEF HeapInv, HeapRule

(* Two entries are exchanged.                                              *)
LEMMA Swapped ==
  ASSUME HeapInv, NEW i \in 0 .. Used - 1, NEW j \in 0 .. Used - 1, heap' = Swap(heap, i, j),
         UNCHANGED <<heapSize, heapCnt, loop, result>>, at' \in Nat
  PROVE  /\ HeapTypeOK' /\ EntriesValid' /\ Used' = Used
         /\ heap'[i] = heap[j] /\ heap'[j] = heap[i]
         /\ \A k \in 0 .. Used - 1 : k # i /\ k # j => heap'[k] = heap[k]
         /\ Contents(Used)' = Contents(Used)
<1>1. heap' = [heap EXCEPT ![i] = heap[j], ![j] = heap[i]] /\ Used' = Used
  BY DEF Swap, Used
<1>2. i \in DOMAIN heap /\ j \in DOMAIN heap
  BY Entries
<1>3. /\ heap'[i] = heap[j] /\ heap'[j] = heap[i] /\ DOMAIN heap' = DOMAIN heap
      /\ \A k \in 0 .. Used - 1 : k # i /\ k # j => heap'[k] = heap[k]
  BY <1>1, <1>2, Entries
<1>4. HeapTypeOK'
  <2>1. heap' \in [0 .. heapSize - 1 -> Tags \cup {Uninit}]
    BY <1>1, <1>2 DEF HeapInv, HeapTypeOK
  <2> QED BY <2>1 DEF HeapInv, HeapTypeOK
<1>5. EntriesValid'
  <2>1. \A k \in 0 .. Used - 1 : heap'[k] \in Tags
    BY <1>3, Entries
  <2>2. ASSUME NEW k \in 0 .. Used - 1, NEW m \in 0 .. Used - 1, heap'[k] = heap'[m]
        PROVE  k = m
    <3>1. \A x, y \in 0 .. Used - 1 : heap[x] = heap[y] => x = y
      BY Entries
    <3>2. CASE k = i
      BY <1>3, <2>2, <3>1, <3>2
    <3>3. CASE k = j
      BY <1>3, <2>2, <3>1, <3>3
    <3>4. CASE k # i /\ k # j
      BY <1>3, <2>2, <3>1, <3>4
    <3> QED BY <3>2, <3>3, <3>4
  <2> QED BY <1>1, <2>1, <2>2, Entries DEF EntriesValid
<1>6. Contents(Used)' = Contents(Used)
  <2>1. \A k \in 0 .. Used - 1 : \E m \in 0 .. Used - 1 : heap'[k] = heap[m]
    BY <1>3
  <2>2. \A m \in 0 .. Used - 1 : \E k \in 0 .. Used - 1 : heap'[k] = heap[m]
    BY <1>3
  <2>3. Contents(Used)' = {heap'[k] : k \in 0 .. Used - 1}
    BY <1>1 DEF Contents
  <2>4. Contents(Used) = {heap[k] : k \in 0 .. Used - 1}
    BY DEF Contents
  <2>5. \A x \in Contents(Used)' : x \in Contents(Used)
    BY <2>1, <2>3, <2>4
  <2>6. \A x \in Contents(Used) : x \in Contents(Used)'
    BY <2>2, <2>3, <2>4
  <2> QED BY <2>5, <2>6
<1> QED BY <1>1, <1>3, <1>4, <1>5, <1>6

(* The new entry is exchanged with a larger parent.                        *)
LEMMA InvUp ==
  ASSUME HeapInv, BubbleUp
  PROVE  HeapInv'
<1> DEFINE p == Parent(at)
<1>1. /\ loop = "up" /\ at > 0 /\ at \in Nat /\ at < Used /\ Used \in Nat /\ p \in Nat /\ p < at
      /\ heap[at] < heap[p] /\ heap' = Swap(heap, at, p) /\ at' = p
      /\ UNCHANGED <<heapSize, heapCnt, loop, result>>
  BY Entries, Parents DEF BubbleUp, AboveIsLarger, Used, HeapInv, HeapTypeOK
<1>2. /\ HeapTypeOK' /\ EntriesValid' /\ Used' = Used /\ heap'[at] = heap[p] /\ heap'[p] = heap[at]
      /\ \A k \in 0 .. Used - 1 : k # at /\ k # p => heap'[k] = heap[k]
  BY <1>1, Swapped
<1>3. \A i \in 0 .. Used - 1 : heap[i] \in Nat
  BY Entries
<1>4. ASSUME NEW i \in 1 .. Used - 1
      PROVE  /\ Parent(i) \in 0 .. Used - 1 /\ Parent(i) < i
             /\ i # at => heap[Parent(i)] < heap[i]
             /\ Parent(i) = at => heap[p] < heap[i]
  BY <1>1, Parents DEF HeapInv, HeapRule
<1> HIDE DEF p
<1>5. ASSUME NEW i \in 1 .. Used - 1, i # p PROVE heap'[Parent(i)] < heap'[i]
  <2>1. CASE i = at
    BY <1>1, <1>2, <2>1 DEF p
  <2>2. CASE i # at /\ Parent(i) = at
    BY <1>2, <1>4, <1>5, <2>2
  <2>3. CASE i # at /\ Parent(i) = p
    BY <1>1, <1>2, <1>3, <1>4, <1>5, <2>3
  <2>4. CASE i # at /\ Parent(i) # at /\ Parent(i) # p
    BY <1>2, <1>4, <1>5, <2>4
  <2> QED BY <2>1, <2>2, <2>3, <2>4
<1>6. ASSUME NEW i \in 1 .. Used - 1, Parent(i) = p, p > 0 PROVE heap'[Parent(p)] < heap'[i]
  <2>1. p \in 1 .. Used - 1 /\ p # at /\ i # p
    BY <1>1, <1>4, <1>6
  <2>2. /\ Parent(p) \in 0 .. Used - 1 /\ Parent(p) < p /\ heap[Parent(p)] < heap[p]
        /\ heap'[Parent(p)] = heap[Parent(p)]
    BY <1>1, <1>2, <1>4, <2>1
  <2>3. CASE i = at
    BY <1>2, <2>2, <2>3
  <2>4. CASE i # at
    <3>1. heap[p] < heap[i] /\ heap'[i] = heap[i]
      BY <1>2, <1>4, <1>6, <2>1, <2>4
    <3> QED BY <1>3, <2>1, <2>2, <3>1
  <2> QED BY <2>3, <2>4
<1> QED BY <1>1, <1>2, <1>5, <1>6 DEF HeapInv, HeapRule

(* The place is found: the entry is not smaller than its parent.           *)
LEMMA InvUpEnds ==
  ASSUME HeapInv, BubbleUpEnds
  PROVE  HeapInv' /\ Contents(Used)' = Contents(Used)
<1>1. /\ loop = "up" /\ ~AboveIsLarger /\ at \in Nat /\ at < Used /\ Used \in Nat
      /\ Used = heapCnt + 1 /\ Used' = Used /\ loop' = "idle" /\ heapCnt' = heapCnt + 1
      /\ heapCnt \in Nat /\ UNCHANGED <<heap, heapSize, at, result>>
  BY Entries DEF BubbleUpEnds, Used
<1>2. at > 0 => heap[Parent(at)] < heap[at]
  <2> SUFFICES ASSUME at > 0 PROVE heap[Parent(at)] < heap[at]
    OBVIOUS
  <2>1. Parent(at) \in 0 .. Used - 1 /\ Parent(at) # at /\ at \in 0 .. Used - 1
    BY <1>1, Parents
  <2>2. heap[Parent(at)] # heap[at] /\ heap[Parent(at)] \in Nat /\ heap[at] \in Nat
    BY <2>1, Entries
  <2> QED BY <1>1, <2>2 DEF AboveIsLarger
<1>3. \A i \in 1 .. Used - 1 : heap[Parent(i)] < heap[i]
  BY <1>1, <1>2 DEF HeapInv, HeapRule
<1>4. HeapTypeOK' /\ EntriesValid'
  BY <1>1 DEF HeapInv, HeapTypeOK, HeapRule, EntriesValid
<1>5. Contents(Used)' = Contents(Used)
  BY <1>1 DEF Contents
<1> QED BY <1>1, <1>3, <1>4, <1>5 DEF HeapInv, HeapRule

(* The last entry takes the place of the root.                             *)
LEMMA InvRemove ==
  ASSUME HeapInv, HeapRemove
  PROVE  HeapInv'
<1>1. CASE heapCnt > 0
  <2>1. /\ loop = "idle" /\ Used = heapCnt /\ heapCnt \in Nat /\ heapCnt <= heapSize
        /\ heapSize \in Nat /\ heap[heapCnt - 1] \in Tags /\ heap[0] \in Tags
    BY <1>1, Entries DEF HeapRemove, Used
  <2>2. /\ result' = heap[0] /\ heapCnt' = heapCnt - 1 /\ loop' = "down" /\ at' = 0
        /\ heap' = [heap EXCEPT ![0] = heap[heapCnt - 1]] /\ heapSize' = heapSize
        /\ Used' = heapCnt - 1
    BY <1>1 DEF HeapRemove, Root, LastEntry, Used
  <2>3. HeapTypeOK'
    <3>1. heap' \in [0 .. heapSize - 1 -> Tags \cup {Uninit}]
      BY <2>1, <2>2 DEF HeapInv, HeapTypeOK
    <3> QED BY <1>1, <2>1, <2>2, <3>1 DEF HeapInv, HeapTypeOK
  <2>4. /\ heap'[0] = heap[heapCnt - 1]
        /\ \A i \in 1 .. heapCnt - 1 : heap'[i] = heap[i]
    BY <1>1, <2>1, <2>2, Entries
  <2>5. EntriesValid'
    BY <1>1, <2>1, <2>2, <2>4, Entries DEF EntriesValid
  <2>6. \A i \in 1 .. heapCnt - 2 : Parent(i) = 0 \/ heap'[Parent(i)] < heap'[i]
    BY <2>1, <2>4, Parents DEF HeapInv, HeapRule
  <2> QED BY <1>1, <2>1, <2>2, <2>3, <2>5, <2>6 DEF HeapInv, HeapRule
<1>2. CASE ~(heapCnt > 0)
  <2>1. UNCHANGED <<heap, heapSize, heapCnt, loop, at>> /\ result' = EmptyHeap
    BY <1>2 DEF HeapRemove
  <2> QED BY <2>1 DEF HeapInv, HeapTypeOK, HeapRule, EntriesValid, Used
<1> QED BY <1>1, <1>2

(* A child of the place, and no larger than the other.                     *)
LEMMA ChildBelow ==
  ASSUME HeapInv, loop = "down", 2 * at + 1 < heapCnt
  PROVE  /\ SmallerChild \in 1 .. Used - 1 /\ Parent(SmallerChild) = at /\ at < SmallerChild
         /\ \A i \in 1 .. Used - 1 : Parent(i) = at /\ i # SmallerChild =>
              heap[SmallerChild] < heap[i]
<1>1. /\ at \in Nat /\ heapCnt \in Nat /\ Used = heapCnt
      /\ \A i \in 0 .. Used - 1 : heap[i] \in Nat
      /\ \A i, j \in 0 .. Used - 1 : heap[i] = heap[j] => i = j
  BY Entries DEF Used
<1>2. SmallerChild \in {2 * at + 1, 2 * at + 2} /\ SmallerChild < heapCnt
  BY <1>1 DEF SmallerChild
<1>3. ASSUME NEW i \in 1 .. Used - 1, Parent(i) = at, i # SmallerChild
      PROVE  heap[SmallerChild] < heap[i]
  <2>1. i \in {2 * at + 1, 2 * at + 2}
    BY <1>1, <1>3, Parents
  <2>2. heap[SmallerChild] <= heap[i] /\ heap[SmallerChild] # heap[i]
    BY <1>1, <1>2, <1>3, <2>1 DEF SmallerChild
  <2> QED BY <1>1, <1>2, <1>3, <2>2
<1>4. Parent(SmallerChild) = at
  BY <1>1, <1>2, Parents
<1> QED BY <1>1, <1>2, <1>3, <1>4

(* The entry is exchanged with its smaller child.                          *)
LEMMA InvDown ==
  ASSUME HeapInv, BubbleDown
  PROVE  HeapInv'
<1> DEFINE c == SmallerChild
<1>1. /\ loop = "down" /\ 2 * at + 1 < heapCnt /\ at \in Nat /\ Used \in Nat /\ Used = heapCnt
      /\ heap[c] < heap[at] /\ heap' = Swap(heap, at, c) /\ at' = c
      /\ UNCHANGED <<heapSize, heapCnt, loop, result>>
  BY Entries DEF BubbleDown, BelowIsSmaller, Used
<1>2. /\ c \in 1 .. Used - 1 /\ Parent(c) = at /\ at < c
      /\ \A i \in 1 .. Used - 1 : Parent(i) = at /\ i # c => heap[c] < heap[i]
  BY <1>1, ChildBelow
<1> HIDE DEF c
<1>3. /\ HeapTypeOK' /\ EntriesValid' /\ Used' = Used /\ heap'[at] = heap[c] /\ heap'[c] = heap[at]
      /\ \A k \in 0 .. Used - 1 : k # at /\ k # c => heap'[k] = heap[k]
  BY <1>1, <1>2, Swapped
<1>4. ASSUME NEW i \in 1 .. Used - 1
      PROVE  /\ Parent(i) \in 0 .. Used - 1 /\ Parent(i) < i
             /\ Parent(i) # at => heap[Parent(i)] < heap[i]
             /\ Parent(i) = at /\ at > 0 => heap[Parent(at)] < heap[i]
  BY <1>1, Parents DEF HeapInv, HeapRule
<1>5. ASSUME NEW i \in 1 .. Used - 1, Parent(i) # c PROVE heap'[Parent(i)] < heap'[i]
  <2>1. CASE i = c
    BY <1>1, <1>2, <1>3, <2>1
  <2>2. CASE i # c /\ Parent(i) = at
    BY <1>2, <1>3, <1>4, <2>2
  <2>3. CASE i # c /\ Parent(i) # at /\ i = at
    <3>1. heap[Parent(at)] < heap[c] /\ heap'[Parent(at)] = heap[Parent(at)]
      BY <1>2, <1>3, <1>4, <1>5, <2>3
    <3> QED BY <1>3, <2>3, <3>1
  <2>4. CASE i # c /\ Parent(i) # at /\ i # at
    BY <1>3, <1>4, <1>5, <2>4
  <2> QED BY <2>1, <2>2, <2>3, <2>4
<1>6. ASSUME NEW i \in 1 .. Used - 1, Parent(i) = c PROVE heap'[Parent(c)] < heap'[i]
  BY <1>2, <1>3, <1>4, <1>6
<1> QED BY <1>1, <1>2, <1>3, <1>5, <1>6 DEF HeapInv, HeapRule

(* The place is found: no child is smaller.                                *)
LEMMA InvDownEnds ==
  ASSUME HeapInv, BubbleDownEnds
  PROVE  HeapInv' /\ Contents(Used)' = Contents(Used)
<1>1. /\ loop = "down" /\ ~BelowIsSmaller /\ loop' = "idle" /\ Used = heapCnt /\ Used' = Used
      /\ at \in Nat /\ heapCnt \in Nat /\ UNCHANGED <<heap, heapSize, heapCnt, at, result>>
      /\ \A i \in 0 .. Used - 1 : heap[i] \in Nat
      /\ \A i, j \in 0 .. Used - 1 : heap[i] = heap[j] => i = j
  BY Entries DEF BubbleDownEnds, Used
<1>2. ASSUME NEW i \in 1 .. Used - 1 PROVE heap[Parent(i)] < heap[i]
  <2>1. CASE Parent(i) = at
    <3>1. 2 * at + 1 < heapCnt
      BY <1>1, <2>1, Parents
    <3>2. /\ SmallerChild \in 1 .. Used - 1 /\ at < SmallerChild
          /\ i # SmallerChild => heap[SmallerChild] < heap[i]
      BY <1>1, <2>1, <3>1, ChildBelow
    <3>3. heap[at] < heap[SmallerChild]
      BY <1>1, <3>1, <3>2 DEF BelowIsSmaller
    <3>4. heap[SmallerChild] \in Nat /\ heap[i] \in Nat /\ heap[at] \in Nat
      BY <1>1, <3>2
    <3> QED BY <2>1, <3>2, <3>3, <3>4
  <2>2. CASE Parent(i) # at
    BY <1>1, <2>2 DEF HeapInv, HeapRule
  <2> QED BY <2>1, <2>2
<1>3. HeapTypeOK' /\ EntriesValid'
  BY <1>1 DEF HeapInv, HeapTypeOK, HeapRule, EntriesValid
<1>4. Contents(Used)' = Contents(Used)
  BY <1>1 DEF Contents
<1> QED BY <1>1, <1>2, <1>3, <1>4 DEF HeapInv, HeapRule

(* Every step keeps the invariant.                                         *)
LEMMA InvStep == HeapInv /\ [HeapNext]_heapVars => HeapInv'
<1> SUFFICES ASSUME HeapInv, [HeapNext]_heapVars PROVE HeapInv'
  OBVIOUS
<1>1. CASE UNCHANGED heapVars
  BY <1>1 DEF heapVars, HeapInv, HeapTypeOK, HeapRule, EntriesValid, Used
<1> QED BY <1>1, InvAdd, InvUp, InvUpEnds, InvRemove, InvDown, InvDownEnds DEF HeapNext

(* The invariant: types and the heap rule.                                 *)
THEOREM HeapInvariant == HeapSpec => []HeapInv
<1> QED BY InvInit, InvStep, PTL DEF HeapSpec

(* The array is as long as it says, and what is removed was added.         *)
THEOREM HeapTyped == HeapSpec => []HeapTypeOK
<1>1. HeapInv => HeapTypeOK
  BY DEF HeapInv
<1> QED BY <1>1, HeapInvariant, PTL

(* The rule of the comment in Heap.cc, across reallocations of the array.  *)
THEOREM HeapRuleKept == HeapSpec => []HeapRule
<1>1. HeapInv => HeapRule
  BY DEF HeapInv
<1> QED BY <1>1, HeapInvariant, PTL
-----------------------------------------------------------------------------
(* Between the operations the root is the least entry.                     *)
LEMMA RootIsLeast ==
  ASSUME HeapInv, loop = "idle", NEW i \in 0 .. Used - 1
  PROVE  heap[0] <= heap[i]
<1> DEFINE Smaller == {j \in 0 .. Used - 1 : heap[j] < heap[0]}
<1>1. /\ Used \in Nat /\ \A j \in 0 .. Used - 1 : heap[j] \in Nat
      /\ \A j \in 1 .. Used - 1 : heap[Parent(j)] < heap[j]
  BY Entries DEF HeapInv, HeapRule
<1>2. Smaller = {}
  <2> SUFFICES ASSUME Smaller # {} PROVE FALSE
    OBVIOUS
  <2>1. PICK j \in Smaller : \A k \in Smaller : j <= k
    <3>1. Smaller \subseteq Nat
      BY <1>1
    <3> HIDE DEF Smaller
    <3> QED BY <3>1, LeastNumber
  <2>2. j \in 1 .. Used - 1 /\ heap[j] < heap[0]
    BY <1>1
  <2>3. Parent(j) \in 0 .. Used - 1 /\ Parent(j) < j
    <3>1. j \in Nat \ {0}
      BY <1>1, <2>2
    <3>2. Parent(j) \in Nat /\ Parent(j) < j
      BY <3>1, Parents
    <3> QED BY <1>1, <2>2, <3>2
  <2>4. heap[Parent(j)] < heap[0]
    BY <1>1, <2>2, <2>3
  <2>5. Parent(j) \in Smaller
    BY <2>3, <2>4
  <2> QED BY <2>1, <2>2, <2>3, <2>5
<1> QED BY <1>1, <1>2

(* An added tag is one more in the set.                                    *)
LEMMA AddsTag ==
  ASSUME HeapInv, NEW t \in Tags, HeapAdd(t)
  PROVE  Abstract!Add(t)
<1>1. /\ loop = "idle" /\ Used = heapCnt /\ heapCnt \in Nat /\ heapSize \in Nat
      /\ heapCnt <= heapSize /\ t \notin Contents(heapCnt)
  BY Entries DEF HeapAdd, Used
<1>2. NewSize \in Nat /\ heapCnt < NewSize
  BY <1>1, HeapSizeIncrAssumption DEF NewSize, MustGrow
<1>3. Used' = heapCnt + 1 /\ result' = result
  BY DEF HeapAdd, Used
<1>4. heap'[heapCnt] = t /\ \A i \in 0 .. heapCnt - 1 : heap'[i] = heap[i]
  BY <1>1, <1>2 DEF HeapAdd
<1>5. Contents(Used)' = Contents(Used) \cup {t}
  BY <1>1, <1>3, <1>4 DEF Contents
<1> QED BY <1>1, <1>3, <1>5 DEF Abstract!Add

(* What is removed is the least tag, or -1 if there is none.               *)
LEMMA RemovesLeast ==
  ASSUME HeapInv, HeapRemove
  PROVE  Abstract!Remove
<1>1. loop = "idle" /\ Used = heapCnt /\ heapCnt \in Nat
  BY Entries DEF HeapRemove, Used
<1>2. CASE heapCnt > 0
  <2>1. /\ result' = heap[0] /\ Used' = heapCnt - 1
        /\ heap' = [heap EXCEPT ![0] = heap[heapCnt - 1]]
    BY <1>2 DEF HeapRemove, Root, LastEntry, Used
  <2>2. /\ heap'[0] = heap[heapCnt - 1]
        /\ \A i \in 1 .. heapCnt - 1 : heap'[i] = heap[i]
    BY <1>1, <1>2, <2>1, Entries
  <2>3. \A i, j \in 0 .. heapCnt - 1 : heap[i] = heap[j] => i = j
    BY <1>1, Entries
  <2>4. Contents(Used)' = Contents(Used) \ {heap[0]}
    <3>1. \A x \in Contents(Used)' : x \in Contents(Used) /\ x # heap[0]
      BY <1>1, <1>2, <2>1, <2>2, <2>3 DEF Contents
    <3>2. \A x \in Contents(Used) : x # heap[0] => x \in Contents(Used)'
      <4> SUFFICES ASSUME NEW i \in 0 .. heapCnt - 1, heap[i] # heap[0]
                   PROVE  \E j \in 0 .. heapCnt - 2 : heap'[j] = heap[i]
        BY <1>1, <2>1 DEF Contents
      <4>1. CASE i = heapCnt - 1
        BY <1>1, <1>2, <2>2, <4>1
      <4>2. CASE i # heapCnt - 1
        BY <1>1, <1>2, <2>2, <4>2
      <4> QED BY <4>1, <4>2
    <3> QED BY <3>1, <3>2
  <2>5. heap[0] \in Contents(Used) /\ \A x \in Contents(Used) : heap[0] <= x
    BY <1>1, <1>2, RootIsLeast DEF Contents
  <2> QED BY <2>1, <2>4, <2>5 DEF Abstract!Remove, Abstract!IsLeast
<1>3. CASE ~(heapCnt > 0)
  <2>1. UNCHANGED <<heap, heapCnt, loop>> /\ result' = EmptyHeap
    BY <1>3 DEF HeapRemove
  <2>2. Contents(Used) = {} /\ Contents(Used)' = Contents(Used)
    BY <1>1, <1>3, <2>1 DEF Contents, Used
  <2> QED BY <2>1, <2>2 DEF Abstract!Remove, Abstract!EmptyHeap, EmptyHeap
<1> QED BY <1>2, <1>3

(* The array implements the set: additions and removals are those of the   *)
(* set, and the loops that follow them leave it as it is (Heap.cc,         *)
(* GetRecycledNodeTag).                                                    *)
THEOREM HeapImplementsSet == HeapSpec => IsTagHeap
<1>1. HeapInit => Abstract!Init
  BY DEF HeapInit, Abstract!Init, Contents, Used, EmptyHeap, Abstract!EmptyHeap
<1>2. HeapInv /\ [HeapNext]_heapVars => [Abstract!Next]_<<Contents(Used), result>>
  <2> SUFFICES ASSUME HeapInv, [HeapNext]_heapVars
               PROVE  Abstract!Next \/ UNCHANGED <<Contents(Used), result>>
    OBVIOUS
  <2>1. CASE UNCHANGED heapVars
    BY <2>1 DEF heapVars, Contents, Used
  <2>2. ASSUME NEW t \in Tags, HeapAdd(t) PROVE Abstract!Next
    BY <2>2, AddsTag DEF Abstract!Next
  <2>3. CASE HeapRemove
    BY <2>3, RemovesLeast DEF Abstract!Next
  <2>4. CASE BubbleUp
    <3>1. /\ at \in 0 .. Used - 1 /\ Parent(at) \in 0 .. Used - 1
          /\ heap' = Swap(heap, at, Parent(at)) /\ at' \in Nat
          /\ UNCHANGED <<heapSize, heapCnt, loop, result>>
      BY <2>4, Entries, Parents DEF BubbleUp, AboveIsLarger, Used
    <3> QED BY <3>1, Swapped
  <2>5. CASE BubbleDown
    <3>1. /\ SmallerChild \in 0 .. Used - 1 /\ at \in 0 .. Used - 1
          /\ heap' = Swap(heap, at, SmallerChild) /\ at' \in Nat
          /\ UNCHANGED <<heapSize, heapCnt, loop, result>>
      BY <2>5, Entries, ChildBelow DEF BubbleDown, BelowIsSmaller, Used
    <3> QED BY <3>1, Swapped
  <2>6. CASE BubbleUpEnds
    BY <2>6, InvUpEnds DEF BubbleUpEnds
  <2>7. CASE BubbleDownEnds
    BY <2>7, InvDownEnds DEF BubbleDownEnds
  <2> QED BY <2>1, <2>2, <2>3, <2>4, <2>5, <2>6, <2>7 DEF HeapNext
<1> QED BY <1>1, <1>2, HeapInvariant, PTL DEF HeapSpec, IsTagHeap, Abstract!Spec
=============================================================================
