------------------------------ MODULE Migration ------------------------------
(***************************************************************************)
(* Moving nodes between domains at the end of a timestep: Migrate.cc and   *)
(* the exchange of tag maps of RemapInitialTags.cc.                        *)
(*                                                                         *)
(* Node is the set of physical nodes of the dislocation network and Link   *)
(* the segments between them.  A domain knows a node by a tag <<domain,    *)
(* index>>; arms[n][m] is the tag that n's arm towards m holds.  Messages  *)
(* of one kind between two domains arrive in order (MPI), those of         *)
(* different senders in any order, and the lengths of the migration        *)
(* buffers are received from MPI_ANY_SOURCE.                               *)
(*                                                                         *)
(* Schedules says where the nodes are: s[1] initially, s[r + 1] when the   *)
(* r-th migration begins.  Connected nodes are always in one domain or in  *)
(* neighbouring ones (a segment is shorter than a cell, and remoteDomains  *)
(* holds the owners of all adjacent cells).                                *)
(*                                                                         *)
(* Mutants (see the README): ReduceOfNeighbours, IndexAtEnd, KeysNotFreed, *)
(* SourceInOrder, OldTagOfSlot, MapsToMigrationPartners, Chase.            *)
(***************************************************************************)
EXTENDS Integers, Sequences, FiniteSets

CONSTANTS Domain, Node, Link,
          Adjacent,     \* pairs of domains in each other's remoteDomains
          Schedules,
          Eager         \* domains whose messages MPI buffers; the sends of
                        \* the others complete only when they are received

ASSUME NodeAssumption == IsFiniteSet(Node) /\ IsFiniteSet(Domain)
ASSUME EagerAssumption == Eager \subseteq Domain
ASSUME LinkAssumption ==
  Link \subseteq {e \in SUBSET Node : Cardinality(e) = 2}
ASSUME AdjacentAssumption ==
  /\ Adjacent \subseteq Domain \X Domain
  /\ \A p \in Adjacent : p[1] # p[2] /\ <<p[2], p[1]>> \in Adjacent
ASSUME SchedulesAssumption ==
  \A s \in Schedules :
    /\ s \in Seq([Node -> Domain]) /\ s # <<>>
    /\ \A r \in DOMAIN s : \A m, n \in Node : {m, n} \in Link =>
         s[r][m] = s[r][n] \/ <<s[r][m], s[r][n]>> \in Adjacent

Nbrs(n)          == {m \in Node : {m, n} \in Link /\ m # n}
RemoteDomains(d) == {e \in Domain : <<d, e>> \in Adjacent}

VARIABLES
  schedule,   \* where the nodes are at each migration
  nodeKeys,   \* nodeKeys[d]: local indices in use -> nodes
  arms,       \* arms[n][m]: tag of the arm of n towards m
  round,      \* migrations each domain has begun
  pc,
  commLists,  \* commLists[d][r]: domains d sends nodes to (migCommList)
  sendBuf,    \* the packed buffers not yet sent, per destination
  lengths, nodeBufs, maps,   \* messages under way, per <<from, to>>
  recvLen,    \* lengths received, with their sources, in slot order
  recvBuf,    \* the buffers received, per slot
  tagMap,     \* home->tagMap: <<old, new>> pairs
  mapsFrom    \* neighbours whose tag map has arrived

keyVars == <<nodeKeys, arms>>
msgVars == <<lengths, nodeBufs, maps>>
recvVars == <<recvLen, recvBuf>>
mapVars == <<tagMap, mapsFrom>>
vars == <<schedule, keyVars, round, pc, commLists, sendBuf, msgVars, recvVars,
          mapVars>>

Native(d) == {nodeKeys[d][i] : i \in DOMAIN nodeKeys[d]}
IndexOf(d, n) == CHOOSE i \in DOMAIN nodeKeys[d] : nodeKeys[d][i] = n

(* FindCoordDomain at the migration d is in, and the indices of the nodes  *)
(* that d sends to e.                                                      *)
DestOf(d, n) == schedule[round[d] + 1][n]
Migrators(d, e) ==
  {i \in DOMAIN nodeKeys[d] : DestOf(d, nodeKeys[d][i]) = e}

(* The numbers of a finite set in ascending order, and a function with one *)
(* more entry.                                                             *)
Ascending(S) == CHOOSE q \in [1 .. Cardinality(S) -> S] :
                  \A j, k \in DOMAIN q : j < k => q[j] < q[k]
Put(f, x, y) == [z \in DOMAIN f \cup {x} |-> IF z = x THEN y ELSE f[z]]

(* GetFreeNodeTag: the lowest index not in use (NodePool, TagAccounting). *)
IndexAtEnd(used) == CHOOSE i \in 0 .. 2 * Cardinality(Node) :
                      \A j \in used : i > j
FreeIndex(used) == CHOOSE i \in 0 .. Cardinality(used) :
                     i \notin used /\ \A j \in 0 .. i - 1 : j \in used

(* The global result of MPI_Allreduce for domain d: who sends to it. *)
SendersTo(d) == {e \in Domain : /\ Len(commLists[e]) >= round[d]
                                /\ d \in commLists[e][round[d]]}
NumRecvBufs(d) == Cardinality(SendersTo(d))

(* FIFO channels, one per kind of message and pair of domains. *)
Pair == Domain \X Domain
Send(chan, d, msgs) ==  \* msgs: what d sends to each destination
  [p \in Pair |-> IF p[1] = d /\ p[2] \in DOMAIN msgs
                  THEN Append(chan[p], msgs[p[2]]) ELSE chan[p]]
Receive(chan, e, d) == [chan EXCEPT ![<<e, d>>] = Tail(@)]
Arrived(chan, e, d) == chan[<<e, d>>] # <<>>
First(chan, e, d)   == Head(chan[<<e, d>>])
(* MPI_Waitall on the sends of d. *)
SendsComplete(chan, d) ==
  d \notin Eager => \A e \in Domain : chan[<<d, e>>] = <<>>
-----------------------------------------------------------------------------
(* The initial indices number the nodes of each domain from zero. *)
InitialKeys(place) ==
  {k \in [Domain -> UNION {[0 .. c - 1 -> Node] : c \in 0 .. Cardinality(Node)}] :
     \A d \in Domain :
       LET own == {n \in Node : place[n] = d} IN
         /\ DOMAIN k[d] = 0 .. Cardinality(own) - 1
         /\ {k[d][i] : i \in DOMAIN k[d]} = own}

Init ==
  /\ schedule \in Schedules
  /\ nodeKeys = CHOOSE k \in InitialKeys(schedule[1]) : TRUE
  /\ arms = [n \in Node |-> [m \in Nbrs(n) |->
               LET d == schedule[1][m] IN <<d, IndexOf(d, m)>>]]
  /\ round = [d \in Domain |-> 0] /\ pc = [d \in Domain |-> "step"]
  /\ commLists = [d \in Domain |-> <<>>]
  /\ lengths = [p \in Pair |-> <<>>] /\ nodeBufs = [p \in Pair |-> <<>>]
  /\ maps = [p \in Pair |-> <<>>]
  /\ sendBuf = [d \in Domain |-> <<>>]
  /\ recvLen = [d \in Domain |-> <<>>] /\ recvBuf = [d \in Domain |-> <<>>]
  /\ tagMap = [d \in Domain |-> {}] /\ mapsFrom = [d \in Domain |-> {}]

(* BuildMigLists, and the domain's contribution to the MPI_Allreduce.      *)
BuildMigLists(d) ==
  /\ pc[d] = "step" /\ round[d] + 1 < Len(schedule)
  /\ round' = [round EXCEPT ![d] = @ + 1]
  /\ commLists' = [commLists EXCEPT ![d] = Append(@,
       {schedule[round[d] + 2][n] : n \in Native(d)} \ {d})]
  /\ pc' = [pc EXCEPT ![d] = "reduce"]
  /\ UNCHANGED <<schedule, keyVars, sendBuf, msgVars, recvVars, mapVars>>

(* The reduction completes when every domain has contributed to it.        *)
ReduceOfNeighbours(d) ==
  \A e \in RemoteDomains(d) : Len(commLists[e]) >= round[d]
ReduceDone(d) == \A e \in Domain : Len(commLists[e]) >= round[d]

(* PackMigrators for every destination, in the order of the indices,       *)
(* freeing what is packed; the lengths are sent and their receives posted. *)
KeysNotFreed(d) == nodeKeys[d]
KeysKept(d) == [i \in Migrators(d, d) |-> nodeKeys[d][i]]
Packed(d, e) ==
  LET index == Ascending(Migrators(d, e)) IN
  [k \in DOMAIN index |-> [node |-> nodeKeys[d][index[k]], old |-> <<d, index[k]>>]]

PackMigrators(d) ==
  LET bufs == [e \in commLists[d][round[d]] |->
                 [nodes |-> Packed(d, e), round |-> round[d]]]
  IN
  /\ pc[d] = "reduce" /\ ReduceDone(d)
  /\ sendBuf' = [sendBuf EXCEPT ![d] = bufs]
  /\ lengths' = Send(lengths, d, [e \in DOMAIN bufs |->
       [len |-> Len(bufs[e].nodes), round |-> round[d]]])
  /\ nodeKeys' = [nodeKeys EXCEPT ![d] = KeysKept(d)]
  /\ pc' = [pc EXCEPT ![d] = "lengths"]
  /\ UNCHANGED <<schedule, arms, round, commLists, nodeBufs, maps, recvVars,
                 mapVars>>

(* A length arrives, from any source, in the next slot.                    *)
RecvLength(d, e) ==
  /\ pc[d] = "lengths" /\ Len(recvLen[d]) < NumRecvBufs(d)
  /\ Arrived(lengths, e, d)
  /\ recvLen' = [recvLen EXCEPT ![d] = Append(@,
       [from |-> e, msg |-> First(lengths, e, d)])]
  /\ lengths' = Receive(lengths, e, d)
  /\ UNCHANGED <<schedule, keyVars, round, pc, commLists, sendBuf, nodeBufs,
                 maps, recvBuf, mapVars>>

(* All lengths are in: post a receive of that size from each slot's source *)
(* and send the buffers.                                                   *)
SendMigrators(d) ==
  /\ pc[d] = "lengths" /\ Len(recvLen[d]) = NumRecvBufs(d)
  /\ SendsComplete(lengths, d)
  /\ nodeBufs' = Send(nodeBufs, d, sendBuf[d])
  /\ sendBuf' = [sendBuf EXCEPT ![d] = <<>>]
  /\ pc' = [pc EXCEPT ![d] = "nodes"]
  /\ UNCHANGED <<schedule, keyVars, round, commLists, lengths, maps, recvVars,
                 mapVars>>

SourceInOrder(d, k) == Ascending(SendersTo(d))[k]
SourceOfSlot(d, k)  == recvLen[d][k].from
RecvMigrators(d, k) ==
  /\ pc[d] = "nodes" /\ k \in DOMAIN recvLen[d] \ DOMAIN recvBuf[d]
  /\ Arrived(nodeBufs, SourceOfSlot(d, k), d)
  /\ recvBuf' = [recvBuf EXCEPT ![d] =
       Put(@, k, First(nodeBufs, SourceOfSlot(d, k), d))]
  /\ nodeBufs' = Receive(nodeBufs, SourceOfSlot(d, k), d)
  /\ UNCHANGED <<schedule, keyVars, round, pc, commLists, sendBuf, lengths,
                 maps, recvLen, mapVars>>

WaitMigrators(d) ==
  /\ pc[d] = "nodes" /\ DOMAIN recvBuf[d] = DOMAIN recvLen[d]
  /\ pc' = [pc EXCEPT ![d] = "unpack"]
  /\ UNCHANGED <<schedule, keyVars, round, commLists, sendBuf, msgVars,
                 recvVars, mapVars>>

(* One iteration of UnpackMigrators: the node gets a local tag, and the    *)
(* mapping from its old tag is recorded.  Slots are unpacked in order.     *)
OldTagOfSlot(d, k)  == <<SourceOfSlot(d, 1), recvBuf[d][k].nodes[1].old[2]>>
OldTag(d, k)        == <<SourceOfSlot(d, k), recvBuf[d][k].nodes[1].old[2]>>
UnpackMigrators(d, k) ==
  /\ pc[d] = "unpack" /\ k \in DOMAIN recvBuf[d]
  /\ recvBuf[d][k].nodes # <<>>
  /\ \A j \in 1 .. k - 1 : recvBuf[d][j].nodes = <<>>
  /\ LET i == FreeIndex(DOMAIN nodeKeys[d]) IN
       /\ nodeKeys' = [nodeKeys EXCEPT ![d] =
                         Put(@, i, recvBuf[d][k].nodes[1].node)]
       /\ tagMap' = [tagMap EXCEPT ![d] = @ \cup
                       {[old |-> OldTag(d, k), new |-> <<d, i>>]}]
  /\ recvBuf' = [recvBuf EXCEPT ![d][k].nodes = Tail(@)]
  /\ UNCHANGED <<schedule, arms, round, pc, commLists, sendBuf, msgVars,
                 recvLen, mapsFrom>>
-----------------------------------------------------------------------------
(* DistributeTagMaps: the domain's own mappings go to every neighbour ...  *)
MapsToMigrationPartners(d) == commLists[d][round[d]] \cap RemoteDomains(d)
MapDests(d) == RemoteDomains(d)

SendTagMap(d) ==
  /\ pc[d] = "unpack" /\ \A k \in DOMAIN recvBuf[d] : recvBuf[d][k].nodes = <<>>
  /\ SendsComplete(nodeBufs, d)
  /\ maps' = Send(maps, d, [e \in MapDests(d) |->
                              [pairs |-> tagMap[d], round |-> round[d]]])
  /\ recvLen' = [recvLen EXCEPT ![d] = <<>>]
  /\ recvBuf' = [recvBuf EXCEPT ![d] = <<>>]
  /\ pc' = [pc EXCEPT ![d] = "maps"]
  /\ UNCHANGED <<schedule, keyVars, round, commLists, sendBuf, lengths,
                 nodeBufs, mapVars>>

(* ... theirs are added to its map in the order they arrive ...            *)
RecvTagMap(d, e) ==
  /\ pc[d] = "maps" /\ e \in RemoteDomains(d) \ mapsFrom[d]
  /\ Arrived(maps, e, d)
  /\ tagMap' = [tagMap EXCEPT ![d] = @ \cup First(maps, e, d).pairs]
  /\ mapsFrom' = [mapsFrom EXCEPT ![d] = @ \cup {e}]
  /\ maps' = Receive(maps, e, d)
  /\ UNCHANGED <<schedule, keyVars, round, pc, commLists, sendBuf, lengths,
                 nodeBufs, recvVars>>

(* ... and RemapArmTags looks every arm of its nodes up, once.             *)
Lookup(map, tag) ==
  IF \E p \in map : p.old = tag THEN (CHOOSE p \in map : p.old = tag).new
                                ELSE tag
Chase(map, tag) == Lookup(map, Lookup(map, tag))
NewArmTag(map, tag) == Lookup(map, tag)

RemapArmTags(d) ==
  /\ pc[d] = "maps" /\ mapsFrom[d] = RemoteDomains(d)
  /\ SendsComplete(maps, d)
  /\ arms' = [n \in Node |-> [m \in DOMAIN arms[n] |->
                IF n \in Native(d) THEN NewArmTag(tagMap[d], arms[n][m])
                                   ELSE arms[n][m]]]
  /\ tagMap' = [tagMap EXCEPT ![d] = {}]
  /\ mapsFrom' = [mapsFrom EXCEPT ![d] = {}]
  /\ pc' = [pc EXCEPT ![d] = "step"]
  /\ UNCHANGED <<schedule, nodeKeys, round, commLists, sendBuf, msgVars,
                 recvVars>>
-----------------------------------------------------------------------------
DomainStep(d) ==
  \/ BuildMigLists(d) \/ PackMigrators(d)
  \/ \E e \in Domain : RecvLength(d, e)
  \/ SendMigrators(d)
  \/ \E k \in DOMAIN recvLen[d] : RecvMigrators(d, k) \/ UnpackMigrators(d, k)
  \/ WaitMigrators(d)
  \/ SendTagMap(d)
  \/ \E e \in Domain : RecvTagMap(d, e)
  \/ RemapArmTags(d)

AllMigrated == \A d \in Domain : pc[d] = "step" /\ round[d] + 1 = Len(schedule)
Finished == AllMigrated /\ UNCHANGED vars

Next == (\E d \in Domain : DomainStep(d)) \/ Finished

Spec == Init /\ [][Next]_vars

(* The domains are processes; each keeps running, and MPI delivers.        *)
FairSpec == Spec /\ \A d \in Domain : WF_vars(DomainStep(d))
-----------------------------------------------------------------------------
(* Properties. *)

Buffered(bufs) == UNION {{b.nodes[k].node : k \in DOMAIN b.nodes} : b \in bufs}
BuffersOf(d) == {sendBuf[d][e] : e \in DOMAIN sendBuf[d]}
                  \cup {recvBuf[d][k] : k \in DOMAIN recvBuf[d]}
InChannel(p) == {nodeBufs[p][k] : k \in DOMAIN nodeBufs[p]}
RoundsIn(chan, p) == {chan[p][k].round : k \in DOMAIN chan[p]}
Tag == Domain \X (0 .. Cardinality(Node) - 1)

TypeOK ==
  /\ schedule \in Schedules
  /\ \A d \in Domain : /\ DOMAIN nodeKeys[d] \subseteq 0 .. Cardinality(Node) - 1
                       /\ Native(d) \subseteq Node
                       /\ tagMap[d] \subseteq [old : Tag, new : Tag]
                       /\ mapsFrom[d] \subseteq Domain
  /\ arms \in [Node -> UNION {[S -> Tag] : S \in SUBSET Node}]
  /\ round \in [Domain -> 0 .. Len(schedule)]
  /\ pc \in [Domain -> {"step", "reduce", "lengths", "nodes", "unpack", "maps"}]

(* No node is lost or doubled on its way: it is under one tag of one       *)
(* domain, or in one buffer (packed, under way or received, not yet        *)
(* unpacked), whatever the order in which the domains run.                 *)
NodesConserved ==
  \A n \in Node :
    Cardinality({t \in Tag : t[2] \in DOMAIN nodeKeys[t[1]]
                               /\ nodeKeys[t[1]][t[2]] = n})
    + Cardinality({d \in Domain : n \in Buffered(BuffersOf(d))})
    + Cardinality({p \in Pair : n \in Buffered(InChannel(p))}) = 1

(* A domain that has remapped its arms can follow each of them to the node *)
(* it leads to, although tags freed by the packing are given again in the  *)
(* same migration, so that one tag may be old in one mapping and new in    *)
(* another.                                                                *)
ArmsResolve ==
  \A d \in Domain : pc[d] = "step" =>
    \A n \in Native(d) : \A m \in Nbrs(n) :
      LET t == arms[n][m] IN
      /\ t[2] \in DOMAIN nodeKeys[t[1]]
      /\ nodeKeys[t[1]][t[2]] = m

(* What is received from MPI_ANY_SOURCE, or over channels used again in    *)
(* every migration with the same message tags, belongs to the receiver's   *)
(* own migration: lengths, buffers and maps of two migrations never mix.   *)
NoCrossRound ==
  \A d \in Domain :
    /\ \A k \in DOMAIN recvLen[d] : recvLen[d][k].msg.round = round[d]
    /\ \A k \in DOMAIN recvBuf[d] : recvBuf[d][k].round = round[d]
    /\ \A e \in Domain :
         \A c \in {lengths, nodeBufs} : RoundsIn(c, <<e, d>>) \subseteq {round[d]}

(* A buffer fits the length that announced it: the receive was posted with *)
(* that length before the buffer was sent.                                 *)
LengthMatchesBuffer ==
  \A d \in Domain : pc[d] = "nodes" => \A k \in DOMAIN recvBuf[d] :
    Len(recvBuf[d][k].nodes) = recvLen[d][k].msg.len

(* bsearch finds at most one mapping: no tag is the old tag of two         *)
(* mappings, in the maps of all domains together.                          *)
OldTagsUnique ==
  LET all == UNION {tagMap[d] : d \in Domain} IN
  \A p, q \in all : p.old = q.old => p = q

(* Every node arrives, in the migration in which it was sent and in a      *)
(* buffer of the length announced for it.                                  *)
NodesArrive == NodesConserved /\ NoCrossRound /\ LengthMatchesBuffer

(* The maps of old tags have one answer for an arm, and it is the right    *)
(* one.                                                                    *)
TagsResolve == OldTagsUnique /\ ArmsResolve

(* Every migration ends in every domain.                                   *)
MigrationEnds == \A d \in Domain : pc[d] = "reduce" ~> pc[d] = "step"
=============================================================================
