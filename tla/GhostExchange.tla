---------------------------- MODULE GhostExchange ----------------------------
(***************************************************************************)
(* The exchange of ghost nodes at the end of a timestep: CommSendGhosts.cc *)
(* and CommSendSecondaryGhosts.cc, with the neighbourhood of domains from  *)
(* InitRemoteDomains.cc.                                                   *)
(*                                                                         *)
(* A domain knows every node, its own or a copy, by a tag <<domain,        *)
(* index>>.  Each compresses its indices, sends its nodes with the tag     *)
(* changes to the domains that need them, asks the owners of its ghosts    *)
(* for the nodes at the far end of their arms, and only then looks its     *)
(* arms up in the tag map.  Until then every arm holds a tag from before   *)
(* the compressions.  Messages of one kind between two domains are sent    *)
(* once per exchange; requests are received from MPI_ANY_SOURCE.           *)
(*                                                                         *)
(* Compression one node at a time, with the heap of free tags, is in       *)
(* NodePool; here it is one step.  A cell is native to every domain it     *)
(* intersects, so several domains can own nodes of one cell.               *)
(*                                                                         *)
(* Mutants (see the README): MovesUpToo, RequestsOfNeighbours,             *)
(* StatusOfRequests, SkipByTagOnly, NativesOnly.                           *)
(***************************************************************************)
EXTENDS Integers, Sequences, FiniteSets

CONSTANTS Domain, Cell, Node, Link,
          Near,         \* pairs of adjacent cells, periodic images folded
          NativeCells,  \* the cells each domain intersects
          Owner, CellOf,
          MaxIndex,     \* bound on the local indices before the compression
          Indices       \* the local indices nodes may have before it

ASSUME FiniteAssumption ==
  IsFiniteSet(Domain) /\ IsFiniteSet(Node) /\ MaxIndex \in Nat
ASSUME NearAssumption ==
  Near \subseteq Cell \X Cell /\ \A p \in Near : <<p[2], p[1]>> \in Near
ASSUME OwnerAssumption ==
  /\ NativeCells \in [Domain -> SUBSET Cell]
  /\ Owner \in [Node -> Domain] /\ CellOf \in [Node -> Cell]
  /\ \A n \in Node : CellOf[n] \in NativeCells[Owner[n]]
ASSUME IndicesAssumption ==
  \A i \in Indices :
    /\ i \in [Node -> 0 .. MaxIndex]
    /\ \A m, n \in Node : Owner[m] = Owner[n] /\ i[m] = i[n] => m = n
(* A segment is shorter than a cell. *)
ASSUME LinkAssumption ==
  /\ Link \subseteq {e \in SUBSET Node : Cardinality(e) = 2}
  /\ \A e \in Link : \A m, n \in e :
       CellOf[m] = CellOf[n] \/ <<CellOf[m], CellOf[n]>> \in Near

Around(c)        == {c} \cup {b \in Cell : <<b, c>> \in Near}
CellList(d)      == UNION {Around(c) : c \in NativeCells[d]}
RemoteDomains(d) == {e \in Domain \ {d} : NativeCells[e] \cap CellList(d) # {}}
ExpCells(d, e)   == {c \in NativeCells[d] : Around(c) \cap NativeCells[e] # {}}
Nbrs(n)          == {m \in Node : {m, n} \in Link /\ m # n}
Own(d)           == {n \in Node : Owner[n] = d}

VARIABLES
  pc,
  keys,        \* keys[d][t]: the node d knows under tag t, and its copy's arms
  limit,       \* limit[d][e]: newNodeKeyPtr (e = d), maxTagIndex (e remote)
  tagMap,      \* home->tagMap: <<old, new>> pairs
  ghostCount,  \* structures on the ghost queue
  ghostBuf,    \* packed ghosts, per <<from, to>>
  reqBuf,      \* reqBuf[d][e]: the tags d asks e for (reqDomList, outBuf)
  request, response,   \* messages under way, per <<from, to>>
  slots,       \* sources of the requests received (respDomList)
  inStatus,    \* sources recorded in home->inStatus
  answered     \* receive slots of responses already processed

keyVars == <<keys, limit, tagMap, ghostCount>>
reqVars == <<reqBuf, request, slots>>
respVars == <<response, inStatus, answered>>
vars == <<pc, keyVars, ghostBuf, reqVars, respVars>>

Pair == Domain \X Domain
None == [none |-> TRUE]     \* no message
Arrived(chan, e, d) == chan[<<e, d>>] # None
(* The numbers of a finite set in order, its largest, its members in some  *)
(* order, and a function extended by another.                              *)
Ascending(S)  == CHOOSE q \in [1 .. Cardinality(S) -> S] :
                   \A j, k \in DOMAIN q : j < k => q[j] < q[k]
Descending(S) == CHOOSE q \in [1 .. Cardinality(S) -> S] :
                   \A j, k \in DOMAIN q : j < k => q[j] > q[k]
SetMax(S)     == CHOOSE m \in S : \A j \in S : j <= m
Listed(S)     == CHOOSE q \in [1 .. Cardinality(S) -> S] :
                   \A j, k \in DOMAIN q : q[j] = q[k] => j = k
Extended(f, g) == [x \in DOMAIN f \cup DOMAIN g |->
                     IF x \in DOMAIN f THEN f[x] ELSE g[x]]

Goto(d, place) == pc' = [pc EXCEPT ![d] = place]

(* GetNodeFromTag: is a node known under the tag, and which.               *)
Known(known, lim, t) == t \in DOMAIN known /\ t[2] < lim[t[1]]
NewTagOf(map, t) ==
  IF \E p \in map : p.old = t THEN (CHOOSE p \in map : p.old = t).new ELSE t
KnownAfter(known, lim, map, t) ==
  Known(known, lim, t) \/ Known(known, lim, NewTagOf(map, t))
-----------------------------------------------------------------------------
(* Ghosts of the last step have been recycled, native nodes sorted into    *)
(* their cells; unused indices below newNodeKeyPtr are on the heap.        *)
TagsFrom(index, S) == [n \in S |-> <<Owner[n], index[n]>>]
InitialKeys(index, d) ==
  [t \in {<<d, index[n]>> : n \in Own(d)} |->
     LET n == CHOOSE m \in Own(d) : index[m] = t[2] IN
     [node |-> n, arms |-> TagsFrom(index, Nbrs(n)), kind |-> "native"]]

Init ==
  /\ \E index \in Indices : keys = [d \in Domain |-> InitialKeys(index, d)]
  /\ limit = [d \in Domain |-> [e \in Domain |-> IF d = e THEN MaxIndex + 1 ELSE 0]]
  /\ pc = [d \in Domain |-> "sorted"]
  /\ tagMap = [d \in Domain |-> {}] /\ ghostCount = [d \in Domain |-> 0]
  /\ ghostBuf = [p \in Pair |-> None]
  /\ reqBuf = [d \in Domain |-> <<>>] /\ slots = [d \in Domain |-> <<>>]
  /\ request = [p \in Pair |-> None] /\ response = [p \in Pair |-> None]
  /\ inStatus = [d \in Domain |-> <<>>] /\ answered = [d \in Domain |-> {}]

(* CompressNodeKeyArray: the highest indices go, one by one, to the lowest *)
(* free ones below them.                                                   *)
MovesUpToo(used, free) == DOMAIN used \cap DOMAIN free
MoveCount(used, free) ==
  {k \in DOMAIN used \cap DOMAIN free : free[k] < used[k]}
Moves(d, index, top) ==
  LET used == Descending(index)
      free == Ascending((0 .. top - 1) \ index)
  IN {[old |-> <<d, used[k]>>, new |-> <<d, free[k]>>] : k \in MoveCount(used, free)}
Retagged(d) == Moves(d, {t[2] : t \in DOMAIN keys[d]}, limit[d][d])
Compressed(d) ==
  LET map == Retagged(d) IN
  [t \in {NewTagOf(map, o) : o \in DOMAIN keys[d]} |->
     keys[d][CHOOSE o \in DOMAIN keys[d] : NewTagOf(map, o) = t]]

(* CommPackGhosts: the native nodes of the exported cells, each with its   *)
(* old index if it was retagged, and the extent of the index range.        *)
PackedLimit(d)  == limit[d][d] - Cardinality(Retagged(d))
PackedGhosts(d, e, map, own) ==
  LET exported == {t \in DOMAIN own : CellOf[own[t].node] \in ExpCells(d, e)} IN
  [limit |-> PackedLimit(d),
   cells |-> ExpCells(d, e),
   nodes |-> [t \in exported |-> own[t]],
   maps  |-> {p \in map : p.new \in exported}]

PackGhosts(d) ==
  /\ pc[d] = "sorted"
  /\ LET map == Retagged(d)
         own == Compressed(d)
     IN
     /\ keys' = [keys EXCEPT ![d] = own]
     /\ tagMap' = [tagMap EXCEPT ![d] = map]
     /\ limit' = [limit EXCEPT ![d][d] = @ - Cardinality(map)]
     /\ ghostBuf' = [p \in Pair |-> IF p[1] = d /\ p[2] \in RemoteDomains(d)
                       THEN PackedGhosts(d, p[2], map, own) ELSE ghostBuf[p]]
  /\ Goto(d, "ghosts")
  /\ UNCHANGED <<ghostCount, reqVars, respVars>>

(* CommUnpackGhosts, when the buffers of all remote domains are in; Fatal  *)
(* on a cell that is not on the cell list.                                 *)
AsGhost(copy) == [copy EXCEPT !.kind = "ghost"]
UnpackGhosts(d) ==
  LET bufs  == [e \in RemoteDomains(d) |-> ghostBuf[<<e, d>>]]
      tags  == UNION {DOMAIN bufs[e].nodes : e \in DOMAIN bufs}
      cells == UNION {bufs[e].cells : e \in DOMAIN bufs}
  IN
  /\ pc[d] = "ghosts" /\ \A e \in RemoteDomains(d) : Arrived(ghostBuf, e, d)
  /\ keys' = [keys EXCEPT ![d] =
                Extended(@, [t \in tags |-> AsGhost(bufs[t[1]].nodes[t])])]
  /\ limit' = [limit EXCEPT ![d] =
       [e \in Domain |-> IF e \in DOMAIN bufs THEN bufs[e].limit ELSE @[e]]]
  /\ tagMap' = [tagMap EXCEPT ![d] = @ \cup UNION {bufs[e].maps : e \in DOMAIN bufs}]
  /\ ghostCount' = [ghostCount EXCEPT ![d] = Cardinality(tags)]
  /\ ghostBuf' = [p \in Pair |-> IF p[2] = d THEN None ELSE ghostBuf[p]]
  /\ Goto(d, IF cells \subseteq CellList(d) THEN "scan" ELSE "fatal")
  /\ UNCHANGED <<reqVars, respVars>>
-----------------------------------------------------------------------------
(* CommSendSecondaryGhosts: for every arm of a ghost in a cell that is not *)
(* native and whose far end is not known, ask the owner of the ghost (a    *)
(* tag that several ghosts ask for is repeated; its answers are the same). *)
Missing(d, t) ==
  {a \in {keys[d][t].arms[m] : m \in DOMAIN keys[d][t].arms} :
     /\ CellOf[keys[d][t].node] \in CellList(d) \ NativeCells[d]
     /\ ~Known(keys[d], limit[d], a)}
Requests(d) ==
  LET asking == {t \in DOMAIN keys[d] : Missing(d, t) # {}} IN
  [e \in {t[1] : t \in asking} |->
     UNION {Missing(d, t) : t \in {u \in asking : u[1] = e}}]

RequestSecondary(d) ==
  /\ pc[d] = "scan"
  /\ reqBuf' = [reqBuf EXCEPT ![d] = Requests(d)]
  /\ Goto(d, "reduce")
  /\ UNCHANGED <<keyVars, ghostBuf, request, slots, respVars>>

(* The reduction of the message counts completes when every domain has     *)
(* contributed; then the requests are sent.                                *)
ReduceDone == \A e \in Domain : pc[e] \notin {"sorted", "ghosts", "scan", "fatal"}
RequestsOfNeighbours(d) == Cardinality(RemoteDomains(d))
NumRecvReqBufs(d) == Cardinality({e \in Domain : d \in DOMAIN reqBuf[e]})

SendRequests(d) ==
  /\ pc[d] = "reduce" /\ ReduceDone
  /\ request' = [p \in Pair |-> IF p[1] = d /\ p[2] \in DOMAIN reqBuf[d]
                                THEN [tags |-> reqBuf[d][p[2]]] ELSE request[p]]
  /\ Goto(d, "requests")
  /\ UNCHANGED <<keyVars, ghostBuf, reqBuf, slots, respVars>>

(* The length of a request arrives, from any source, in the next slot.     *)
RecvRequest(d, e) ==
  /\ pc[d] = "requests" /\ Len(slots[d]) < NumRecvReqBufs(d)
  /\ Arrived(request, e, d) /\ e \notin {slots[d][k] : k \in DOMAIN slots[d]}
  /\ slots' = [slots EXCEPT ![d] = Append(@, e)]
  /\ UNCHANGED <<pc, keyVars, ghostBuf, reqBuf, request, respVars>>

(* PackSecondaryGhostResponse: the node under the tag, else under the tag  *)
(* it has been given since; Fatal if there is none.  The answer carries    *)
(* the original tag, and the new one only if that is how it was found.     *)
Answer(d, t) ==
  LET u == IF Known(keys[d], limit[d], t) THEN t ELSE NewTagOf(tagMap[d], t) IN
  [old |-> t, new |-> u, node |-> keys[d][u].node, arms |-> keys[d][u].arms]
Answers(d, e) == {Answer(d, t) : t \in request[<<e, d>>].tags}
CanAnswer(d, e) ==
  \A t \in request[<<e, d>>].tags : KnownAfter(keys[d], limit[d], tagMap[d], t)

(* All requests are in: answer each to its source, and post the receives   *)
(* of the responses; their lengths leave the sources in inStatus.          *)
ReqDomList(d) == Listed(DOMAIN reqBuf[d])
StatusOfRequests(d) == slots[d] \o ReqDomList(d)
StatusOfLengths(d)  == ReqDomList(d)
ServeRequests(d) ==
  LET from == {slots[d][k] : k \in DOMAIN slots[d]} IN
  /\ pc[d] = "requests" /\ Len(slots[d]) = NumRecvReqBufs(d)
  /\ IF \A e \in from : CanAnswer(d, e)
     THEN /\ response' = [p \in Pair |-> IF p[1] = d /\ p[2] \in from
                            THEN [nodes |-> Answers(d, p[2])] ELSE response[p]]
          /\ inStatus' = [inStatus EXCEPT ![d] = StatusOfLengths(d)]
          /\ Goto(d, "responses")
     ELSE Goto(d, "fatal") /\ UNCHANGED <<response, inStatus>>
  /\ request' = [p \in Pair |-> IF p[2] = d THEN None ELSE request[p]]
  /\ slots' = [slots EXCEPT ![d] = <<>>]
  /\ UNCHANGED <<keyVars, ghostBuf, reqBuf, answered>>

(* UnpackSecondaryGhostResponse: a node that is already known, under the   *)
(* tag asked for or under the one it was given since, is skipped.          *)
SkipByTagOnly(d, a) == Known(keys[d], limit[d], a.old)
AlreadyKnown(d, a) ==
  \/ Known(keys[d], limit[d], a.old)
  \/ a.new # a.old /\ Known(keys[d], limit[d], NewTagOf(tagMap[d], a.old))
UnpackSecondary(d, fresh) ==
  LET top(e) == {a.new[2] + 1 : a \in {b \in fresh : b.new[1] = e}} IN
  /\ keys' = [keys EXCEPT ![d] = Extended(@,
       [t \in {a.new : a \in fresh} |->
          LET a == CHOOSE b \in fresh : b.new = t IN
          [node |-> a.node, arms |-> a.arms, kind |-> "secondary"]])]
  /\ limit' = [limit EXCEPT ![d] = [e \in Domain |-> SetMax({@[e]} \cup top(e))]]
  /\ ghostCount' = [ghostCount EXCEPT ![d] = @ + Cardinality(fresh)]
  /\ tagMap' = [tagMap EXCEPT ![d] = @ \cup
       {[old |-> a.old, new |-> a.new] : a \in {b \in fresh : b.new # b.old}}]

(* MPI_Waitany returns slot k.  It stores the status in inStatus[0], the   *)
(* code reads the source of inStatus[recvIndex]; the buffer of any other   *)
(* source has not arrived, or is freed already.                            *)
RecvResponse(d, k) ==
  LET status == [inStatus[d] EXCEPT ![1] = ReqDomList(d)[k]]
      source == status[k]
  IN
  /\ pc[d] = "responses" /\ k \in DOMAIN ReqDomList(d) \ answered[d]
  /\ Arrived(response, ReqDomList(d)[k], d)
  /\ inStatus' = [inStatus EXCEPT ![d] = status]
  /\ answered' = [answered EXCEPT ![d] = @ \cup {k}]
  /\ IF Arrived(response, source, d)
     THEN /\ UnpackSecondary(d, {a \in response[<<source, d>>].nodes :
                                       ~AlreadyKnown(d, a)})
          /\ response' = [response EXCEPT ![<<source, d>>] = None]
          /\ UNCHANGED pc
     ELSE Goto(d, "fatal") /\ UNCHANGED <<keyVars, response>>
  /\ UNCHANGED <<ghostBuf, reqVars>>

(* ReconcileCompressedNodeKeys: every arm of native nodes and of ghosts is *)
(* looked up once; the map is cleared.                                     *)
NativesOnly(copy) == copy.kind = "native"
ToReconcile(copy) == TRUE
Reconciled(map, copy) ==
  IF ToReconcile(copy)
  THEN [copy EXCEPT !.arms = [m \in DOMAIN copy.arms |-> NewTagOf(map, copy.arms[m])]]
  ELSE copy
ReconcileKeys(d) ==
  /\ pc[d] = "responses" /\ answered[d] = DOMAIN ReqDomList(d)
  /\ keys' = [keys EXCEPT ![d] =
                [t \in DOMAIN keys[d] |-> Reconciled(tagMap[d], keys[d][t])]]
  /\ tagMap' = [tagMap EXCEPT ![d] = {}]
  /\ inStatus' = [inStatus EXCEPT ![d] = <<>>]
  /\ answered' = [answered EXCEPT ![d] = {}]
  /\ Goto(d, "done")
  /\ UNCHANGED <<limit, ghostCount, ghostBuf, reqVars, response>>
-----------------------------------------------------------------------------
DomainStep(d) ==
  \/ PackGhosts(d) \/ UnpackGhosts(d)
  \/ RequestSecondary(d) \/ SendRequests(d)
  \/ \E e \in Domain : RecvRequest(d, e)
  \/ ServeRequests(d)
  \/ \E k \in DOMAIN ReqDomList(d) : RecvResponse(d, k)
  \/ ReconcileKeys(d)

AllDone  == \A d \in Domain : pc[d] = "done"
Finished == AllDone /\ UNCHANGED vars

Next == (\E d \in Domain : DomainStep(d)) \/ Finished

Spec == Init /\ [][Next]_vars

(* The domains are processes; each keeps running, and MPI delivers.        *)
FairSpec == Spec /\ \A d \in Domain : WF_vars(DomainStep(d))
-----------------------------------------------------------------------------
(* Properties. *)

Tag == Domain \X (0 .. MaxIndex)
Kind == {"native", "ghost", "secondary"}
Place == {"sorted", "ghosts", "scan", "reduce", "requests", "responses", "done",
          "fatal"}

TypeOK ==
  /\ pc \in [Domain -> Place]
  /\ \A d \in Domain :
       /\ DOMAIN keys[d] \subseteq Tag
       /\ \A t \in DOMAIN keys[d] :
            /\ keys[d][t].node \in Node /\ keys[d][t].kind \in Kind
            /\ keys[d][t].arms \in [Nbrs(keys[d][t].node) -> Tag]
       /\ limit[d] \in [Domain -> 0 .. MaxIndex + 1]
       /\ \A p \in tagMap[d] : /\ p.old \in Tag /\ p.new \in Tag
                               /\ p.old[1] = p.new[1] /\ p.new[2] < p.old[2]
       /\ DOMAIN reqBuf[d] \subseteq RemoteDomains(d)

(* A domain has one structure per node, under the tag the owner gives the  *)
(* node now, within the range its table of tags covers, and no other on    *)
(* its ghost queue: although a node may be sent by its owner, and returned *)
(* by several domains under a tag it no longer has, in any order.          *)
OneCopy ==
  \A d \in Domain :
    /\ ghostCount[d] = Cardinality({t \in DOMAIN keys[d] : keys[d][t].kind # "native"})
    /\ \A t \in DOMAIN keys[d] :
         /\ t[1] = Owner[keys[d][t].node]
         /\ \A u \in DOMAIN keys[d] : keys[d][u].node = keys[d][t].node => u = t
         /\ t[2] < limit[d][t[1]]
         /\ pc[t[1]] # "sorted" =>
              t \in DOMAIN keys[t[1]] /\ keys[t[1]][t].node = keys[d][t].node

(* After the exchange a domain has all nodes of its own and the adjacent   *)
(* cells and the far ends of their segments, and the tags their arms hold  *)
(* lead there, whatever the indices the owners changed meanwhile.  The arm *)
(* of a secondary ghost leads to the right node or nowhere.                *)
ArmsResolve ==
  \A d \in Domain : pc[d] = "done" =>
    /\ \A n \in Node : CellOf[n] \in CellList(d) =>
         \E t \in DOMAIN keys[d] : keys[d][t].node = n /\ keys[d][t].kind # "secondary"
    /\ \A t \in DOMAIN keys[d] : \A m \in DOMAIN keys[d][t].arms :
         LET a == keys[d][t].arms[m] IN
         IF Known(keys[d], limit[d], a) THEN keys[d][a].node = m
                                        ELSE keys[d][t].kind = "secondary"

(* No domain stops with an error: every cell received is on the receiver's *)
(* list, every node asked for can be found by the domain asked, if only by *)
(* the map of tags, and every response is read from the buffer it is in.   *)
NeverFatal == \A d \in Domain : pc[d] # "fatal"

(* A domain knows what it needs, once each, and no exchange fails.         *)
GhostsKnown == OneCopy /\ ArmsResolve /\ NeverFatal

(* The exchange ends in every domain: as many requests are waited for as   *)
(* are sent, and every one of them is answered.                            *)
ExchangeEnds == <>AllDone
=============================================================================
