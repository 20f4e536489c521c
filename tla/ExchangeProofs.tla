---------------------------- MODULE ExchangeProofs ----------------------------
(***************************************************************************)
(* CommSendRemesh delivers whole lists round by round, for any number of   *)
(* domains, any symmetric neighbourhood and any number of rounds.          *)
(*                                                                         *)
(* The channels of two neighbours are described by three counts: how many  *)
(* lengths and lists the receiver has read, and how many lists the sender  *)
(* has sent.  What is under way is the part of the sender's history in     *)
(* between, in order (LengthsInOrder, ListsInOrder).                       *)
(*                                                                         *)
(* At the end: the laws of ownership, for every timestep and numbering of  *)
(* the domains, by which the lists of two domains never change one segment.*)
(***************************************************************************)
EXTENDS Exchange, SegOwnership, TLAPS, SequenceTheorems

(* The neighbourhood is symmetric and irreflexive.                         *)
LEMMA Neighbours ==
  ASSUME NEW d \in Domain, NEW e \in RemoteDomains(d)
  PROVE  /\ e \in Domain /\ d # e /\ d \in RemoteDomains(e)
         /\ <<d, e>> \in Adjacent /\ <<e, d>> \in Adjacent
BY AdjacentAssumption DEF RemoteDomains

(* The same for a pair of neighbours.                                      *)
LEMMA AdjacentDomains ==
  ASSUME NEW p \in Adjacent
  PROVE  /\ p = <<p[1], p[2]>> /\ p[1] \in Domain /\ p[2] \in Domain
         /\ p[2] \in RemoteDomains(p[1]) /\ p[1] \in RemoteDomains(p[2])
BY AdjacentAssumption DEF RemoteDomains

(* What a message holds is a list of operations.                           *)
LEMMA ContentTyped ==
  ASSUME TypeOK, NEW p \in Adjacent, NEW i \in DOMAIN lists[p]
  PROVE  Content(p[1], lists[p][i]) \in Seq(Op)
<1>1. lists[p][i] \in Message
  BY DEF TypeOK
<1>2. opList[p[1]] \in Seq(Op)
  BY AdjacentDomains DEF TypeOK
<1> QED BY <1>1, <1>2 DEF Content, Message

(* The type invariant holds initially, and every step preserves it.        *)
LEMMA TypeInit == Init => TypeOK
BY DEF Init, TypeOK

LEMMA TypeStep == TypeOK /\ [Next]_vars => TypeOK'
<1> SUFFICES ASSUME TypeOK, [Next]_vars PROVE TypeOK'
  OBVIOUS
<1>1. ASSUME NEW d \in Domain, NEW op \in Op, LogOp(d, op) PROVE TypeOK'
  BY <1>1 DEF LogOp, TypeOK
<1>2. ASSUME NEW d \in Domain, SendLengths(d) PROVE TypeOK'
  <2>1. /\ sent' \in [Domain -> Seq(Seq(Op))]
        /\ pc' \in [Domain -> {"work", "lengths", "lists", "fix"}]
    BY <1>2 DEF SendLengths, TypeOK
  <2>2. lengths' \in [Adjacent -> Seq(Nat)]
    BY <1>2 DEF SendLengths, TypeOK
  <2>3. /\ DOMAIN posted' = Domain
        /\ \A a \in Domain : /\ posted'[a] \subseteq RemoteDomains(a)
                             /\ pc'[a] \in {"work", "fix"} => posted'[a] = {}
    BY <1>2 DEF SendLengths, TypeOK
  <2> QED BY <1>2, <2>1, <2>2, <2>3 DEF SendLengths, TypeOK
<1>3. ASSUME NEW d \in Domain, SendLists(d) PROVE TypeOK'
  <2>1. lists' \in [Adjacent -> Seq(Message)]
    <3>1. ASSUME NEW p \in Adjacent
          PROVE  [live |-> p[2] = FirstRemote(d), list |-> opList[d]]
                   \in Message
      BY DEF TypeOK, Message
    <3> QED BY <1>3, <3>1 DEF SendLists, TypeOK
  <2>2. /\ DOMAIN posted' = Domain
        /\ \A a \in Domain : /\ posted'[a] \subseteq RemoteDomains(a)
                             /\ pc'[a] \in {"work", "fix"} => posted'[a] = {}
    BY <1>3 DEF SendLists, TypeOK
  <2> QED BY <1>3, <2>1, <2>2 DEF SendLists, TypeOK
<1>4. ASSUME NEW d \in Domain, CommSendRemeshReturns(d) PROVE TypeOK'
  BY <1>4 DEF CommSendRemeshReturns, AllReceived, TypeOK
<1>5. ASSUME NEW d \in Domain, FixRemesh(d) PROVE TypeOK'
  <2>1. [e \in RemoteDomains(d) |-> inBuf[<<d, e>>]] \in Delivery(d)
    BY Neighbours DEF TypeOK, Delivery
  <2>2. DOMAIN got' = Domain /\ \A a \in Domain : got'[a] \in Seq(Delivery(a))
    <3> DEFINE delivery == [e \in RemoteDomains(d) |-> inBuf[<<d, e>>]]
    <3>1. got' = [got EXCEPT ![d] = Append(@, delivery)]
      BY <1>5 DEF FixRemesh
    <3> HIDE DEF delivery
    <3>2. delivery \in Delivery(d)
      BY <2>1 DEF delivery
    <3> QED BY <3>1, <3>2 DEF TypeOK
  <2>3. inBuf' \in [Adjacent -> Seq(Op)]
    BY <1>5 DEF FixRemesh, TypeOK
  <2> QED BY <1>5, <2>2, <2>3 DEF FixRemesh, TypeOK
<1>6. ASSUME NEW d \in Domain, NEW e \in RemoteDomains(d), ReceiveLength(d, e)
      PROVE  TypeOK'
  <2>1. <<e, d>> \in Adjacent /\ <<d, e>> \in Adjacent
    BY Neighbours
  <2>2. Head(lengths[<<e, d>>]) \in Nat /\ Tail(lengths[<<e, d>>]) \in Seq(Nat)
    BY <1>6, <2>1 DEF ReceiveLength, TypeOK
  <2> QED BY <1>6, <2>1, <2>2 DEF ReceiveLength, TypeOK
<1>7. ASSUME NEW d \in Domain, NEW e \in RemoteDomains(d), ReceiveList(d, e)
      PROVE  TypeOK'
  <2>1. <<e, d>> \in Adjacent /\ <<d, e>> \in Adjacent
    BY Neighbours
  <2>2. Content(e, Head(lists[<<e, d>>])) \in Seq(Op)
    BY <1>7, <2>1, ContentTyped DEF ReceiveList, TypeOK
  <2>3. Tail(lists[<<e, d>>]) \in Seq(Message)
    BY <1>7, <2>1 DEF ReceiveList, TypeOK
  <2> QED BY <1>7, <2>1, <2>2, <2>3 DEF ReceiveList, TypeOK
<1>8. ASSUME NEW d \in Domain, NEW e \in RemoteDomains(d), BufferList(d, e)
      PROVE  TypeOK'
  <2> DEFINE copies == [i \in DOMAIN lists[<<d, e>>] |->
                          [live |-> FALSE, list |-> Content(d, lists[<<d, e>>][i])]]
  <2>1. <<d, e>> \in Adjacent
    BY Neighbours
  <2>2. \A i \in DOMAIN lists[<<d, e>>] : copies[i] \in Message
    BY <2>1, ContentTyped DEF Message
  <2>3. copies \in Seq(Message)
    <3>1. DOMAIN lists[<<d, e>>] = 1 .. Len(lists[<<d, e>>])
          /\ Len(lists[<<d, e>>]) \in Nat
      BY <2>1 DEF TypeOK
    <3>2. copies \in [1 .. Len(lists[<<d, e>>]) -> Message]
      BY <2>2, <3>1
    <3> QED BY <3>1, <3>2, SeqDef
  <2> QED BY <1>8, <2>1, <2>3 DEF BufferList, TypeOK
<1>9. CASE UNCHANGED vars
  BY <1>9 DEF vars, TypeOK
<1> QED BY <1>1, <1>2, <1>3, <1>4, <1>5, <1>6, <1>7, <1>8, <1>9
        DEF Next, DomainStep, Receive, Proceed, Finished

(* ExchangeTyped: the variables keep their types, and no receive is        *)
(* outstanding when CommSendRemesh has returned (its two MPI_Waitall).     *)
THEOREM ExchangeTyped == Spec => []TypeOK
BY TypeInit, TypeStep, PTL DEF Spec
-----------------------------------------------------------------------------
(* How far a domain is: the rounds it has begun, the lists it has sent,    *)
(* and what receiver d has read from neighbour e.                          *)
Started(d) == Len(sent[d])
ListsSent(d) == IF pc[d] = "lengths" THEN Started(d) - 1 ELSE Started(d)
LengthsRead(d, e) == IF pc[d] = "lengths" /\ e \in posted[d]
                     THEN Started(d) - 1 ELSE Started(d)
ListsRead(d, e) == IF pc[d] = "lengths" \/ (pc[d] = "lists" /\ e \in posted[d])
                   THEN Started(d) - 1 ELSE Started(d)

(* A domain exchanges the round after the last it has replayed, and its    *)
(* list stays in opListBuf until it has replayed this one.                 *)
RoundInv(d) ==
  /\ Len(got[d]) = IF pc[d] = "work" THEN Started(d) ELSE Started(d) - 1
  /\ pc[d] # "work" => Started(d) > 0 /\ opList[d] = sent[d][Started(d)]

(* The lengths under way from e to d.                                      *)
LengthsInOrder(e, d) ==
  /\ LengthsRead(d, e) + Len(lengths[<<e, d>>]) = Started(e)
  /\ \A i \in 1 .. Len(lengths[<<e, d>>]) :
       lengths[<<e, d>>][i] = Len(sent[e][LengthsRead(d, e) + i])

(* The lists under way from e to d; only the last may still be in the      *)
(* buffer it is sent from.                                                 *)
ListsInOrder(e, d) ==
  /\ ListsRead(d, e) + Len(lists[<<e, d>>]) = ListsSent(e)
  /\ \A i \in 1 .. Len(lists[<<e, d>>]) :
       /\ Content(e, lists[<<e, d>>][i]) = sent[e][ListsRead(d, e) + i]
       /\ lists[<<e, d>>][i].live => pc[e] = "lists" /\ i = Len(lists[<<e, d>>])

(* What d has received from e in the round it is in.                       *)
ReceivedInv(d, e) ==
  /\ pc[d] # "work" /\ (pc[d] = "lengths" => e \notin posted[d])
       => inBufLen[<<d, e>>] = Len(sent[e][Started(d)])
  /\ pc[d] = "fix" \/ (pc[d] = "lists" /\ e \notin posted[d])
       => inBuf[<<d, e>>] = sent[e][Started(d)]

ExchangeInv ==
  /\ TypeOK
  /\ \A d \in Domain : RoundInv(d)
  /\ \A d \in Domain : \A e \in RemoteDomains(d) :
       LengthsInOrder(e, d) /\ ListsInOrder(e, d) /\ ReceivedInv(d, e)

(* The facts about two neighbours that every step uses.                    *)
LEMMA PairTyped ==
  ASSUME TypeOK, NEW d \in Domain, NEW e \in RemoteDomains(d)
  PROVE  /\ sent[d] \in Seq(Seq(Op)) /\ Started(d) \in Nat
         /\ sent[e] \in Seq(Seq(Op)) /\ Started(e) \in Nat
         /\ got[d] \in Seq(Delivery(d)) /\ Len(got[d]) \in Nat
         /\ opList[e] \in Seq(Op)
         /\ lengths[<<e, d>>] \in Seq(Nat) /\ Len(lengths[<<e, d>>]) \in Nat
         /\ lists[<<e, d>>] \in Seq(Message) /\ Len(lists[<<e, d>>]) \in Nat
         /\ pc[d] \in {"work", "lengths", "lists", "fix"}
         /\ pc[e] \in {"work", "lengths", "lists", "fix"}
         /\ pc[d] \in {"work", "fix"} => posted[d] = {}
<1>1. e \in Domain /\ <<e, d>> \in Adjacent
  BY Neighbours
<1>2. sent[d] \in Seq(Seq(Op)) /\ sent[e] \in Seq(Seq(Op))
  BY <1>1 DEF TypeOK
<1>3. got[d] \in Seq(Delivery(d)) /\ opList[e] \in Seq(Op)
  BY <1>1 DEF TypeOK
<1>4. lengths[<<e, d>>] \in Seq(Nat) /\ lists[<<e, d>>] \in Seq(Message)
  BY <1>1 DEF TypeOK
<1>5. /\ Len(sent[d]) \in Nat /\ Len(sent[e]) \in Nat /\ Len(got[d]) \in Nat
      /\ Len(lengths[<<e, d>>]) \in Nat /\ Len(lists[<<e, d>>]) \in Nat
  BY <1>2, <1>3, <1>4
<1>6. /\ pc[d] \in {"work", "lengths", "lists", "fix"}
      /\ pc[e] \in {"work", "lengths", "lists", "fix"}
      /\ pc[d] \in {"work", "fix"} => posted[d] = {}
  BY <1>1 DEF TypeOK
<1> QED BY <1>2, <1>3, <1>4, <1>5, <1>6 DEF Started

(* The invariant holds initially; then one lemma for every action.         *)
LEMMA InvInit == Init => ExchangeInv
<1> SUFFICES ASSUME Init PROVE ExchangeInv
  OBVIOUS
<1>1. TypeOK
  BY TypeInit
<1>2. \A d \in Domain : RoundInv(d)
  BY DEF Init, RoundInv, Started
<1>3. ASSUME NEW d \in Domain, NEW e \in RemoteDomains(d)
      PROVE  LengthsInOrder(e, d) /\ ListsInOrder(e, d) /\ ReceivedInv(d, e)
  <2>1. /\ lengths[<<e, d>>] = <<>> /\ lists[<<e, d>>] = <<>>
        /\ sent[d] = <<>> /\ sent[e] = <<>> /\ pc[d] = "work" /\ pc[e] = "work"
    BY Neighbours DEF Init
  <2> QED BY <2>1 DEF LengthsInOrder, ListsInOrder, ReceivedInv, Started,
                      LengthsRead, ListsRead, ListsSent
<1> QED BY <1>1, <1>2, <1>3 DEF ExchangeInv

(* Logging touches no message: opListBuf is not being sent from.           *)
LEMMA LogOpStep ==
  ASSUME ExchangeInv, TypeOK', NEW d \in Domain, NEW op \in Op, LogOp(d, op)
  PROVE  ExchangeInv'
<1>1. \A a \in Domain : RoundInv(a)'
  BY DEF ExchangeInv, TypeOK, LogOp, RoundInv, Started
<1>2. ASSUME NEW a \in Domain, NEW e \in RemoteDomains(a)
      PROVE  (LengthsInOrder(e, a) /\ ListsInOrder(e, a) /\ ReceivedInv(a, e))'
  <2>1. LengthsInOrder(e, a) /\ ListsInOrder(e, a) /\ ReceivedInv(a, e)
    BY <1>2 DEF ExchangeInv
  <2>2. LengthsInOrder(e, a)' /\ ReceivedInv(a, e)'
    BY <2>1 DEF LogOp, LengthsInOrder, ReceivedInv, LengthsRead, Started
  <2>3. ASSUME NEW i \in 1 .. Len(lists[<<e, a>>])
        PROVE  Content(e, lists[<<e, a>>][i])' = Content(e, lists[<<e, a>>][i])
    <3>1. lists[<<e, a>>][i].live => e # d
      BY <2>1 DEF ListsInOrder, LogOp
    <3> QED BY <3>1, PairTyped, Neighbours DEF ExchangeInv, TypeOK, LogOp, Content, Message
  <2>4. ListsInOrder(e, a)'
    BY <2>1, <2>3 DEF LogOp, ListsInOrder, ListsRead, ListsSent, Started
  <2> QED BY <2>2, <2>4
<1> QED BY <1>1, <1>2 DEF ExchangeInv

(* A new round begins: one more length is under way to every neighbour.    *)
LEMMA SendLengthsStep ==
  ASSUME ExchangeInv, TypeOK', NEW d \in Domain, SendLengths(d)
  PROVE  ExchangeInv'
<1>1. ASSUME NEW a \in Domain PROVE RoundInv(a)'
  BY DEF ExchangeInv, TypeOK, SendLengths, RoundInv, Started
<1>2. ASSUME NEW a \in Domain, NEW e \in RemoteDomains(a)
      PROVE  (LengthsInOrder(e, a) /\ ListsInOrder(e, a) /\ ReceivedInv(a, e))'
  <2>1. LengthsInOrder(e, a) /\ ListsInOrder(e, a) /\ ReceivedInv(a, e) /\ RoundInv(e)
       /\ RoundInv(a)
    BY <1>2, Neighbours DEF ExchangeInv
  <2>2. e \in Domain /\ e # a /\ <<e, a>> \in Adjacent /\ a \in RemoteDomains(e)
    BY Neighbours
  <2>3. TypeOK
    BY DEF ExchangeInv
  <2>4. CASE a = d
    <3>1. /\ sent'[e] = sent[e] /\ Started(d)' = Started(d) + 1 /\ pc[d] = "work"
          /\ pc'[d] = "lengths" /\ posted'[d] = RemoteDomains(d) /\ pc'[e] = pc[e]
          /\ lengths'[<<e, d>>] = lengths[<<e, d>>] /\ lists' = lists
          /\ opList' = opList
      BY <2>2, <2>3, <2>4 DEF SendLengths, TypeOK, Started
    <3>2. Started(a) \in Nat
      BY <2>3, PairTyped
    <3>3. /\ LengthsRead(a, e)' = LengthsRead(a, e)
          /\ ListsRead(a, e)' = ListsRead(a, e)
          /\ Started(e)' = Started(e) /\ ListsSent(e)' = ListsSent(e)
      BY <2>4, <3>1, <3>2 DEF LengthsRead, ListsRead, ListsSent, Started
    <3>4. LengthsInOrder(e, a)'
      BY <2>1, <2>4, <3>1, <3>3 DEF LengthsInOrder
    <3>5. ListsInOrder(e, a)'
      BY <2>1, <2>4, <3>1, <3>3 DEF ListsInOrder, Content
    <3>6. ReceivedInv(a, e)'
      BY <2>4, <3>1 DEF ReceivedInv
    <3> QED BY <3>4, <3>5, <3>6
  <2>5. CASE e = d
    <3>1. /\ sent'[d] = Append(sent[d], opList[d]) /\ pc[d] = "work"
          /\ pc'[d] = "lengths" /\ posted'[a] = posted[a] /\ pc'[a] = pc[a]
          /\ lengths'[<<d, a>>] = Append(lengths[<<d, a>>], Len(opList[d]))
          /\ lists' = lists /\ sent'[a] = sent[a] /\ opList' = opList
          /\ inBuf' = inBuf /\ inBufLen' = inBufLen
      BY <2>2, <2>3, <2>5 DEF SendLengths, TypeOK, Dests
    <3>2. /\ LengthsRead(a, e)' = LengthsRead(a, e) /\ LengthsRead(a, e) \in Int
          /\ ListsRead(a, e)' = ListsRead(a, e) /\ ListsRead(a, e) \in Int
          /\ ListsSent(e)' = ListsSent(e) /\ Started(e)' = Started(e) + 1
          /\ Started(e) \in Nat
      BY <2>3, <2>5, <3>1, PairTyped DEF LengthsRead, ListsRead, ListsSent, Started
    <3>3. \A k \in 1 .. Started(e) : sent'[e][k] = sent[e][k]
      BY <2>3, <2>5, <3>1, PairTyped DEF Started
    <3>4. sent'[e][Started(e) + 1] = opList[e]
      BY <2>3, <2>5, <3>1, PairTyped DEF Started
    <3>5. LengthsRead(a, e) >= 0 /\ ListsRead(a, e) >= 0
      <4>1. Started(a) \in Nat /\ (pc[a] # "work" => Started(a) > 0)
        BY <2>1, <2>3, PairTyped DEF RoundInv
      <4> QED BY <4>1 DEF LengthsRead, ListsRead
    <3>6. LengthsInOrder(e, a)'
      <4> DEFINE channel == lengths[<<e, a>>]
      <4>1. lengths'[<<e, a>>] = Append(channel, Len(opList[e])) /\ channel \in Seq(Nat)
            /\ Len(channel) \in Nat
        BY <2>3, <2>5, <3>1, PairTyped
      <4>2. /\ LengthsRead(a, e) + Len(channel) = Started(e)
            /\ \A i \in 1 .. Len(channel) :
                 channel[i] = Len(sent[e][LengthsRead(a, e) + i])
        BY <2>1 DEF LengthsInOrder
      <4>3. ASSUME NEW i \in 1 .. Len(channel) + 1
            PROVE  lengths'[<<e, a>>][i] = Len(sent'[e][LengthsRead(a, e) + i])
        <5>1. CASE i = Len(channel) + 1
          <6>1. LengthsRead(a, e) + i = Started(e) + 1
            BY <3>2, <4>1, <4>2, <5>1
          <6>2. lengths'[<<e, a>>][i] = Len(opList[e])
            BY <4>1, <5>1
          <6> QED BY <3>4, <6>1, <6>2
        <5>2. CASE i \in 1 .. Len(channel)
          <6>1. LengthsRead(a, e) + i \in 1 .. Started(e)
            BY <3>2, <3>5, <4>1, <4>2, <5>2
          <6>2. lengths'[<<e, a>>][i] = channel[i]
            BY <4>1, <5>2
          <6> QED BY <3>3, <4>2, <5>2, <6>1, <6>2
        <5> QED BY <4>1, <5>1, <5>2
      <4>4. Len(lengths'[<<e, a>>]) = Len(channel) + 1
        BY <4>1
      <4>5. LengthsRead(a, e)' + Len(lengths'[<<e, a>>]) = Started(e)'
        BY <3>2, <4>1, <4>2, <4>4
      <4>6. \A i \in 1 .. Len(lengths'[<<e, a>>]) :
              lengths'[<<e, a>>][i] = Len(sent'[e][LengthsRead(a, e)' + i])
        BY <3>2, <4>3, <4>4
      <4> QED BY <4>5, <4>6 DEF LengthsInOrder
    <3>7. ListsInOrder(e, a)'
      <4>1. ASSUME NEW i \in 1 .. Len(lists[<<e, a>>])
            PROVE  sent'[e][ListsRead(a, e) + i] = sent[e][ListsRead(a, e) + i]
        <5>1. ListsSent(e) <= Started(e)
          BY <3>2 DEF ListsSent
        <5>2. /\ ListsRead(a, e) + Len(lists[<<e, a>>]) = ListsSent(e)
              /\ Len(lists[<<e, a>>]) \in Nat /\ ListsSent(e) \in Int
          BY <2>1, <2>3, <3>2, PairTyped DEF ListsInOrder, ListsSent
        <5>3. ListsRead(a, e) + i \in 1 .. Started(e)
          BY <3>2, <3>5, <5>1, <5>2
        <5> QED BY <3>3, <5>3
      <4>2. \A i \in 1 .. Len(lists[<<e, a>>]) : ~lists[<<e, a>>][i].live
        BY <2>1, <2>5, <3>1 DEF ListsInOrder
      <4> QED BY <2>1, <3>1, <3>2, <4>1, <4>2 DEF ListsInOrder, Content
    <3>8. pc[a] # "work" /\ (pc[a] = "lengths" => e \notin posted[a])
            => Started(a) <= Started(e) /\ Started(a) > 0
      BY <2>1, <2>3, PairTyped DEF LengthsInOrder, LengthsRead, ExchangeInv, RoundInv
    <3>9. ReceivedInv(a, e)'
      BY <2>1, <2>3, <2>5, <3>1, <3>8, PairTyped DEF ReceivedInv, Started
    <3> QED BY <3>6, <3>7, <3>9
  <2>6. CASE a # d /\ e # d
    BY <2>1, <2>2, <2>3, <2>6
       DEF SendLengths, LengthsInOrder, ListsInOrder, ReceivedInv, LengthsRead,
           ListsRead, ListsSent, Started, Content, TypeOK
  <2> QED BY <2>4, <2>5, <2>6
<1> QED BY <1>1, <1>2 DEF ExchangeInv

(* Every list follows; what it holds is the list of this round.            *)
LEMMA SendListsStep ==
  ASSUME ExchangeInv, TypeOK', NEW d \in Domain, SendLists(d)
  PROVE  ExchangeInv'
<1>1. ASSUME NEW a \in Domain PROVE RoundInv(a)'
  BY DEF ExchangeInv, TypeOK, SendLists, RoundInv, Started
<1>2. ASSUME NEW a \in Domain, NEW e \in RemoteDomains(a)
      PROVE  (LengthsInOrder(e, a) /\ ListsInOrder(e, a) /\ ReceivedInv(a, e))'
  <2>1. LengthsInOrder(e, a) /\ ListsInOrder(e, a) /\ ReceivedInv(a, e) /\ RoundInv(e)
    BY <1>2, Neighbours DEF ExchangeInv
  <2>2. e \in Domain /\ e # a /\ <<e, a>> \in Adjacent /\ a \in RemoteDomains(e)
    BY Neighbours
  <2>3. TypeOK
    BY DEF ExchangeInv
  <2>4. sent' = sent /\ opList' = opList /\ lengths' = lengths /\ inBufLen' = inBufLen
        /\ inBuf' = inBuf /\ Started(a) \in Nat /\ Started(e) \in Nat
    BY <2>3, PairTyped DEF SendLists
  <2>5. CASE a = d
    <3>1. /\ pc[d] = "lengths" /\ posted[d] = {} /\ pc'[d] = "lists"
          /\ posted'[d] = RemoteDomains(d) /\ pc'[e] = pc[e]
          /\ lists'[<<e, d>>] = lists[<<e, d>>]
      BY <2>2, <2>3, <2>5 DEF SendLists, TypeOK, AllReceived
    <3>2. /\ LengthsRead(a, e)' = LengthsRead(a, e)
          /\ ListsRead(a, e)' = ListsRead(a, e)
          /\ Started(e)' = Started(e) /\ ListsSent(e)' = ListsSent(e)
      BY <2>4, <2>5, <3>1 DEF LengthsRead, ListsRead, ListsSent, Started
    <3>3. LengthsInOrder(e, a)' /\ ListsInOrder(e, a)'
      BY <2>1, <2>4, <2>5, <3>1, <3>2 DEF LengthsInOrder, ListsInOrder, Content
    <3>4. ReceivedInv(a, e)'
      BY <2>1, <2>4, <2>5, <3>1 DEF ReceivedInv, Started
    <3> QED BY <3>3, <3>4
  <2>6. CASE e = d
    <3> DEFINE channel == lists[<<e, a>>]
               message == [live |-> a = FirstRemote(d), list |-> opList[d]]
    <3>1. /\ pc[d] = "lengths" /\ pc'[d] = "lists" /\ posted'[a] = posted[a]
          /\ pc'[a] = pc[a] /\ lists'[<<e, a>>] = Append(channel, message)
      BY <2>2, <2>3, <2>6 DEF SendLists, TypeOK, Dests
    <3>2. channel \in Seq(Message) /\ Len(channel) \in Nat
      BY <2>3, PairTyped
    <3>3. message \in Message
      BY <2>2, <2>3, <2>6 DEF Message, TypeOK
    <3>4. /\ LengthsRead(a, e)' = LengthsRead(a, e) /\ ListsRead(a, e)' = ListsRead(a, e)
          /\ ListsRead(a, e) \in Int /\ Started(e)' = Started(e)
          /\ ListsSent(e) = Started(e) - 1 /\ ListsSent(e)' = Started(e)
      BY <2>4, <2>6, <3>1 DEF LengthsRead, ListsRead, ListsSent, Started
    <3>5. LengthsInOrder(e, a)' /\ ReceivedInv(a, e)'
      BY <2>1, <2>4, <3>1, <3>4 DEF LengthsInOrder, ReceivedInv, Started
    <3>6. /\ ListsRead(a, e) + Len(channel) = Started(e) - 1
          /\ \A i \in 1 .. Len(channel) :
               Content(e, channel[i]) = sent[e][ListsRead(a, e) + i] /\ ~channel[i].live
      BY <2>1, <2>6, <3>1, <3>4 DEF ListsInOrder
    <3>7. Content(e, message) = sent[e][Started(e)]
      BY <2>1, <2>6, <3>1 DEF Content, RoundInv
    <3> HIDE DEF message
    <3>8. Len(lists'[<<e, a>>]) = Len(channel) + 1
      BY <3>1, <3>2
    <3>9. ASSUME NEW i \in 1 .. Len(channel) + 1
          PROVE  /\ Content(e, lists'[<<e, a>>][i]) = sent[e][ListsRead(a, e) + i]
                 /\ lists'[<<e, a>>][i].live => i = Len(channel) + 1
      <4>1. CASE i = Len(channel) + 1
        <5>1. lists'[<<e, a>>][i] = message /\ ListsRead(a, e) + i = Started(e)
          BY <2>4, <3>1, <3>2, <3>3, <3>4, <3>6, <4>1
        <5> QED BY <3>7, <4>1, <5>1
      <4>2. CASE i \in 1 .. Len(channel)
        <5>1. lists'[<<e, a>>][i] = channel[i]
          BY <3>1, <3>2, <3>3, <4>2
        <5> QED BY <3>6, <4>2, <5>1
      <4> QED BY <3>2, <4>1, <4>2
    <3>10. ListsInOrder(e, a)'
      <4>1. ListsRead(a, e) + (Len(channel) + 1) = Started(e)
        <5>1. ListsRead(a, e) + Len(channel) = Started(e) - 1
          BY <3>6
        <5>2. ListsRead(a, e) \in Int /\ Len(channel) \in Nat /\ Started(e) \in Nat
          BY <2>4, <3>2, <3>4
        <5> HIDE DEF channel
        <5> QED BY <5>1, <5>2
      <4> QED BY <2>4, <2>6, <3>1, <3>4, <3>8, <3>9, <4>1 DEF ListsInOrder, Content
    <3> QED BY <3>5, <3>10
  <2>7. CASE a # d /\ e # d
    BY <2>1, <2>2, <2>3, <2>4, <2>7
       DEF SendLists, LengthsInOrder, ListsInOrder, ReceivedInv, LengthsRead,
           ListsRead, ListsSent, Started, Content, TypeOK
  <2> QED BY <2>5, <2>6, <2>7
<1> QED BY <1>1, <1>2 DEF ExchangeInv

(* A length is read: it is the one of the round the receiver is in.        *)
LEMMA ReceiveLengthStep ==
  ASSUME ExchangeInv, TypeOK', NEW d \in Domain, NEW b \in RemoteDomains(d),
         ReceiveLength(d, b)
  PROVE  ExchangeInv'
<1>1. ASSUME NEW a \in Domain PROVE RoundInv(a)'
  BY DEF ExchangeInv, TypeOK, ReceiveLength, RoundInv, Started
<1>2. ASSUME NEW a \in Domain, NEW e \in RemoteDomains(a)
      PROVE  (LengthsInOrder(e, a) /\ ListsInOrder(e, a) /\ ReceivedInv(a, e))'
  <2>1. LengthsInOrder(e, a) /\ ListsInOrder(e, a) /\ ReceivedInv(a, e) /\ RoundInv(e)
    BY <1>2, Neighbours DEF ExchangeInv
  <2>2. e \in Domain /\ e # a /\ <<e, a>> \in Adjacent /\ <<a, e>> \in Adjacent
    BY Neighbours
  <2>3. TypeOK
    BY DEF ExchangeInv
  <2>4. sent' = sent /\ opList' = opList /\ lists' = lists /\ pc' = pc /\ inBuf' = inBuf
        /\ Started(a) \in Nat /\ Started(e) \in Nat /\ pc[d] = "lengths"
    BY <2>3, PairTyped DEF ReceiveLength
  <2>5. ListsInOrder(e, a)' /\ Started(a)' = Started(a) /\ Started(e)' = Started(e)
    BY <2>1, <2>2, <2>3, <2>4
       DEF ReceiveLength, ListsInOrder, ListsRead, ListsSent, Content, Started, TypeOK
  <2>6. CASE a = d /\ e = b
    <3> DEFINE channel == lengths[<<e, a>>]
    <3>1. /\ e \in posted[a] /\ e \notin posted'[a] /\ channel # <<>>
          /\ lengths'[<<e, a>>] = Tail(channel)
          /\ inBufLen'[<<a, e>>] = Head(channel)
      BY <2>2, <2>3, <2>6 DEF ReceiveLength, TypeOK
    <3>2. channel \in Seq(Nat) /\ Len(channel) \in Nat
      BY <2>3, PairTyped
    <3>3. /\ LengthsRead(a, e) = Started(a) - 1 /\ LengthsRead(a, e)' = Started(a)
      BY <2>4, <2>5, <2>6, <3>1 DEF LengthsRead
    <3>4. /\ Started(a) - 1 + Len(channel) = Started(e)
          /\ \A i \in 1 .. Len(channel) :
               channel[i] = Len(sent[e][Started(a) - 1 + i])
      BY <2>1, <3>3 DEF LengthsInOrder
    <3>5. /\ Len(Tail(channel)) = Len(channel) - 1
          /\ \A i \in 1 .. Len(channel) - 1 : Tail(channel)[i] = channel[i + 1]
          /\ Head(channel) = channel[1] /\ 1 \in 1 .. Len(channel)
      BY <3>1, <3>2
    <3> HIDE DEF channel
    <3>6. Started(a) + Len(Tail(channel)) = Started(e)
      BY <2>4, <3>2, <3>4, <3>5
    <3>7. ASSUME NEW i \in 1 .. Len(Tail(channel))
          PROVE  Tail(channel)[i] = Len(sent[e][Started(a) + i])
      <4>1. i + 1 \in 1 .. Len(channel) /\ Started(a) - 1 + (i + 1) = Started(a) + i
        BY <2>4, <3>2, <3>5
      <4>2. Tail(channel)[i] = channel[i + 1]
        BY <3>5
      <4> QED BY <3>4, <4>1, <4>2
    <3>8. LengthsInOrder(e, a)'
      BY <2>4, <2>5, <3>1, <3>3, <3>6, <3>7 DEF LengthsInOrder
    <3>9. inBufLen'[<<a, e>>] = Len(sent[e][Started(a)])
      <4>1. Started(a) - 1 + 1 = Started(a)
        BY <2>4
      <4>2. channel[1] = Len(sent[e][Started(a) - 1 + 1])
        BY <3>4, <3>5
      <4> QED BY <3>1, <3>5, <4>1, <4>2
    <3>10. ReceivedInv(a, e)'
      BY <2>4, <2>5, <2>6, <3>9 DEF ReceivedInv
    <3> QED BY <2>5, <3>8, <3>10
  <2>7. CASE a # d \/ e # b
    <3>1. /\ lengths'[<<e, a>>] = lengths[<<e, a>>] /\ inBufLen'[<<a, e>>] = inBufLen[<<a, e>>]
          /\ e \in posted'[a] <=> e \in posted[a]
      BY <2>2, <2>3, <2>7 DEF ReceiveLength, TypeOK
    <3> QED BY <2>1, <2>4, <2>5, <3>1 DEF LengthsInOrder, LengthsRead, ReceivedInv
  <2> QED BY <2>6, <2>7
<1> QED BY <1>1, <1>2 DEF ExchangeInv

(* A list is read: it is the one of the round the receiver is in.          *)
LEMMA ReceiveListStep ==
  ASSUME ExchangeInv, TypeOK', NEW d \in Domain, NEW b \in RemoteDomains(d),
         ReceiveList(d, b)
  PROVE  ExchangeInv'
<1>1. ASSUME NEW a \in Domain PROVE RoundInv(a)'
  BY DEF ExchangeInv, TypeOK, ReceiveList, RoundInv, Started
<1>2. ASSUME NEW a \in Domain, NEW e \in RemoteDomains(a)
      PROVE  (LengthsInOrder(e, a) /\ ListsInOrder(e, a) /\ ReceivedInv(a, e))'
  <2>1. LengthsInOrder(e, a) /\ ListsInOrder(e, a) /\ ReceivedInv(a, e) /\ RoundInv(e)
    BY <1>2, Neighbours DEF ExchangeInv
  <2>2. e \in Domain /\ e # a /\ <<e, a>> \in Adjacent /\ <<a, e>> \in Adjacent
    BY Neighbours
  <2>3. TypeOK
    BY DEF ExchangeInv
  <2>4. sent' = sent /\ opList' = opList /\ lengths' = lengths /\ pc' = pc
        /\ inBufLen' = inBufLen /\ pc[d] = "lists"
        /\ Started(a) \in Nat /\ Started(e) \in Nat
    BY <2>3, PairTyped DEF ReceiveList
  <2>5. /\ LengthsInOrder(e, a)' /\ Started(a)' = Started(a)
        /\ Started(e)' = Started(e) /\ ListsSent(e)' = ListsSent(e)
    BY <2>1, <2>2, <2>3, <2>4
       DEF ReceiveList, LengthsInOrder, LengthsRead, ListsSent, Started, TypeOK
  <2>6. CASE a = d /\ e = b
    <3> DEFINE channel == lists[<<e, a>>]
    <3>1. /\ e \in posted[a] /\ e \notin posted'[a] /\ channel # <<>>
          /\ lists'[<<e, a>>] = Tail(channel)
          /\ inBuf'[<<a, e>>] = Content(e, Head(channel))
      BY <2>2, <2>3, <2>6 DEF ReceiveList, TypeOK
    <3>2. channel \in Seq(Message) /\ Len(channel) \in Nat
      BY <2>3, PairTyped
    <3>3. ListsRead(a, e) = Started(a) - 1 /\ ListsRead(a, e)' = Started(a)
      BY <2>4, <2>5, <2>6, <3>1 DEF ListsRead
    <3>4. /\ Started(a) - 1 + Len(channel) = ListsSent(e)
          /\ \A i \in 1 .. Len(channel) :
               /\ Content(e, channel[i]) = sent[e][Started(a) - 1 + i]
               /\ channel[i].live => pc[e] = "lists" /\ i = Len(channel)
      BY <2>1, <3>3 DEF ListsInOrder
    <3>5. /\ Len(Tail(channel)) = Len(channel) - 1
          /\ \A i \in 1 .. Len(channel) - 1 : Tail(channel)[i] = channel[i + 1]
          /\ Head(channel) = channel[1] /\ 1 \in 1 .. Len(channel)
      BY <3>1, <3>2
    <3> HIDE DEF channel
    <3>6. Started(a) + Len(Tail(channel)) = ListsSent(e)
      <4>1. Started(a) - 1 + Len(channel) = ListsSent(e)
        BY <3>4
      <4> QED BY <2>4, <3>2, <3>5, <4>1
    <3>7. ASSUME NEW i \in 1 .. Len(Tail(channel))
          PROVE  /\ Content(e, Tail(channel)[i]) = sent[e][Started(a) + i]
                 /\ Tail(channel)[i].live => pc[e] = "lists" /\ i = Len(Tail(channel))
      <4>1. i + 1 \in 1 .. Len(channel) /\ Started(a) - 1 + (i + 1) = Started(a) + i
            /\ (i + 1 = Len(channel) <=> i = Len(Tail(channel)))
        BY <2>4, <3>2, <3>5
      <4>2. Tail(channel)[i] = channel[i + 1]
        BY <3>5
      <4> QED BY <3>4, <4>1, <4>2
    <3>8. ListsInOrder(e, a)'
      BY <2>4, <2>5, <3>1, <3>3, <3>6, <3>7 DEF ListsInOrder, Content
    <3>9. inBuf'[<<a, e>>] = sent[e][Started(a)]
      <4>1. Started(a) - 1 + 1 = Started(a)
        BY <2>4
      <4>2. Content(e, channel[1]) = sent[e][Started(a) - 1 + 1]
        BY <3>4, <3>5
      <4> QED BY <3>1, <3>5, <4>1, <4>2
    <3>10. ReceivedInv(a, e)'
      BY <2>1, <2>4, <2>5, <2>6, <3>9 DEF ReceivedInv
    <3> QED BY <2>5, <3>8, <3>10
  <2>7. CASE a # d \/ e # b
    <3>1. /\ lists'[<<e, a>>] = lists[<<e, a>>] /\ inBuf'[<<a, e>>] = inBuf[<<a, e>>]
          /\ e \in posted'[a] <=> e \in posted[a]
      BY <2>2, <2>3, <2>7 DEF ReceiveList, TypeOK
    <3> QED BY <2>1, <2>4, <2>5, <3>1 DEF ListsInOrder, ListsRead, ReceivedInv, Content
  <2> QED BY <2>6, <2>7
<1> QED BY <1>1, <1>2 DEF ExchangeInv

(* Buffering changes where a list is, not what it holds.                   *)
LEMMA BufferListStep ==
  ASSUME ExchangeInv, TypeOK', NEW d \in Domain, NEW b \in RemoteDomains(d),
         BufferList(d, b)
  PROVE  ExchangeInv'
<1>1. ASSUME NEW a \in Domain PROVE RoundInv(a)'
  BY DEF ExchangeInv, TypeOK, BufferList, RoundInv, Started
<1>2. ASSUME NEW a \in Domain, NEW e \in RemoteDomains(a)
      PROVE  (LengthsInOrder(e, a) /\ ListsInOrder(e, a) /\ ReceivedInv(a, e))'
  <2>1. LengthsInOrder(e, a) /\ ListsInOrder(e, a) /\ ReceivedInv(a, e) /\ RoundInv(e)
    BY <1>2, Neighbours DEF ExchangeInv
  <2>2. e \in Domain /\ e # a /\ <<e, a>> \in Adjacent /\ <<a, e>> \in Adjacent
    BY Neighbours
  <2>3. TypeOK
    BY DEF ExchangeInv
  <2>4. LengthsInOrder(e, a)' /\ ReceivedInv(a, e)'
    BY <2>1 DEF BufferList, LengthsInOrder, LengthsRead, ReceivedInv, Started
  <2>5. /\ Len(lists'[<<e, a>>]) = Len(lists[<<e, a>>])
        /\ \A i \in 1 .. Len(lists[<<e, a>>]) :
             /\ Content(e, lists'[<<e, a>>][i]) = Content(e, lists[<<e, a>>][i])
             /\ lists'[<<e, a>>][i].live => lists[<<e, a>>][i].live
    <3>1. CASE <<e, a>> = <<d, b>>
      <4>1. lists'[<<e, a>>] =
              [i \in DOMAIN lists[<<e, a>>] |->
                 [live |-> FALSE, list |-> Content(e, lists[<<e, a>>][i])]]
        BY <2>2, <2>3, <3>1 DEF BufferList, TypeOK
      <4>2. DOMAIN lists[<<e, a>>] = 1 .. Len(lists[<<e, a>>])
            /\ Len(lists[<<e, a>>]) \in Nat
        BY <2>3, PairTyped
      <4> QED BY <4>1, <4>2 DEF Content
    <3>2. CASE <<e, a>> # <<d, b>>
      BY <2>2, <2>3, <3>2 DEF BufferList, TypeOK
    <3> QED BY <3>1, <3>2
  <2>6. ListsInOrder(e, a)'
    <3>1. /\ ListsRead(a, e)' = ListsRead(a, e) /\ ListsSent(e)' = ListsSent(e)
          /\ sent' = sent /\ pc' = pc /\ opList' = opList
      BY DEF BufferList, ListsRead, ListsSent, Started
    <3>2. /\ ListsRead(a, e) + Len(lists'[<<e, a>>]) = ListsSent(e)
          /\ \A i \in 1 .. Len(lists'[<<e, a>>]) :
               /\ Content(e, lists'[<<e, a>>][i]) = sent[e][ListsRead(a, e) + i]
               /\ lists'[<<e, a>>][i].live => pc[e] = "lists" /\ i = Len(lists'[<<e, a>>])
      BY <2>1, <2>5 DEF ListsInOrder
    <3> QED BY <3>1, <3>2 DEF ListsInOrder, Content
  <2> QED BY <2>4, <2>6
<1> QED BY <1>1, <1>2 DEF ExchangeInv

(* When all sends have completed nothing is sent from opListBuf.           *)
LEMMA ReturnsStep ==
  ASSUME ExchangeInv, TypeOK', NEW d \in Domain, CommSendRemeshReturns(d)
  PROVE  ExchangeInv'
<1>1. ASSUME NEW a \in Domain PROVE RoundInv(a)'
  BY DEF ExchangeInv, TypeOK, CommSendRemeshReturns, RoundInv, Started
<1>2. ASSUME NEW a \in Domain, NEW e \in RemoteDomains(a)
      PROVE  (LengthsInOrder(e, a) /\ ListsInOrder(e, a) /\ ReceivedInv(a, e))'
  <2>1. LengthsInOrder(e, a) /\ ListsInOrder(e, a) /\ ReceivedInv(a, e) /\ RoundInv(e)
    BY <1>2, Neighbours DEF ExchangeInv
  <2>2. e \in Domain /\ e # a /\ <<e, a>> \in Adjacent /\ <<a, e>> \in Adjacent
        /\ a \in RemoteDomains(e)
    BY Neighbours
  <2>3. TypeOK
    BY DEF ExchangeInv
  <2>4. /\ sent' = sent /\ opList' = opList /\ lengths' = lengths /\ lists' = lists
        /\ inBuf' = inBuf /\ inBufLen' = inBufLen /\ posted' = posted
        /\ posted[d] = {} /\ pc[d] = "lists" /\ pc'[d] = "fix"
        /\ \A x \in Domain \ {d} : pc'[x] = pc[x]
    BY <2>3 DEF CommSendRemeshReturns, AllReceived, TypeOK
  <2>5. /\ LengthsRead(a, e)' = LengthsRead(a, e) /\ ListsRead(a, e)' = ListsRead(a, e)
        /\ ListsSent(e)' = ListsSent(e) /\ Started(e)' = Started(e)
        /\ Started(a)' = Started(a)
    BY <2>2, <2>4 DEF LengthsRead, ListsRead, ListsSent, Started
  <2>6. LengthsInOrder(e, a)' /\ ReceivedInv(a, e)'
    BY <2>1, <2>2, <2>4, <2>5 DEF LengthsInOrder, ReceivedInv
  <2>7. \A i \in 1 .. Len(lists[<<e, a>>]) : lists[<<e, a>>][i].live => e # d
    <3>1. CASE e = d
      <4>1. ~Live(<<e, a>>)
        BY <2>2, <3>1 DEF CommSendRemeshReturns, AllSent
      <4> QED BY <2>3, <4>1, PairTyped DEF Live
    <3> QED BY <3>1
  <2>8. ListsInOrder(e, a)'
    BY <2>1, <2>2, <2>4, <2>5, <2>7 DEF ListsInOrder, Content
  <2> QED BY <2>6, <2>8
<1> QED BY <1>1, <1>2 DEF ExchangeInv

(* Clearing opListBuf changes no list under way.                           *)
LEMMA FixRemeshStep ==
  ASSUME ExchangeInv, TypeOK', NEW d \in Domain, FixRemesh(d)
  PROVE  ExchangeInv'
<1>1. ASSUME NEW a \in Domain PROVE RoundInv(a)'
  <2>1. RoundInv(a) /\ TypeOK
    BY <1>1 DEF ExchangeInv
  <2>2. CASE a = d
    <3> DEFINE delivery == [e \in RemoteDomains(d) |-> inBuf[<<d, e>>]]
    <3>1. got'[d] = Append(got[d], delivery) /\ pc'[d] = "work" /\ sent' = sent
          /\ pc[d] = "fix"
      BY <2>1 DEF FixRemesh, TypeOK
    <3>2. delivery \in Delivery(d) /\ got[d] \in Seq(Delivery(d)) /\ sent[d] \in Seq(Seq(Op))
      BY <2>1, Neighbours DEF TypeOK, Delivery
    <3> HIDE DEF delivery
    <3>3. Len(got'[d]) = Len(got[d]) + 1 /\ Len(got[d]) \in Nat /\ Len(sent[d]) \in Nat
      BY <3>1, <3>2
    <3> QED BY <2>1, <2>2, <3>1, <3>3 DEF RoundInv, Started
  <2>3. CASE a # d
    BY <2>1, <2>3 DEF FixRemesh, RoundInv, Started, TypeOK
  <2> QED BY <2>2, <2>3
<1>2. ASSUME NEW a \in Domain, NEW e \in RemoteDomains(a)
      PROVE  (LengthsInOrder(e, a) /\ ListsInOrder(e, a) /\ ReceivedInv(a, e))'
  <2>1. LengthsInOrder(e, a) /\ ListsInOrder(e, a) /\ ReceivedInv(a, e) /\ RoundInv(e)
    BY <1>2, Neighbours DEF ExchangeInv
  <2>2. e \in Domain /\ e # a /\ <<e, a>> \in Adjacent /\ <<a, e>> \in Adjacent
        /\ a \in RemoteDomains(e)
    BY Neighbours
  <2>3. TypeOK
    BY DEF ExchangeInv
  <2>4. /\ sent' = sent /\ lengths' = lengths /\ lists' = lists
        /\ inBufLen' = inBufLen /\ posted' = posted
        /\ pc[d] = "fix" /\ pc'[d] = "work" /\ posted[d] = {}
        /\ \A x \in Domain \ {d} : pc'[x] = pc[x] /\ opList'[x] = opList[x]
    BY <2>3 DEF FixRemesh, TypeOK
  <2>5. /\ LengthsRead(a, e)' = LengthsRead(a, e) /\ ListsRead(a, e)' = ListsRead(a, e)
        /\ ListsSent(e)' = ListsSent(e) /\ Started(e)' = Started(e)
        /\ Started(a)' = Started(a)
    BY <2>2, <2>4 DEF LengthsRead, ListsRead, ListsSent, Started
  <2>6. LengthsInOrder(e, a)'
    BY <2>1, <2>4, <2>5 DEF LengthsInOrder
  <2>7. ReceivedInv(a, e)'
    <3>1. CASE a = d
      BY <2>4, <3>1 DEF ReceivedInv
    <3>2. CASE a # d
      <4>1. inBuf'[<<a, e>>] = inBuf[<<a, e>>]
        BY <2>2, <2>3, <3>2 DEF FixRemesh, TypeOK
      <4> QED BY <2>1, <2>4, <2>5, <3>2, <4>1 DEF ReceivedInv
    <3> QED BY <3>1, <3>2
  <2>8. ListsInOrder(e, a)'
    BY <2>1, <2>2, <2>4, <2>5 DEF ListsInOrder, Content
  <2> QED BY <2>6, <2>7, <2>8
<1> QED BY <1>1, <1>2 DEF ExchangeInv

(* Stuttering changes nothing.                                             *)
LEMMA StutterStep == ASSUME ExchangeInv, UNCHANGED vars PROVE ExchangeInv'
<1>1. TypeOK'
  BY TypeStep DEF ExchangeInv
<1>2. ASSUME NEW d \in Domain PROVE RoundInv(d)'
  BY DEF vars, ExchangeInv, RoundInv, Started
<1>3. ASSUME NEW d \in Domain, NEW e \in RemoteDomains(d)
      PROVE  (LengthsInOrder(e, d) /\ ListsInOrder(e, d) /\ ReceivedInv(d, e))'
  <2>1. LengthsInOrder(e, d) /\ ListsInOrder(e, d) /\ ReceivedInv(d, e)
    BY <1>3 DEF ExchangeInv
  <2>2. LengthsInOrder(e, d)' /\ ReceivedInv(d, e)'
    BY <2>1 DEF vars, LengthsInOrder, ReceivedInv, LengthsRead, Started
  <2>3. ListsInOrder(e, d)'
    BY <2>1 DEF vars, ListsInOrder, ListsRead, ListsSent, Started, Content
  <2> QED BY <2>2, <2>3
<1> QED BY <1>1, <1>2, <1>3 DEF ExchangeInv

(* Every step preserves the invariant.                                     *)
LEMMA InvStep == ExchangeInv /\ [Next]_vars => ExchangeInv'
<1> SUFFICES ASSUME ExchangeInv, [Next]_vars PROVE ExchangeInv'
  OBVIOUS
<1>1. TypeOK'
  BY TypeStep DEF ExchangeInv
<1> QED BY <1>1, LogOpStep, SendLengthsStep, SendListsStep, ReceiveLengthStep,
           ReceiveListStep, BufferListStep, ReturnsStep, FixRemeshStep, StutterStep
        DEF Next, DomainStep, Receive, Proceed, Finished

(* ExchangeInvariant: the messages under way are always the part of the    *)
(* senders' histories that has not been read, in order.                    *)
THEOREM ExchangeInvariant == Spec => []ExchangeInv
BY InvInit, InvStep, PTL DEF Spec

(* ListsFit: for any number of domains and rounds, a list has the length   *)
(* that was announced for it when it arrives.                              *)
THEOREM ListsFit == Spec => []ListFitsBuffer
<1>1. ExchangeInv => ListFitsBuffer
  BY AdjacentDomains DEF ExchangeInv, ReceivedInv, ListFitsBuffer
<1> QED BY <1>1, ExchangeInvariant, PTL
-----------------------------------------------------------------------------
(* Every state of the exchange is one of RoundExchange, and every step one *)
(* of its steps or a stutter.                                              *)
LEMMA AbstractInit == Init => Abstract!Init
BY DEF Init, Abstract!Init

LEMMA AbstractStep == ExchangeInv /\ [Next]_vars => [Abstract!Next]_<<opList, sent, got>>
<1> SUFFICES ASSUME ExchangeInv, [Next]_vars
             PROVE  [Abstract!Next]_<<opList, sent, got>>
  OBVIOUS
<1> USE DEF Abstract!RemoteDomains, RemoteDomains
<1>1. TypeOK /\ \A d \in Domain : RoundInv(d)
  BY DEF ExchangeInv
<1>2. ASSUME NEW d \in Domain, NEW op \in Op, LogOp(d, op)
      PROVE  Abstract!LogOp(d, op)
  BY <1>1, <1>2 DEF LogOp, Abstract!LogOp, Abstract!AtWork, RoundInv, Started
<1>3. ASSUME NEW d \in Domain, SendLengths(d)
      PROVE  Abstract!CommSendRemesh(d)
  BY <1>1, <1>3 DEF SendLengths, Abstract!CommSendRemesh, Abstract!AtWork, RoundInv, Started
<1>4. ASSUME NEW d \in Domain, FixRemesh(d)
      PROVE  Abstract!FixRemesh(d)
  <2>1. Len(got[d]) < Len(sent[d])
    <3>1. Len(sent[d]) \in Nat
      BY <1>1 DEF TypeOK
    <3> QED BY <1>1, <1>4, <3>1 DEF FixRemesh, RoundInv, Started
  <2>2. ASSUME NEW e \in RemoteDomains(d)
        PROVE  Len(sent[e]) >= Len(sent[d]) /\ inBuf[<<d, e>>] = sent[e][Len(sent[d])]
    <3>1. LengthsInOrder(e, d) /\ ReceivedInv(d, e)
      BY <2>2 DEF ExchangeInv
    <3>2. Started(d) \in Nat /\ Started(e) \in Nat /\ Len(lengths[<<e, d>>]) \in Nat
      BY <1>1, PairTyped
    <3>3. Started(d) + Len(lengths[<<e, d>>]) = Started(e)
      BY <1>4, <3>1 DEF FixRemesh, LengthsInOrder, LengthsRead
    <3>4. Started(e) >= Started(d)
      BY <3>2, <3>3
    <3>5. inBuf[<<d, e>>] = sent[e][Started(d)]
      BY <1>4, <3>1 DEF FixRemesh, ReceivedInv
    <3> QED BY <3>4, <3>5 DEF Started
  <2>3. got' = [got EXCEPT ![d] =
                  Append(@, [e \in RemoteDomains(d) |-> sent[e][Len(sent[d])]])]
    BY <1>4, <2>2 DEF FixRemesh
  <2> QED BY <1>4, <2>1, <2>2, <2>3 DEF FixRemesh, Abstract!FixRemesh
<1>5. ASSUME NEW d \in Domain,
             \/ SendLists(d) \/ CommSendRemeshReturns(d) \/ Receive(d)
             \/ \E e \in RemoteDomains(d) : BufferList(d, e)
      PROVE  UNCHANGED <<opList, sent, got>>
  BY <1>5 DEF SendLists, CommSendRemeshReturns, Receive, ReceiveLength, ReceiveList,
              BufferList
<1>6. CASE UNCHANGED vars
  BY <1>6 DEF vars
<1> QED BY <1>2, <1>3, <1>4, <1>5, <1>6
        DEF Next, DomainStep, Proceed, Finished, Abstract!Next

(* RoundsAreDelivered: for any number of domains, any neighbourhood and    *)
(* any number of rounds, two messages and two waits implement the exchange *)
(* of whole lists round by round.                                          *)
THEOREM RoundsAreDelivered == Spec => IsRoundExchange
<1>1. Spec => [][Abstract!Next]_<<opList, sent, got>>
  BY ExchangeInvariant, AbstractStep, PTL DEF Spec
<1> QED BY <1>1, AbstractInit, PTL DEF Spec, IsRoundExchange, Abstract!Spec
-----------------------------------------------------------------------------
(* Who may change a segment. *)

Tag == Nat \X Nat

(* OneOwner: of the two domains of a crossing segment exactly one may      *)
(* change it, in every class of operations and timestep (DomainOwnsSeg).   *)
THEOREM OneOwner ==
  ASSUME NEW class \in OpClass, NEW cycle \in Nat,
         NEW d \in Nat, NEW e \in Nat, d # e
  PROVE  DomainOwnsSeg(class, cycle, d, e) <=> ~DomainOwnsSeg(class, cycle, e, d)
<1>1. CASE HigherOwns(class, cycle)
  BY <1>1 DEF DomainOwnsSeg
<1>2. CASE ~HigherOwns(class, cycle)
  BY <1>2 DEF DomainOwnsSeg
<1> QED BY <1>1, <1>2

(* The parity of the timestep alternates.                                  *)
LEMMA ParityAlternates ==
  ASSUME NEW cycle \in Nat PROVE Odd(cycle + 1) <=> ~Odd(cycle)
BY DEF Odd

(* OwnershipAlternates: the domain that may not change a crossing segment  *)
(* in this timestep may in the next, so no segment waits for ever.         *)
THEOREM OwnershipAlternates ==
  ASSUME NEW class \in OpClass, NEW cycle \in Nat,
         NEW d \in Nat, NEW e \in Nat, d # e
  PROVE  DomainOwnsSeg(class, cycle + 1, d, e) <=> ~DomainOwnsSeg(class, cycle, d, e)
<1>1. HigherOwns(class, cycle + 1) <=> ~HigherOwns(class, cycle)
  BY ParityAlternates DEF HigherOwns
<1> QED BY <1>1 DEF DomainOwnsSeg

(* RemeshOpposesCollision: within a timestep the domain that remeshes a    *)
(* crossing segment is the one that does not collide or separate it.       *)
THEOREM RemeshOpposesCollision ==
  ASSUME NEW class \in {"separation", "collision"}, NEW cycle \in Nat,
         NEW d \in Nat, NEW e \in Nat, d # e
  PROVE  DomainOwnsSeg("remesh", cycle, d, e) <=> ~DomainOwnsSeg(class, cycle, d, e)
<1>1. HigherOwns("remesh", cycle) <=> ~HigherOwns(class, cycle)
  BY DEF HigherOwns
<1> QED BY <1>1 DEF DomainOwnsSeg

(* Two tags are equal when OrderNodes says so, and swapping them reverses  *)
(* its sign.                                                               *)
LEMMA OrderNodesTotal ==
  ASSUME NEW a \in Tag, NEW b \in Tag
  PROVE  /\ OrderNodes(a, b) \in {-1, 0, 1}
         /\ OrderNodes(b, a) = -OrderNodes(a, b)
         /\ OrderNodes(a, b) = 0 <=> a = b
<1>1. a = <<a[1], a[2]>> /\ a[1] \in Nat /\ a[2] \in Nat
  BY DEF Tag
<1>2. b = <<b[1], b[2]>> /\ b[1] \in Nat /\ b[2] \in Nat
  BY DEF Tag
<1> QED BY <1>1, <1>2 DEF OrderNodes

(* CollisionOrderTotal: CollisionNodeOrder puts any two nodes in one       *)
(* order, the same in every domain, so a pair of segments is considered    *)
(* once.                                                                   *)
THEOREM CollisionOrderTotal ==
  ASSUME NEW cycle \in Nat, NEW a \in Tag, NEW b \in Tag
  PROVE  /\ CollisionNodeOrder(cycle, b, a) = -CollisionNodeOrder(cycle, a, b)
         /\ CollisionNodeOrder(cycle, a, b) = 0 <=> a = b
<1>1. /\ OrderNodes(a, b) \in {-1, 0, 1}
      /\ OrderNodes(b, a) = -OrderNodes(a, b)
      /\ OrderNodes(a, b) = 0 <=> a = b
  BY OrderNodesTotal
<1> QED BY <1>1 DEF CollisionNodeOrder

(* CollisionOwnerComesFirst: the end of a crossing segment that comes      *)
(* first in CollisionNodeOrder is the owner's, so the segments a domain    *)
(* reaches from its own nodes in that order are the ones it may collide.   *)
THEOREM CollisionOwnerComesFirst ==
  ASSUME NEW cycle \in Nat, NEW a \in Tag, NEW b \in Tag, a[1] # b[1]
  PROVE  DomainOwnsSeg("collision", cycle, a[1], b[1])
           <=> CollisionNodeOrder(cycle, a, b) = -1
<1>1. a[1] \in Nat /\ b[1] \in Nat
  BY DEF Tag
<1>2. HigherOwns("collision", cycle) <=> Odd(cycle)
  BY DEF HigherOwns
<1>3. OrderNodes(a, b) = -1 <=> a[1] < b[1]
  BY <1>1 DEF OrderNodes
<1>4. OrderNodes(a, b) = 1 <=> a[1] > b[1]
  BY <1>1 DEF OrderNodes
<1>5. OrderNodes(a, b) \in {-1, 1}
  BY <1>1 DEF OrderNodes
<1> QED BY <1>1, <1>2, <1>3, <1>4, <1>5 DEF DomainOwnsSeg, CollisionNodeOrder
=============================================================================
