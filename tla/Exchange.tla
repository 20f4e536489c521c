------------------------------- MODULE Exchange -------------------------------
(***************************************************************************)
(* CommSendRemesh.cc: in every round a domain sends its list of operations *)
(* to all its neighbours as two messages, the length and the list, and     *)
(* waits in between and at the end for all of its sends and receives.      *)
(* Both rounds of a timestep use the same tags; messages of one tag        *)
(* between two domains arrive in order.                                    *)
(*                                                                         *)
(* The list for the first neighbour is sent from opListBuf itself, the     *)
(* others from copies.  Until MPI has buffered or delivered that message   *)
(* (live), what is received is whatever opListBuf then holds.              *)
(*                                                                         *)
(* Mutants (see the README): NoWait, OneReceived, IfAny.                   *)
(***************************************************************************)
EXTENDS Naturals, Sequences

CONSTANTS Domain,
          Adjacent,     \* pairs of domains in each other's remoteDomains
          Op,           \* operations
          Rounds,       \* exchanges in a run
          MaxOps,       \* bound on the operations of one round
          Eager         \* domains whose messages MPI buffers; the sends of
                        \* the others complete only when they are received

ASSUME AdjacentAssumption ==
  /\ Adjacent \subseteq Domain \X Domain
  /\ \A p \in Adjacent : p[1] # p[2] /\ <<p[2], p[1]>> \in Adjacent
ASSUME BoundsAssumption == Rounds \in Nat /\ MaxOps \in Nat
ASSUME EagerAssumption == Eager \subseteq Domain

RemoteDomains(d) == {e \in Domain : <<d, e>> \in Adjacent}
FirstRemote(d)   == CHOOSE e \in RemoteDomains(d) : TRUE

VARIABLES
  opList,     \* opListBuf
  sent, got,  \* history: lists sent and replayed, by round
  pc,         \* "work", or the message a domain waits for, or "fix"
  posted,     \* posted[d]: neighbours whose message d still waits for
  inBufLen, inBuf,  \* what has been received, per <<receiver, sender>>
  lengths, lists    \* messages under way, per <<from, to>>

vars == <<opList, sent, got, pc, posted, inBufLen, inBuf, lengths, lists>>

Init ==
  /\ opList = [d \in Domain |-> <<>>]
  /\ sent = [d \in Domain |-> <<>>] /\ got = [d \in Domain |-> <<>>]
  /\ pc = [d \in Domain |-> "work"] /\ posted = [d \in Domain |-> {}]
  /\ inBufLen = [p \in Adjacent |-> 0] /\ inBuf = [p \in Adjacent |-> <<>>]
  /\ lengths = [p \in Adjacent |-> <<>>] /\ lists = [p \in Adjacent |-> <<>>]

(* An operation is added to the list (AddOp of RemoteOps.cc).              *)
LogOp(d, op) ==
  /\ pc[d] = "work" /\ Len(sent[d]) < Rounds /\ Len(opList[d]) < MaxOps
  /\ opList' = [opList EXCEPT ![d] = Append(@, op)]
  /\ UNCHANGED <<sent, got, pc, posted, inBufLen, inBuf, lengths, lists>>

(* A message is sent to all neighbours, whatever the list holds.           *)
IfAny(d) == IF opList[d] = <<>> THEN {} ELSE RemoteDomains(d)
Dests(d) == RemoteDomains(d)

(* Receives are posted for the lengths, and the lengths are sent.          *)
SendLengths(d) ==
  /\ pc[d] = "work" /\ Len(sent[d]) < Rounds
  /\ sent' = [sent EXCEPT ![d] = Append(@, opList[d])]
  /\ lengths' = [p \in Adjacent |->
                   IF p[1] = d /\ p[2] \in Dests(d)
                   THEN Append(lengths[p], Len(opList[d])) ELSE lengths[p]]
  /\ posted' = [posted EXCEPT ![d] = RemoteDomains(d)]
  /\ pc' = [pc EXCEPT ![d] = "lengths"]
  /\ UNCHANGED <<opList, got, inBufLen, inBuf, lists>>

ReceiveLength(d, e) ==
  /\ pc[d] = "lengths" /\ e \in posted[d] /\ lengths[<<e, d>>] # <<>>
  /\ inBufLen' = [inBufLen EXCEPT ![<<d, e>>] = Head(lengths[<<e, d>>])]
  /\ lengths' = [lengths EXCEPT ![<<e, d>>] = Tail(@)]
  /\ posted' = [posted EXCEPT ![d] = @ \ {e}]
  /\ UNCHANGED <<opList, sent, got, pc, inBuf, lists>>

(* MPI_Waitall on the receives, and on the sends: these complete when the  *)
(* message is received or, of an eager domain, when MPI has buffered it.   *)
OneReceived(d) == posted[d] # RemoteDomains(d)
AllReceived(d) == posted[d] = {}
Live(p) == \E i \in DOMAIN lists[p] : lists[p][i].live
NoWait(d) == TRUE
AllSent(d) ==
  \A e \in RemoteDomains(d) :
    /\ ~Live(<<d, e>>)
    /\ d \notin Eager => lengths[<<d, e>>] = <<>> /\ lists[<<d, e>>] = <<>>

SendLists(d) ==
  /\ pc[d] = "lengths" /\ AllReceived(d) /\ AllSent(d)
  /\ lists' = [p \in Adjacent |->
                 IF p[1] = d /\ p[2] \in Dests(d)
                 THEN Append(lists[p], [live |-> p[2] = FirstRemote(d),
                                        list |-> opList[d]])
                 ELSE lists[p]]
  /\ posted' = [posted EXCEPT ![d] = RemoteDomains(d)]
  /\ pc' = [pc EXCEPT ![d] = "lists"]
  /\ UNCHANGED <<opList, sent, got, inBufLen, inBuf, lengths>>

Content(e, message) == IF message.live THEN opList[e] ELSE message.list

(* MPI copies a message it has not delivered yet.                          *)
BufferList(d, e) ==
  /\ d \in Eager /\ Live(<<d, e>>)
  /\ lists' = [lists EXCEPT ![<<d, e>>] =
                 [i \in DOMAIN @ |-> [live |-> FALSE, list |-> Content(d, @[i])]]]
  /\ UNCHANGED <<opList, sent, got, pc, posted, inBufLen, inBuf, lengths>>

ReceiveList(d, e) ==
  /\ pc[d] = "lists" /\ e \in posted[d] /\ lists[<<e, d>>] # <<>>
  /\ inBuf' = [inBuf EXCEPT ![<<d, e>>] = Content(e, Head(lists[<<e, d>>]))]
  /\ lists' = [lists EXCEPT ![<<e, d>>] = Tail(@)]
  /\ posted' = [posted EXCEPT ![d] = @ \ {e}]
  /\ UNCHANGED <<opList, sent, got, pc, inBufLen, lengths>>

CommSendRemeshReturns(d) ==
  /\ pc[d] = "lists" /\ AllReceived(d) /\ AllSent(d)
  /\ pc' = [pc EXCEPT ![d] = "fix"]
  /\ UNCHANGED <<opList, sent, got, posted, inBufLen, inBuf, lengths, lists>>

(* The lists are replayed and freed; the next phase begins with            *)
(* ClearOpList.                                                            *)
FixRemesh(d) ==
  /\ pc[d] = "fix"
  /\ got' = [got EXCEPT ![d] =
               Append(@, [e \in RemoteDomains(d) |-> inBuf[<<d, e>>]])]
  /\ opList' = [opList EXCEPT ![d] = <<>>]
  /\ inBuf' = [p \in Adjacent |-> IF p[1] = d THEN <<>> ELSE inBuf[p]]
  /\ pc' = [pc EXCEPT ![d] = "work"]
  /\ UNCHANGED <<sent, posted, inBufLen, lengths, lists>>

Receive(d) == \E e \in RemoteDomains(d) : ReceiveLength(d, e) \/ ReceiveList(d, e)
Proceed(d) == \/ SendLengths(d) \/ SendLists(d) \/ CommSendRemeshReturns(d)
              \/ FixRemesh(d)
DomainStep(d) == \/ \E op \in Op : LogOp(d, op)
                 \/ Receive(d) \/ Proceed(d)
                 \/ \E e \in RemoteDomains(d) : BufferList(d, e)
Done == \A d \in Domain : pc[d] = "work" /\ Len(got[d]) = Rounds
Finished == Done /\ UNCHANGED vars

Next == (\E d \in Domain : DomainStep(d)) \/ Finished
Spec == Init /\ [][Next]_vars

(* A domain that can go on does so, and MPI delivers messages for which a  *)
(* receive is posted.                                                      *)
Fairness == \A d \in Domain : WF_vars(Receive(d)) /\ WF_vars(Proceed(d))
FairSpec == Spec /\ Fairness
-----------------------------------------------------------------------------
Message == [live : BOOLEAN, list : Seq(Op)]
Delivery(d) == [RemoteDomains(d) -> Seq(Op)]

(* The types; and no receive is outstanding once CommSendRemesh returns.   *)
TypeOK ==
  /\ opList \in [Domain -> Seq(Op)]
  /\ sent \in [Domain -> Seq(Seq(Op))]
  /\ DOMAIN got = Domain
  /\ \A d \in Domain : got[d] \in Seq(Delivery(d))
  /\ pc \in [Domain -> {"work", "lengths", "lists", "fix"}]
  /\ DOMAIN posted = Domain
  /\ \A d \in Domain :
       /\ posted[d] \subseteq RemoteDomains(d)
       /\ pc[d] \in {"work", "fix"} => posted[d] = {}
  /\ inBufLen \in [Adjacent -> Nat] /\ inBuf \in [Adjacent -> Seq(Op)]
  /\ lengths \in [Adjacent -> Seq(Nat)]
  /\ lists \in [Adjacent -> Seq(Message)]

(* A list has the length announced for it when it arrives: FixRemesh walks *)
(* the buffer up to inBufLen, and a longer message would not fit.          *)
ListFitsBuffer ==
  \A p \in Adjacent :
    \/ pc[p[1]] = "lists" /\ p[2] \notin posted[p[1]]
    \/ pc[p[1]] = "fix"
    => Len(inBuf[p]) = inBufLen[p]

(* The two messages and the waits give every domain, in every round, the   *)
(* lists its neighbours sent in that round, although a fast neighbour may  *)
(* already be sending the next ones.                                       *)
Abstract == INSTANCE RoundExchange
IsRoundExchange == Abstract!Spec

(* No domain waits for ever for a message.                                 *)
ExchangeEnds == <>Done
=============================================================================
