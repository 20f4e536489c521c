----------------------------- MODULE RoundExchange -----------------------------
(***************************************************************************)
(* What an exchange of topological operations promises: in each round a    *)
(* domain receives, from every neighbour, exactly the list of operations   *)
(* that neighbour sent in the same round.  Topology uses the exchange in   *)
(* this form; Exchange shows that CommSendRemesh provides it.              *)
(***************************************************************************)
EXTENDS Naturals, Sequences

CONSTANTS Domain, Adjacent, Op, Rounds, MaxOps

VARIABLES opList,   \* operations logged since the last ClearOpList
          sent,     \* sent[d][r]: the list d sent in round r
          got       \* got[d][r][e]: the list of e that d replayed in round r

RemoteDomains(d) == {e \in Domain : <<d, e>> \in Adjacent}
AtWork(d) == Len(got[d]) = Len(sent[d]) /\ Len(sent[d]) < Rounds

Init ==
  /\ opList = [d \in Domain |-> <<>>]
  /\ sent = [d \in Domain |-> <<>>] /\ got = [d \in Domain |-> <<>>]

LogOp(d, op) ==
  /\ AtWork(d) /\ Len(opList[d]) < MaxOps
  /\ opList' = [opList EXCEPT ![d] = Append(@, op)]
  /\ UNCHANGED <<sent, got>>

CommSendRemesh(d) ==
  /\ AtWork(d)
  /\ sent' = [sent EXCEPT ![d] = Append(@, opList[d])]
  /\ UNCHANGED <<opList, got>>

FixRemesh(d) ==
  /\ Len(got[d]) < Len(sent[d])
  /\ \A e \in RemoteDomains(d) : Len(sent[e]) >= Len(sent[d])
  /\ got' = [got EXCEPT ![d] =
               Append(@, [e \in RemoteDomains(d) |-> sent[e][Len(sent[d])]])]
  /\ opList' = [opList EXCEPT ![d] = <<>>]
  /\ UNCHANGED sent

Next == \E d \in Domain :
          (\E op \in Op : LogOp(d, op)) \/ CommSendRemesh(d) \/ FixRemesh(d)
Spec == Init /\ [][Next]_<<opList, sent, got>>
=============================================================================
