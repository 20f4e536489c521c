---------------------------- MODULE TimestepProofs ----------------------------
(***************************************************************************)
(* Copies of a node stay in step, and all domains accept the same step at  *)
(* the positions that were judged: for any domains, nodes and ghosts, any  *)
(* steps and any number of iterations.                                     *)
(*                                                                         *)
(* Domains decide one after the other, so their variables differ for a     *)
(* while.  What is the same in all domains at all times is a view of them: *)
(* what a domain will have when it has decided (or has begun), or has      *)
(* already.  A step of one domain leaves its view alone; Reduce changes    *)
(* all of them alike.  Positions of known nodes are given by the variables *)
(* a view consists of, until the step is accepted.                         *)
(***************************************************************************)
EXTENDS Timestep, TLAPS

Known(d) == Native(d) \cup Primary[d]

(* Before TrapezoidIntegrator; after a reduction that found errors, or     *)
(* none.                                                                   *)
Early(d) == round[d] = Last \/ (round[d] = Entry /\ pc[d] # "evaluate")
Fails(d) == pc[d] = "decide" /\ global[d] # "none"
Cuts(d) == Fails(d) /\ (global[d] = "mobility" \/ iter[d] = MaxIterations)
Passes(d) == pc[d] = "decide" /\ global[d] = "none"
Accepting(d) == pc[d] = "done" \/ Passes(d)

(* The view of a domain.                                                   *)
Level(d) == IF Early(d) THEN 1
            ELSE IF Fails(d) \/ pc[d] \in {"evaluate", "fatal"} THEN round[d] + 1
            ELSE round[d]
StepView(d) == IF Early(d) THEN Suggested(nextDT[d])
               ELSE IF Cuts(d) THEN newDT[d] \div 2 ELSE newDT[d]
IterView(d) == IF Early(d) \/ Cuts(d) \/ pc[d] = "fatal" THEN 1
               ELSE IF Fails(d) THEN iter[d] + 1 ELSE iter[d]
IncrView(d) == Early(d) \/ (incrDelta[d] /\ ~(Fails(d) /\ global[d] = "position"))
Proposed(dt, incr) == IF incr THEN Least(MaxDT, 2 * dt) ELSE dt
NextView(d) == IF Passes(d) THEN Proposed(newDT[d], incrDelta[d]) ELSE nextDT[d]

SameViews(d, e) ==
  /\ Level(d) = Level(e) /\ StepView(d) = StepView(e)
  /\ IterView(d) = IterView(e) /\ NextView(d) = NextView(e)
  /\ IncrView(d) <=> IncrView(e)
  /\ Accepting(d) <=> Accepting(e)

(* What holds of a domain by itself.                                       *)
ControlInv(d) ==
  /\ round[d] = Last => pc[d] = "evaluate"
  /\ pc[d] = "begin" => round[d] = Entry
  /\ pc[d] \in {"reduce", "decide", "done", "fatal"} => round[d] >= 1
  /\ ~Early(d) => iter[d] >= 1

StepInv(d) ==
  /\ ~Early(d) /\ pc[d] # "fatal" => deltaTT[d] = newDT[d] /\ realDT[d] = newDT[d]
  /\ d = First /\ ~Early(d) /\ pc[d] # "fatal" => newDT[d] >= 1

VelInv(d) ==
  /\ \A n \in Native(d) : vel[d][n] = round[d]
  /\ pc[d] # "receive" => \A n \in Primary[d] : vel[d][n] = round[d]
  /\ round[d] >= Entry => \A n \in Native(d) : mail[d].entry[n] = Entry
  /\ round[d] > Entry => \A n \in Native(d) : mail[d].trial[n] = round[d]
  /\ ~Early(d) => \A n \in Known(d) : currV[d][n] = Entry

OldOf(d, n) == OldVelocity(oldV[d][n], Entry)
PosInv(d) ==
  /\ Early(d) => \A n \in Node : pos[d][n] = AtStart
  /\ ~Early(d) /\ pc[d] # "fatal" => \A n \in Node : pos[d][n].dt = newDT[d]
  /\ ~Early(d) /\ pc[d] \notin {"done", "fatal"} => \A n \in Known(d) :
       pos[d][n] = [curr |-> Entry, dt |-> newDT[d],
                    with |-> IF iter[d] = 1 THEN OldOf(d, n) ELSE Trial(d) - 1]

LocalInv(d) == ControlInv(d) /\ StepInv(d) /\ VelInv(d) /\ PosInv(d)

(* What holds between two domains.                                         *)
PairInv(d, e) ==
  /\ SameViews(d, e)
  /\ Early(d) /\ Early(e) => deltaTT[d] = deltaTT[e]
  /\ pc[d] = "decide" /\ pc[e] = "decide" =>
       global[d] = global[e] /\ iter[d] = iter[e] /\ newDT[d] = newDT[e]
  /\ pc[d] # "done" /\ pc[e] # "done" =>
       \A n \in Known(d) \cap Known(e) : OldOf(d, n) = OldOf(e, n)
  /\ Accepting(d) /\ Accepting(e) =>
       \A n \in Known(d) \cap Known(e) : pos[d][n] = pos[e][n]
  /\ Accepting(d) => ~mobError[e] /\ bad[e] = {}

TimestepInv ==
  /\ TypeOK
  /\ \A d \in Domain : LocalInv(d)
  /\ \A d, e \in Domain : PairInv(d, e)

(* The state of one domain.                                                *)
State(d) == <<pc[d], round[d], iter[d], newDT[d], deltaTT[d], realDT[d], nextDT[d],
              incrDelta[d], vel[d], currV[d], oldV[d], pos[d], mail[d],
              mobError[d], bad[d], global[d]>>
ViewKept(d) ==
  /\ Level(d)' = Level(d) /\ StepView(d)' = StepView(d)
  /\ IterView(d)' = IterView(d) /\ NextView(d)' = NextView(d)
  /\ IncrView(d)' <=> IncrView(d)
  /\ Accepting(d)' <=> Accepting(d)
(* What a step of one domain has to keep for its pairs.                    *)
PairsKept(d) ==
  /\ ViewKept(d)
  /\ Early(d)' => Early(d) /\ deltaTT'[d] = deltaTT[d]
  /\ pc'[d] # "decide"
  /\ pc'[d] # "done" => pc[d] # "done" /\ \A n \in Known(d) : OldOf(d, n)' = OldOf(d, n)
  /\ Accepting(d) => pos'[d] = pos[d] /\ mobError'[d] = mobError[d] /\ bad'[d] = bad[d]
-----------------------------------------------------------------------------
(* The step that is suggested is one that can be taken.                    *)
LEMMA SuggestedStep == \A dt \in Nat : Suggested(dt) \in 1 .. MaxDT
BY StepsAssumption DEF Suggested, Least

(* The proposal for the next timestep is a step.                           *)
LEMMA ProposedStep == \A dt \in Nat : Least(MaxDT, 2 * dt) \in Nat
BY StepsAssumption DEF Least

(* A cut step is a step, or zero.                                          *)
LEMMA HalvedStep == \A dt \in 0 .. MaxDT : dt \div 2 \in 0 .. MaxDT
BY StepsAssumption

(* An old velocity, once it is set, stays.                                 *)
LEMMA OldVelocityIdempotent ==
  \A v \in Int : OldVelocity(v, Entry) \in Int
                 /\ OldVelocity(OldVelocity(v, Entry), Entry) = OldVelocity(v, Entry)
BY DEF OldVelocity, Entry, Unset

(* A primary ghost belongs to another domain, which knows the node.        *)
LEMMA Owners ==
  \A d \in Domain : \A n \in Primary[d] :
    /\ n \in Node /\ NodeDomain[n] \in Domain \ {d}
    /\ n \in Native(NodeDomain[n]) /\ NodeDomain[n] \in Neighbours(d)
BY NodesAssumption DEF Native, Neighbours

LEMMA KnownNodes == \A d \in Domain : Known(d) \subseteq Node /\ Native(d) \subseteq Node
BY NodesAssumption DEF Known, Native
-----------------------------------------------------------------------------
(* What a domain has by itself depends on its state alone.                 *)
LEMMA LocalFrame ==
  ASSUME NEW d \in Domain, LocalInv(d), UNCHANGED State(d)
  PROVE  LocalInv(d)'
<1> USE DEF State, Early, Trial
<1>1. ControlInv(d)' /\ StepInv(d)'
  BY DEF LocalInv, ControlInv, StepInv
<1>2. VelInv(d)'
  BY DEF LocalInv, VelInv
<1>3. PosInv(d)'
  BY DEF LocalInv, PosInv, OldOf
<1> QED BY <1>1, <1>2, <1>3 DEF LocalInv

(* So does its view.                                                       *)
LEMMA ViewFrame ==
  ASSUME NEW d \in Domain, UNCHANGED State(d)
  PROVE  /\ ViewKept(d) /\ (Early(d)' <=> Early(d))
         /\ \A n \in Known(d) : OldOf(d, n)' = OldOf(d, n)
BY DEF State, ViewKept, Early, Fails, Cuts, Passes, Accepting, Level, StepView,
       IterView, IncrView, NextView, OldOf

(* A step of a domain that keeps its view, and what its pairs need.        *)
LEMMA DomainStepKeeps ==
  ASSUME TimestepInv, NEW d \in Domain, TypeOK',
         \A e \in Domain \ {d} : UNCHANGED State(e),
         LocalInv(d)', PairsKept(d)
  PROVE  TimestepInv'
<1>1. ASSUME NEW e \in Domain PROVE LocalInv(e)'
  BY LocalFrame DEF TimestepInv
<1>2. \A e \in Domain : ViewKept(e)
  BY ViewFrame DEF PairsKept
<1>3. \A e \in Domain : Early(e)' => Early(e) /\ deltaTT'[e] = deltaTT[e]
  BY ViewFrame DEF PairsKept, State
<1>4. \A e \in Domain : pc'[e] = "decide" => e # d /\ UNCHANGED State(e)
  BY DEF PairsKept
<1>5. \A e \in Domain : pc'[e] # "done" =>
        pc[e] # "done" /\ \A n \in Known(e) : OldOf(e, n)' = OldOf(e, n)
  BY ViewFrame DEF PairsKept, State
<1>6. \A e \in Domain : Accepting(e) =>
        pos'[e] = pos[e] /\ mobError'[e] = mobError[e] /\ bad'[e] = bad[e]
  BY DEF PairsKept, State
<1>7. ASSUME NEW a \in Domain, NEW b \in Domain PROVE PairInv(a, b)'
  <2>0. PairInv(a, b)
    BY DEF TimestepInv
  <2>1. SameViews(a, b)'
    BY <1>2, <2>0 DEF PairInv, SameViews, ViewKept
  <2>2. (Early(a) /\ Early(b) => deltaTT[a] = deltaTT[b])'
    BY <1>3, <2>0 DEF PairInv
  <2>3. (pc[a] = "decide" /\ pc[b] = "decide" =>
           global[a] = global[b] /\ iter[a] = iter[b] /\ newDT[a] = newDT[b])'
    BY <1>4, <2>0 DEF PairInv, State
  <2>4. (pc[a] # "done" /\ pc[b] # "done" =>
           \A n \in Known(a) \cap Known(b) : OldOf(a, n) = OldOf(b, n))'
    BY <1>5, <2>0 DEF PairInv, Known, Native
  <2>5. Accepting(a)' => Accepting(a) /\ Accepting(b)
    BY <1>2, <2>0 DEF PairInv, SameViews, ViewKept
  <2>6. (Accepting(a) /\ Accepting(b) =>
           \A n \in Known(a) \cap Known(b) : pos[a][n] = pos[b][n])'
    BY <1>6, <2>5, <2>0 DEF PairInv, Known, Native
  <2>7. (Accepting(a) => ~mobError[b] /\ bad[b] = {})'
    BY <1>6, <2>5, <2>0 DEF PairInv
  <2> QED BY <2>1, <2>2, <2>3, <2>4, <2>6, <2>7 DEF PairInv
<1> QED BY <1>1, <1>7 DEF TimestepInv
-----------------------------------------------------------------------------
(* Every copy of a node that is known has the velocity of the evaluation.  *)
LEMMA EvaluateKeeps ==
  ASSUME TimestepInv, NEW d \in Domain, Evaluate(d)
  PROVE  TimestepInv'
<1> USE DEF Evaluate, Goto, dtVars
<1>0. /\ LocalInv(d) /\ TypeOK
      /\ pc[d] = "evaluate" /\ pc' = [pc EXCEPT ![d] = "receive"]
      /\ round[d] \in Int /\ round' = [round EXCEPT ![d] = round[d] + 1]
      /\ round[d] >= Last
  BY DEF TimestepInv, TypeOK
<1>1. TypeOK'
  <2>1. vel' \in [Domain -> [Node -> Int]]
    BY <1>0 DEF TypeOK
  <2>2. mail' \in [Domain -> [entry : [Node -> Int], trial : [Node -> Int]]]
    <3> DEFINE Mail == [entry : [Node -> Int], trial : [Node -> Int]]
    <3>1. mail \in [Domain -> Mail] /\ vel'[d] \in [Node -> Int]
      BY <1>0, <2>1 DEF TypeOK
    <3>2. [mail[d] EXCEPT !.entry = vel'[d]] \in Mail /\ [mail[d] EXCEPT !.trial = vel'[d]] \in Mail
      BY <3>1
    <3>3. \E m \in Mail : mail' = [mail EXCEPT ![d] = m]
      BY <3>1, <3>2
    <3> HIDE DEF Mail
    <3>4. mail' \in [Domain -> Mail]
      BY <3>1, <3>3
    <3> QED BY <3>4 DEF Mail
  <2>3. pc' \in [Domain -> Labels] /\ round' \in [Domain -> Int]
        /\ \A e \in Domain : round'[e] >= Last
    BY <1>0 DEF TypeOK, Labels, Last
  <2>4. mobError' \in [Domain -> BOOLEAN] /\ bad' \in [Domain -> SUBSET Node]
    BY <1>0 DEF TypeOK
  <2>5. \A e \in Domain : pc'[e] = "fatal" => e = First /\ newDT'[e] = 0
    BY <1>0 DEF TypeOK
  <2> QED BY <1>0, <2>1, <2>2, <2>3, <2>4, <2>5 DEF TypeOK
<1>2. \A e \in Domain \ {d} : UNCHANGED State(e)
  BY <1>0 DEF State, TypeOK
<1>3. pc'[d] = "receive" /\ round'[d] = round[d] + 1 /\ Trial(d)' = Trial(d)
      /\ (Early(d)' <=> Early(d))
  BY <1>0 DEF TypeOK, Early, Trial, Last, Entry
<1>4. PairsKept(d)
  <2>1. ViewKept(d)
    BY <1>0, <1>3 DEF ViewKept, Level, StepView, IterView, IncrView, NextView,
       Accepting, Fails, Cuts, Passes
  <2>2. \A n \in Known(d) : OldOf(d, n)' = OldOf(d, n)
    BY DEF OldOf
  <2> QED BY <1>0, <1>3, <2>1, <2>2 DEF PairsKept, Accepting, Passes
<1>5. LocalInv(d)'
  <2>1. ControlInv(d)' /\ StepInv(d)'
    BY <1>0, <1>3 DEF LocalInv, ControlInv, StepInv, Last, Entry
  <2>2. \A n \in Native(d) : n \in Node /\ vel'[d][n] = round'[d]
    BY <1>0, KnownNodes DEF TypeOK
  <2>3. /\ round'[d] = Entry => \A n \in Native(d) : mail'[d].entry[n] = Entry
        /\ round'[d] # Entry =>
             mail'[d].entry = mail[d].entry /\ \A n \in Native(d) : mail'[d].trial[n] = round'[d]
    BY <1>0, <2>2 DEF TypeOK
  <2>4. VelInv(d)'
    BY <1>0, <1>3, <2>2, <2>3 DEF LocalInv, VelInv, Native, Known, Last, Entry
  <2>5. PosInv(d)'
    BY <1>0, <1>3 DEF LocalInv, PosInv, OldOf, Known, Native
  <2> QED BY <2>1, <2>4, <2>5 DEF LocalInv
<1> QED BY <1>1, <1>2, <1>4, <1>5, DomainStepKeeps

(* The message of a neighbour is of the same evaluation.                   *)
LEMMA ReceiveKeeps ==
  ASSUME TimestepInv, NEW d \in Domain, Receive(d)
  PROVE  TimestepInv'
<1> USE DEF Receive, Goto, dtVars
<1>0. /\ LocalInv(d) /\ TypeOK
      /\ pc[d] = "receive" /\ pc' = [pc EXCEPT ![d] = IF round[d] = Entry THEN "begin" ELSE "reduce"]
      /\ round[d] \in Int /\ round[d] >= Last /\ round' = round
  BY DEF TimestepInv, TypeOK
<1>1. TypeOK'
  <2>1. \A n \in Primary[d] : Message(d, NodeDomain[n])[n] \in Int
    BY <1>0, Owners DEF TypeOK, Message
  <2>2. vel' \in [Domain -> [Node -> Int]]
    BY <1>0, <2>1 DEF TypeOK
  <2>3. bad' \in [Domain -> SUBSET Node]
    <3>1. bad \in [Domain -> SUBSET Node] /\ Native(d) \subseteq Node
      BY <1>0, KnownNodes DEF TypeOK
    <3>2. bad' = bad \/ \E nodes \in SUBSET Node : bad' = [bad EXCEPT ![d] = nodes]
      BY <3>1
    <3> QED BY <3>1, <3>2
  <2>4. pc' \in [Domain -> Labels]
    BY <1>0 DEF TypeOK, Labels
  <2>5. \A e \in Domain : pc'[e] = "fatal" => e = First /\ newDT'[e] = 0
    BY <1>0 DEF TypeOK
  <2> QED BY <1>0, <2>2, <2>3, <2>4, <2>5 DEF TypeOK
<1>2. \A e \in Domain \ {d} : UNCHANGED State(e)
  BY <1>0 DEF State, TypeOK
<1>3. pc'[d] \in {"begin", "reduce"} /\ (pc'[d] = "begin" <=> round[d] = Entry)
      /\ Trial(d)' = Trial(d) /\ (Early(d)' <=> Early(d)) /\ round[d] >= Entry
      /\ (round[d] # Entry => ~Early(d) /\ round[d] >= 1 /\ Level(d) = round[d])
  BY <1>0 DEF TypeOK, Early, Trial, Last, Entry, LocalInv, ControlInv, Level, Fails
<1>4. PairsKept(d)
  <2>1. ViewKept(d)
    BY <1>0, <1>3 DEF ViewKept, Level, StepView, IterView, IncrView, NextView,
       Accepting, Fails, Cuts, Passes
  <2>2. \A n \in Known(d) : OldOf(d, n)' = OldOf(d, n)
    BY DEF OldOf
  <2> QED BY <1>0, <1>3, <2>1, <2>2 DEF PairsKept, Accepting, Passes
<1>5. ASSUME NEW n \in Primary[d] PROVE Message(d, NodeDomain[n])[n] = round[d]
  <2> DEFINE o == NodeDomain[n]
  <2>1. o \in Domain /\ n \in Native(o) /\ round[o] >= round[d] /\ round[o] \in Int
    BY <1>0, Owners DEF TypeOK
  <2>2. Level(o) = Level(d) /\ VelInv(o)
    BY <2>1 DEF TimestepInv, PairInv, SameViews, LocalInv
  <2>3. CASE round[d] = Entry
    BY <2>1, <2>2, <2>3 DEF VelInv, Message
  <2>4. CASE round[d] # Entry
    <3>1. round[o] = round[d]
      BY <1>0, <1>3, <2>1, <2>2, <2>4 DEF Level, Early, Last, Entry
    <3> QED BY <1>3, <2>1, <2>2, <2>4, <3>1 DEF VelInv, Message, Entry
  <2> QED BY <2>3, <2>4
<1>6. LocalInv(d)'
  <2>1. ControlInv(d)' /\ StepInv(d)'
    BY <1>0, <1>3 DEF LocalInv, ControlInv, StepInv, Last, Entry
  <2>2. \A n \in Primary[d] : n \in Node /\ vel'[d][n] = round[d]
    BY <1>0, <1>5, Owners DEF TypeOK
  <2>3. \A n \in Native(d) : vel'[d][n] = vel[d][n]
    BY <1>0, KnownNodes, NodesAssumption DEF TypeOK, Native
  <2>4. VelInv(d)'
    BY <1>0, <1>3, <2>2, <2>3 DEF LocalInv, VelInv, Native, Known, Last, Entry
  <2>5. PosInv(d)'
    BY <1>0, <1>3 DEF LocalInv, PosInv, OldOf, Known, Native
  <2> QED BY <2>1, <2>4, <2>5 DEF LocalInv
<1> QED BY <1>1, <1>2, <1>4, <1>6, DomainStepKeeps
-----------------------------------------------------------------------------
(* The positions of Advance_Nodes have a type.                             *)
LEMMA AdvanceTyped ==
  ASSUME NEW d \in Domain, TypeOK, Advance(d),
         currV' \in [Domain -> [Node -> Int]], deltaTT' \in [Domain -> 0 .. MaxDT]
  PROVE  /\ oldV' \in [Domain -> [Node -> Int]]
         /\ pos' \in [Domain -> [Node -> Position]]
<1>1. \A old, curr \in Int : OldVelocity(old, curr) \in Int
  BY DEF OldVelocity
<1>2. \A old, curr \in Int, dt \in 0 .. MaxDT : Advanced(curr, old, dt) \in Position
  BY <1>1, StepsAssumption DEF Advanced, Position
<1>3. oldV' \in [Domain -> [Node -> Int]]
  <2>1. [n \in Node |-> OldVelocity(oldV[d][n], currV'[d][n])] \in [Node -> Int]
    BY <1>1 DEF TypeOK
  <2> QED BY <2>1 DEF Advance, TypeOK
<1>4. [n \in Node |-> Advanced(currV'[d][n], oldV[d][n], deltaTT'[d])] \in [Node -> Position]
  BY <1>2 DEF TypeOK
<1>5. pos' \in [Domain -> [Node -> Position]]
  BY <1>4 DEF Advance, TypeOK
<1> QED BY <1>3, <1>5

(* They are what PosInv says of an attempt, and the old velocity of a node *)
(* is the same afterwards.                                                 *)
LEMMA AdvancePositions ==
  ASSUME NEW d \in Domain, TypeOK, Advance(d),
         \A n \in Known(d) : currV'[d][n] = Entry
  PROVE  /\ \A n \in Node : pos'[d][n].dt = deltaTT'[d]
         /\ \A n \in Known(d) :
              /\ OldOf(d, n)' = OldOf(d, n)
              /\ pos'[d][n] = [curr |-> Entry, dt |-> deltaTT'[d], with |-> OldOf(d, n)]
<1>1. \A n \in Node :
        /\ oldV'[d][n] = OldVelocity(oldV[d][n], currV'[d][n]) /\ oldV[d][n] \in Int
        /\ pos'[d][n] = Advanced(currV'[d][n], oldV[d][n], deltaTT'[d])
  BY DEF Advance, TypeOK
<1>2. \A n \in Node : pos'[d][n].dt = deltaTT'[d]
  <2>1. \A curr, old, dt : Advanced(curr, old, dt).dt = dt
    BY DEF Advanced
  <2> QED BY <1>1, <2>1
<1>3. ASSUME NEW n \in Known(d)
      PROVE  /\ OldOf(d, n)' = OldOf(d, n)
             /\ pos'[d][n] = [curr |-> Entry, dt |-> deltaTT'[d], with |-> OldOf(d, n)]
  <2>1. n \in Node
    BY KnownNodes
  <2> QED BY <2>1, <1>1, OldVelocityIdempotent DEF OldOf, Advanced
<1> QED BY <1>2, <1>3

(* An attempt begins.                                                      *)
LEMMA BeginKeeps ==
  ASSUME TimestepInv, NEW d \in Domain, Begin(d)
  PROVE  TimestepInv'
<1>0. /\ LocalInv(d) /\ TypeOK /\ Advance(d)
      /\ pc[d] = "begin" /\ pc' = [pc EXCEPT ![d] = "evaluate"]
      /\ round' = round /\ round[d] = Entry
      /\ iter' = [iter EXCEPT ![d] = 1] /\ nextDT' = nextDT
      /\ newDT' = [newDT EXCEPT ![d] = Suggested(nextDT[d])]
      /\ deltaTT' = [deltaTT EXCEPT ![d] = newDT'[d]]
      /\ realDT' = [realDT EXCEPT ![d] = newDT'[d]]
      /\ incrDelta' = [incrDelta EXCEPT ![d] = TRUE]
      /\ currV' = [currV EXCEPT ![d] = vel[d]]
      /\ vel' = vel /\ mail' = mail
      /\ mobError' = mobError /\ bad' = bad /\ global' = global
  BY DEF TimestepInv, LocalInv, ControlInv, Begin, Goto, errVars
<1>1. TypeOK'
  <2>1. Suggested(nextDT[d]) \in 0 .. MaxDT
    BY <1>0, SuggestedStep DEF TypeOK
  <2>2. newDT' \in [Domain -> 0 .. MaxDT] /\ deltaTT' \in [Domain -> 0 .. MaxDT]
        /\ realDT' \in [Domain -> 0 .. MaxDT]
    BY <1>0, <2>1 DEF TypeOK
  <2>3. currV' \in [Domain -> [Node -> Int]]
    BY <1>0 DEF TypeOK
  <2>4. oldV' \in [Domain -> [Node -> Int]] /\ pos' \in [Domain -> [Node -> Position]]
    BY <1>0, <2>2, <2>3, AdvanceTyped
  <2>5. pc' \in [Domain -> Labels] /\ iter' \in [Domain -> 0 .. MaxIterations]
        /\ incrDelta' \in [Domain -> BOOLEAN]
    BY <1>0, StepsAssumption DEF TypeOK, Labels
  <2>6. \A e \in Domain : pc'[e] = "fatal" => e = First /\ newDT'[e] = 0
    BY <1>0 DEF TypeOK
  <2> QED BY <1>0, <2>2, <2>3, <2>4, <2>5, <2>6 DEF TypeOK
<1>2. \A e \in Domain \ {d} : UNCHANGED State(e)
  BY <1>0 DEF State, TypeOK, Advance
<1>3. /\ pc'[d] = "evaluate" /\ round'[d] = Entry /\ iter'[d] = 1
      /\ newDT'[d] = Suggested(nextDT[d]) /\ newDT'[d] \in 1 .. MaxDT
      /\ deltaTT'[d] = newDT'[d] /\ realDT'[d] = newDT'[d]
      /\ nextDT'[d] = nextDT[d] /\ incrDelta'[d] = TRUE /\ currV'[d] = vel[d]
      /\ Early(d) /\ ~Early(d)'
  BY <1>0, SuggestedStep DEF TypeOK, Early, Entry, Last
<1>4. \A n \in Known(d) : currV'[d][n] = Entry
  BY <1>0, <1>3 DEF LocalInv, VelInv, Known
<1>5. /\ \A n \in Node : pos'[d][n].dt = newDT'[d]
      /\ \A n \in Known(d) :
           /\ OldOf(d, n)' = OldOf(d, n)
           /\ pos'[d][n] = [curr |-> Entry, dt |-> newDT'[d], with |-> OldOf(d, n)]
  BY <1>0, <1>3, <1>4, AdvancePositions
<1>6. PairsKept(d)
  <2>1. ~Fails(d)' /\ ~Cuts(d)' /\ ~Passes(d)' /\ ~Passes(d) /\ ~Accepting(d) /\ ~Accepting(d)'
    BY <1>0, <1>3 DEF Accepting, Fails, Cuts, Passes
  <2>2. Level(d)' = Level(d) /\ StepView(d)' = StepView(d) /\ IterView(d)' = IterView(d)
    BY <1>0, <1>3, <2>1 DEF Level, StepView, IterView, Entry
  <2>3. NextView(d)' = NextView(d) /\ (IncrView(d)' <=> IncrView(d))
    BY <1>0, <1>3, <2>1 DEF IncrView, NextView
  <2>4. ViewKept(d)
    BY <2>1, <2>2, <2>3 DEF ViewKept
  <2> QED BY <1>0, <1>3, <1>5, <2>1, <2>4 DEF PairsKept
<1>7. LocalInv(d)'
  <2>1. ControlInv(d)' /\ StepInv(d)'
    BY <1>0, <1>3 DEF ControlInv, StepInv, Last, Entry
  <2>2. VelInv(d)'
    BY <1>0, <1>3, <1>4 DEF LocalInv, VelInv, Native, Known
  <2>3. PosInv(d)'
    BY <1>3, <1>5 DEF PosInv, Native, Known
  <2> QED BY <2>1, <2>2, <2>3 DEF LocalInv
<1> QED BY <1>1, <1>2, <1>6, <1>7, DomainStepKeeps

(* The next iteration: the velocity of the last evaluation is used.        *)
LEMMA IterateKeeps ==
  ASSUME TimestepInv, NEW d \in Domain, Iterate(d)
  PROVE  TimestepInv'
<1>0. /\ LocalInv(d) /\ TypeOK /\ Reposition(d)
      /\ pc[d] = "decide" /\ pc' = [pc EXCEPT ![d] = "evaluate"]
      /\ global[d] = "position" /\ iter[d] < MaxIterations
      /\ iter' = [iter EXCEPT ![d] = iter[d] + 1]
      /\ incrDelta' = [incrDelta EXCEPT ![d] = FALSE]
      /\ round[d] >= 1 /\ ~Early(d) /\ iter[d] >= 1
      /\ UNCHANGED <<round, newDT, deltaTT, realDT, nextDT, vel, currV, oldV, mail,
                     mobError, bad, global>>
  BY DEF TimestepInv, LocalInv, ControlInv, Iterate, Goto, velVars, errVars,
         Early, Last, Entry
<1>1. \A n \in Node : pos'[d][n] = [curr |-> currV[d][n], with |-> vel[d][n], dt |-> newDT[d]]
  BY <1>0 DEF Reposition, Repositioned, TypeOK
<1>2. TypeOK'
  <2>1. [n \in Node |-> [curr |-> currV[d][n], with |-> vel[d][n], dt |-> newDT[d]]]
          \in [Node -> Position]
    BY <1>0, StepsAssumption DEF TypeOK, Position
  <2>2. pos' \in [Domain -> [Node -> Position]]
    BY <1>0, <2>1 DEF Reposition, Repositioned, TypeOK
  <2>3. pc' \in [Domain -> Labels] /\ iter' \in [Domain -> 0 .. MaxIterations]
        /\ incrDelta' \in [Domain -> BOOLEAN]
    BY <1>0, StepsAssumption DEF TypeOK, Labels
  <2>4. \A e \in Domain : pc'[e] = "fatal" => e = First /\ newDT'[e] = 0
    BY <1>0 DEF TypeOK
  <2> QED BY <1>0, <2>2, <2>3, <2>4 DEF TypeOK
<1>3. \A e \in Domain \ {d} : UNCHANGED State(e)
  BY <1>0 DEF State, TypeOK, Reposition
<1>4. /\ pc'[d] = "evaluate" /\ round'[d] = round[d] /\ iter'[d] = iter[d] + 1
      /\ incrDelta'[d] = FALSE /\ ~Early(d)' /\ Trial(d)' = round[d] + 1
      /\ round[d] \in Int /\ iter[d] \in Nat
  BY <1>0 DEF TypeOK, Early, Entry, Last, Trial
<1>5. PairsKept(d)
  <2>1. /\ ~Fails(d)' /\ ~Cuts(d)' /\ ~Passes(d)' /\ ~Accepting(d)'
        /\ Fails(d) /\ ~Cuts(d) /\ ~Passes(d) /\ ~Accepting(d)
    BY <1>0, <1>4 DEF Accepting, Fails, Cuts, Passes, TypeOK
  <2>2. Level(d)' = Level(d) /\ StepView(d)' = StepView(d) /\ IterView(d)' = IterView(d)
    BY <1>0, <1>4, <2>1 DEF Level, StepView, IterView
  <2>3. NextView(d)' = NextView(d) /\ (IncrView(d)' <=> IncrView(d))
    BY <1>0, <1>4, <2>1 DEF IncrView, NextView
  <2>4. ViewKept(d)
    BY <2>1, <2>2, <2>3 DEF ViewKept
  <2>5. \A n \in Known(d) : OldOf(d, n)' = OldOf(d, n)
    BY <1>0 DEF OldOf
  <2> QED BY <1>0, <1>4, <2>1, <2>4, <2>5 DEF PairsKept
<1>6. LocalInv(d)'
  <2>1. ControlInv(d)' /\ StepInv(d)'
    BY <1>0, <1>4 DEF LocalInv, ControlInv, StepInv, Last
  <2>2. VelInv(d)'
    BY <1>0, <1>4 DEF LocalInv, VelInv, Native, Known
  <2>3. \A n \in Known(d) : n \in Node /\ currV[d][n] = Entry /\ vel[d][n] = round[d]
    BY <1>0, KnownNodes DEF LocalInv, VelInv, Known
  <2>4. PosInv(d)'
    <3>1. \A n \in Node : pos'[d][n].dt = newDT'[d]
      <4> TAKE n \in Node
      <4>1. pos'[d][n] = [curr |-> currV[d][n], with |-> vel[d][n], dt |-> newDT[d]]
        BY <1>1
      <4>2. pos'[d][n].dt = newDT[d]
        BY ONLY <4>1
      <4> QED BY <4>2, <1>0
    <3>2. \A n \in Known(d) :
            pos'[d][n] = [curr |-> Entry, dt |-> newDT'[d], with |-> Trial(d)' - 1]
      BY <1>0, <1>1, <1>4, <2>3
    <3>3. iter'[d] # 1
      BY <1>0, <1>4
    <3> QED BY <1>4, <3>1, <3>2, <3>3 DEF PosInv, Native, Known
  <2> QED BY <2>1, <2>2, <2>4 DEF LocalInv
<1> QED BY <1>2, <1>3, <1>5, <1>6, DomainStepKeeps

(* A cut step, or the end: what domain 0 gives up is too small to go on.   *)
LEMMA CutKeeps ==
  ASSUME TimestepInv, NEW d \in Domain, CutStep(d)
  PROVE  TimestepInv'
<1> DEFINE half == newDT[d] \div 2
           ends == half < 1 /\ d = First
<1>0. /\ LocalInv(d) /\ TypeOK
      /\ pc[d] = "decide" /\ Fails(d) /\ Cuts(d)
      /\ pc' = [pc EXCEPT ![d] = IF ends THEN "fatal" ELSE "evaluate"]
      /\ newDT' = [newDT EXCEPT ![d] = half]
      /\ deltaTT' = [deltaTT EXCEPT ![d] = half]
      /\ realDT' = IF ends THEN realDT ELSE [realDT EXCEPT ![d] = half]
      /\ iter' = IF ends THEN iter ELSE [iter EXCEPT ![d] = 1]
      /\ incrDelta' = IF global[d] = "mobility" THEN incrDelta
                      ELSE [incrDelta EXCEPT ![d] = FALSE]
      /\ IF ends THEN oldV' = oldV /\ pos' = pos ELSE Advance(d)
      /\ round[d] >= 1 /\ ~Early(d) /\ iter[d] >= 1
      /\ UNCHANGED <<round, nextDT, vel, currV, mail, mobError, bad, global>>
  <2>1. LocalInv(d) /\ TypeOK
    BY DEF TimestepInv
  <2>2. pc[d] = "decide" /\ Fails(d) /\ Cuts(d)
    BY DEF CutStep, Fails, Cuts
  <2>3. newDT'[d] = half
    BY <2>1 DEF CutStep, TypeOK
  <2>4. round[d] >= 1 /\ ~Early(d) /\ iter[d] >= 1
    BY <2>1, <2>2 DEF LocalInv, ControlInv, TypeOK, Early, Last, Entry
  <2>5. TooSmall(newDT'[d]) /\ d = First <=> ends
    BY <2>3 DEF TooSmall
  <2>6. IF ends THEN pc' = [pc EXCEPT ![d] = "fatal"] /\ UNCHANGED <<iter, realDT, currV, oldV, pos>>
        ELSE /\ realDT' = [realDT EXCEPT ![d] = deltaTT'[d]]
             /\ currV' = currV /\ Advance(d) /\ iter' = [iter EXCEPT ![d] = 1]
             /\ pc' = [pc EXCEPT ![d] = "evaluate"]
    BY <2>5 DEF CutStep, Goto
  <2>7. /\ newDT' = [newDT EXCEPT ![d] = half]
        /\ deltaTT' = [deltaTT EXCEPT ![d] = half] /\ deltaTT'[d] = half
        /\ UNCHANGED <<round, nextDT, vel, mail, mobError, bad, global>>
    BY <2>1, <2>3 DEF CutStep, StepToTry, errVars, TypeOK
  <2>8. incrDelta' = IF global[d] = "mobility" THEN incrDelta
                     ELSE [incrDelta EXCEPT ![d] = FALSE]
    BY DEF CutStep
  <2> HIDE DEF ends
  <2> QED BY <2>1, <2>2, <2>4, <2>6, <2>7, <2>8
<1>1. /\ newDT[d] \in 0 .. MaxDT /\ half \in 0 .. MaxDT /\ (half < 1 => half = 0)
      /\ iter[d] \in 0 .. MaxIterations /\ round[d] \in Int
  <2>1. newDT[d] \in 0 .. MaxDT /\ iter[d] \in 0 .. MaxIterations /\ round[d] \in Int
    BY <1>0 DEF TypeOK
  <2>2. half \in 0 .. MaxDT
    BY <2>1, HalvedStep
  <2> QED BY <2>1, <2>2, StepsAssumption
<1> HIDE DEF half
<1>2. TypeOK'
  <2>1. newDT' \in [Domain -> 0 .. MaxDT] /\ deltaTT' \in [Domain -> 0 .. MaxDT]
        /\ realDT' \in [Domain -> 0 .. MaxDT]
    BY <1>0, <1>1 DEF TypeOK
  <2>2. currV' \in [Domain -> [Node -> Int]]
    BY <1>0 DEF TypeOK
  <2>3. oldV' \in [Domain -> [Node -> Int]] /\ pos' \in [Domain -> [Node -> Position]]
    BY <1>0, <2>1, <2>2, AdvanceTyped DEF TypeOK
  <2>4. pc' \in [Domain -> Labels] /\ iter' \in [Domain -> 0 .. MaxIterations]
        /\ incrDelta' \in [Domain -> BOOLEAN]
    BY <1>0, StepsAssumption DEF TypeOK, Labels
  <2>5. \A e \in Domain : pc'[e] = "fatal" => e = First /\ newDT'[e] = 0
    BY <1>0, <1>1 DEF TypeOK
  <2> QED BY <1>0, <2>1, <2>2, <2>3, <2>4, <2>5 DEF TypeOK
<1>3. \A e \in Domain \ {d} : UNCHANGED State(e)
  BY <1>0 DEF State, TypeOK, Advance
<1>4. /\ pc'[d] = IF ends THEN "fatal" ELSE "evaluate"
      /\ round'[d] = round[d] /\ ~Early(d)'
      /\ newDT'[d] = half /\ deltaTT'[d] = half
      /\ ~ends => realDT'[d] = half /\ iter'[d] = 1
      /\ ends => iter'[d] = iter[d]
      /\ incrDelta'[d] = (incrDelta[d] /\ global[d] = "mobility")
  BY <1>0 DEF TypeOK, Early, Entry, Last
<1>5. /\ \A n \in Known(d) : OldOf(d, n)' = OldOf(d, n)
      /\ ~ends =>
           /\ \A n \in Node : pos'[d][n].dt = half
           /\ \A n \in Known(d) :
                pos'[d][n] = [curr |-> Entry, dt |-> half, with |-> OldOf(d, n)]
  <2>1. CASE ends
    BY <2>1, <1>0 DEF OldOf
  <2>2. CASE ~ends
    <3>1. \A n \in Known(d) : currV'[d][n] = Entry
      BY <1>0 DEF LocalInv, VelInv
    <3> QED BY <2>2, <3>1, <1>0, <1>4, AdvancePositions
  <2> QED BY <2>1, <2>2
<1>6. PairsKept(d)
  <2>1. /\ ~Fails(d)' /\ ~Cuts(d)' /\ ~Passes(d)' /\ ~Accepting(d)'
        /\ Fails(d) /\ Cuts(d) /\ ~Passes(d) /\ ~Accepting(d)
    BY <1>0, <1>4 DEF Accepting, Fails, Cuts, Passes
  <2>2. Level(d)' = Level(d) /\ IterView(d)' = IterView(d)
    BY <1>0, <1>4, <2>1 DEF Level, IterView
  <2>3. StepView(d)' = StepView(d)
    BY <1>0, <1>4, <2>1 DEF StepView, half
  <2>4. NextView(d)' = NextView(d)
    BY <1>0, <1>4, <2>1 DEF NextView
  <2>5. IncrView(d)' <=> IncrView(d)
    <3>1. CASE global[d] = "mobility"
      BY <3>1, <1>0, <1>4, <2>1 DEF IncrView
    <3>2. CASE global[d] = "position"
      BY <3>2, <1>0, <1>4, <2>1 DEF IncrView
    <3> QED BY <3>1, <3>2, <1>0 DEF TypeOK, Fails
  <2>6. ViewKept(d)
    BY <2>1, <2>2, <2>3, <2>4, <2>5 DEF ViewKept
  <2> QED BY <1>0, <1>4, <1>5, <2>1, <2>6 DEF PairsKept
<1>7. LocalInv(d)'
  <2>1. ControlInv(d)'
    BY <1>0, <1>1, <1>4 DEF ControlInv, Last
  <2>2. StepInv(d)'
    BY <1>1, <1>4 DEF StepInv
  <2>3. VelInv(d)'
    BY <1>0, <1>4 DEF LocalInv, VelInv, Native, Known
  <2>4. PosInv(d)'
    BY <1>4, <1>5 DEF PosInv, Native, Known
  <2> QED BY <2>1, <2>2, <2>3, <2>4 DEF LocalInv
<1> QED BY <1>2, <1>3, <1>6, <1>7, DomainStepKeeps

(* The step is accepted at the positions it was judged at.                 *)
LEMMA AcceptKeeps ==
  ASSUME TimestepInv, NEW d \in Domain, Accept(d)
  PROVE  TimestepInv'
<1> DEFINE next == Proposed(newDT[d], incrDelta[d])
<1>0. /\ LocalInv(d) /\ TypeOK
      /\ pc[d] = "decide" /\ global[d] = "none" /\ pc' = [pc EXCEPT ![d] = "done"]
      /\ deltaTT' = [deltaTT EXCEPT ![d] = newDT[d]]
      /\ realDT' = [realDT EXCEPT ![d] = newDT[d]]
      /\ nextDT' = [nextDT EXCEPT ![d] = next]
      /\ oldV' = [oldV EXCEPT ![d] = currV[d]]
      /\ round[d] >= 1 /\ ~Early(d) /\ iter[d] >= 1
      /\ UNCHANGED <<round, iter, newDT, incrDelta, vel, currV, pos, mail, mobError,
                     bad, global>>
  BY DEF TimestepInv, LocalInv, ControlInv, Accept, Goto, errVars, Proposed,
         Early, Last, Entry
<1>1. newDT[d] \in 0 .. MaxDT /\ newDT[d] \in Nat /\ next \in Nat /\ round[d] \in Int
  BY <1>0, StepsAssumption, ProposedStep DEF TypeOK, Proposed
<1> HIDE DEF next
<1>2. TypeOK'
  <2>1. deltaTT' \in [Domain -> 0 .. MaxDT] /\ realDT' \in [Domain -> 0 .. MaxDT]
        /\ nextDT' \in [Domain -> Nat]
    BY <1>0, <1>1 DEF TypeOK
  <2>2. oldV' \in [Domain -> [Node -> Int]] /\ pc' \in [Domain -> Labels]
    BY <1>0 DEF TypeOK, Labels
  <2>3. \A e \in Domain : pc'[e] = "fatal" => e = First /\ newDT'[e] = 0
    BY <1>0 DEF TypeOK
  <2> QED BY <1>0, <2>1, <2>2, <2>3 DEF TypeOK
<1>3. \A e \in Domain \ {d} : UNCHANGED State(e)
  BY <1>0 DEF State, TypeOK
<1>4. /\ pc'[d] = "done" /\ round'[d] = round[d] /\ ~Early(d)'
      /\ deltaTT'[d] = newDT[d] /\ realDT'[d] = newDT[d] /\ nextDT'[d] = next
  BY <1>0 DEF TypeOK, Early, Entry, Last
<1>5. PairsKept(d)
  <2>1. /\ ~Fails(d)' /\ ~Cuts(d)' /\ ~Passes(d)' /\ Accepting(d)'
        /\ ~Fails(d) /\ ~Cuts(d) /\ Passes(d) /\ Accepting(d)
    BY <1>0, <1>4 DEF Accepting, Fails, Cuts, Passes
  <2>2. Level(d)' = Level(d) /\ StepView(d)' = StepView(d) /\ IterView(d)' = IterView(d)
    BY <1>0, <1>4, <2>1 DEF Level, StepView, IterView
  <2>3. NextView(d)' = NextView(d) /\ (IncrView(d)' <=> IncrView(d))
    BY <1>0, <1>4, <2>1 DEF IncrView, NextView, next
  <2>4. ViewKept(d)
    BY <2>1, <2>2, <2>3 DEF ViewKept
  <2> QED BY <1>0, <1>4, <2>1, <2>4 DEF PairsKept
<1>6. LocalInv(d)'
  <2>1. ControlInv(d)' /\ StepInv(d)'
    BY <1>0, <1>4 DEF LocalInv, ControlInv, StepInv, Last
  <2>2. VelInv(d)'
    BY <1>0, <1>4 DEF LocalInv, VelInv, Native, Known
  <2>3. PosInv(d)'
    BY <1>0, <1>4 DEF LocalInv, PosInv, Native, Known
  <2> QED BY <2>1, <2>2, <2>3 DEF LocalInv
<1> QED BY <1>2, <1>3, <1>5, <1>6, DomainStepKeeps
-----------------------------------------------------------------------------
(* Every domain learns the same of all errors.                             *)
LEMMA ReduceKeeps ==
  ASSUME TimestepInv, Reduce
  PROVE  TimestepInv'
<1> USE DEF Reduce, dtVars, velVars
<1>0. /\ TypeOK /\ \A d \in Domain : LocalInv(d) /\ pc[d] = "reduce" /\ pc'[d] = "decide"
      /\ UNCHANGED <<round, iter, newDT, deltaTT, realDT, nextDT, incrDelta,
                     vel, currV, oldV, pos, mail, mobError, bad>>
  BY DEF TimestepInv
<1>1. PICK err \in {"none", "position", "mobility"} :
        /\ \A d \in Domain : global'[d] = err
        /\ err = "none" => \A e \in Domain : ~mobError[e] /\ bad[e] = {}
  <2>1. \A d \in Domain : global'[d] = ReducedError(First)
    BY NodesAssumption DEF ReducedError, Contributes
  <2>2. ReducedError(First) \in {"none", "position", "mobility"}
    BY DEF ReducedError
  <2>3. ReducedError(First) = "none" => \A e \in Domain : ~mobError[e] /\ bad[e] = {}
    BY DEF ReducedError, Contributes
  <2> QED BY <2>1, <2>2, <2>3
<1>2. TypeOK'
  <2>1. pc' \in [Domain -> Labels]
    BY DEF Labels
  <2>2. global' \in [Domain -> {"none", "position", "mobility"}]
    BY <1>1
  <2> QED BY <1>0, <2>1, <2>2 DEF TypeOK
<1>3. \A d \in Domain :
        /\ round'[d] = round[d] /\ round[d] \in Int /\ round[d] >= 1
        /\ ~Early(d) /\ ~Early(d)' /\ Trial(d) = round[d] /\ Trial(d)' = round[d]
        /\ ~Fails(d) /\ ~Cuts(d) /\ ~Passes(d) /\ ~Accepting(d)
        /\ Fails(d)' <=> err # "none"
        /\ Passes(d)' <=> err = "none"
        /\ Accepting(d)' <=> err = "none"
        /\ Cuts(d)' <=> err = "mobility" \/ (err = "position" /\ iter[d] = MaxIterations)
  BY <1>0, <1>1 DEF TypeOK, LocalInv, ControlInv, Early, Trial, Fails, Cuts, Passes,
     Accepting, Last, Entry
<1>4. ASSUME NEW d \in Domain PROVE LocalInv(d)'
  <2>1. ControlInv(d)' /\ StepInv(d)'
    BY <1>0, <1>3 DEF LocalInv, ControlInv, StepInv, Last
  <2>2. VelInv(d)'
    BY <1>0, <1>3 DEF LocalInv, VelInv, Native, Known
  <2>3. PosInv(d)'
    <3>1. \A n \in Known(d) : OldOf(d, n)' = OldOf(d, n)
      BY <1>0 DEF OldOf
    <3> QED BY <1>0, <1>3, <3>1 DEF LocalInv, PosInv, Native, Known
  <2> QED BY <2>1, <2>2, <2>3 DEF LocalInv
<1>5. ASSUME NEW d \in Domain, NEW e \in Domain PROVE PairInv(d, e)'
  <2>0. PairInv(d, e)
    BY DEF TimestepInv
  <2>1. /\ round[d] = round[e] /\ newDT[d] = newDT[e] /\ iter[d] = iter[e]
        /\ nextDT[d] = nextDT[e] /\ (incrDelta[d] <=> incrDelta[e])
    BY <1>0, <1>3, <2>0 DEF PairInv, SameViews, Level, StepView, IterView, IncrView, NextView
  <2>2. incrDelta[d] = incrDelta[e]
    BY <2>1, <1>0 DEF TypeOK
  <2>3. SameViews(d, e)'
    <3>1. (Level(d) = Level(e) /\ StepView(d) = StepView(e) /\ IterView(d) = IterView(e))'
      BY <1>0, <1>3, <2>1 DEF Level, StepView, IterView
    <3>2. (NextView(d) = NextView(e))'
      BY <1>0, <1>3, <2>1, <2>2 DEF NextView
    <3>3. (IncrView(d) <=> IncrView(e))'
      BY <1>0, <1>1, <1>3, <2>1 DEF IncrView
    <3> QED BY <1>3, <3>1, <3>2, <3>3 DEF SameViews
  <2>4. \A n \in Known(d) \cap Known(e) : OldOf(d, n)' = OldOf(e, n)'
    BY <1>0, <2>0 DEF PairInv, OldOf
  <2>5. \A n \in Known(d) \cap Known(e) : pos'[d][n] = pos'[e][n]
    <3>1. \A n \in Known(d) \cap Known(e) : OldOf(d, n) = OldOf(e, n)
      BY <1>0, <2>0 DEF PairInv
    <3>2. PosInv(d) /\ PosInv(e)
      BY <1>0 DEF LocalInv
    <3>3. \A n \in Known(d) \cap Known(e) :
            /\ pos[d][n] = [curr |-> Entry, dt |-> newDT[d],
                             with |-> IF iter[d] = 1 THEN OldOf(d, n) ELSE round[d] - 1]
            /\ pos[e][n] = [curr |-> Entry, dt |-> newDT[e],
                             with |-> IF iter[e] = 1 THEN OldOf(e, n) ELSE round[e] - 1]
      BY <1>0, <1>3, <3>2 DEF PosInv
    <3>4. \A n \in Known(d) \cap Known(e) : pos[d][n] = pos[e][n]
      BY <2>1, <3>1, <3>3
    <3> QED BY <1>0, <3>4
  <2>6. err = "none" => ~mobError'[e] /\ bad'[e] = {}
    BY <1>0, <1>1
  <2> QED BY <1>0, <1>1, <1>3, <2>1, <2>3, <2>4, <2>5, <2>6 DEF PairInv, Native, Known
<1> QED BY <1>2, <1>4, <1>5 DEF TimestepInv

(* A timestep begins, in all domains with the same proposal.               *)
Fresh ==
  /\ TypeOK
  /\ \A d \in Domain :
       /\ pc[d] = "evaluate" /\ round[d] = Last /\ incrDelta[d] = TRUE
       /\ \A n \in Node : vel[d][n] = Last /\ pos[d][n] = AtStart
  /\ \A d, e \in Domain :
       nextDT[d] = nextDT[e] /\ deltaTT[d] = deltaTT[e] /\ oldV[d] = oldV[e]

LEMMA FreshTimestep == Fresh => TimestepInv
<1> SUFFICES ASSUME Fresh PROVE TimestepInv
  OBVIOUS
<1> USE DEF Fresh
<1>1. \A d \in Domain : Early(d) /\ ~Fails(d) /\ ~Cuts(d) /\ ~Passes(d) /\ ~Accepting(d)
  BY DEF Early, Fails, Cuts, Passes, Accepting
<1>2. ASSUME NEW d \in Domain PROVE LocalInv(d)
  <2>1. ControlInv(d) /\ StepInv(d)
    BY <1>1 DEF ControlInv, StepInv, Last, Entry
  <2>2. VelInv(d)
    BY <1>1, KnownNodes DEF VelInv, Known, Last, Entry
  <2>3. PosInv(d)
    BY <1>1 DEF PosInv
  <2> QED BY <2>1, <2>2, <2>3 DEF LocalInv
<1>3. ASSUME NEW d \in Domain, NEW e \in Domain PROVE PairInv(d, e)
  <2>1. SameViews(d, e)
    BY <1>1 DEF SameViews, Level, StepView, IterView, IncrView, NextView
  <2> QED BY <1>1, <2>1 DEF PairInv, OldOf
<1> QED BY <1>2, <1>3 DEF TimestepInv

LEMMA InitHolds == ASSUME Init PROVE TimestepInv
<1>1. TypeOK
  <2>1. vel \in [Domain -> [Node -> Int]] /\ currV \in [Domain -> [Node -> Int]]
        /\ round \in [Domain -> Int] /\ \A d \in Domain : round[d] >= Last
    BY DEF Init, Last
  <2>2. oldV \in [Domain -> [Node -> Int]]
    BY DEF Init, Unset, Older
  <2>3. AtStart \in Position
    BY DEF AtStart, Position, Last
  <2>4. pos \in [Domain -> [Node -> Position]]
    BY <2>3 DEF Init
  <2>5. mail \in [Domain -> [entry : [Node -> Int], trial : [Node -> Int]]]
    BY <2>1 DEF Init
  <2>6. /\ newDT \in [Domain -> 0 .. MaxDT] /\ deltaTT \in [Domain -> 0 .. MaxDT]
        /\ realDT \in [Domain -> 0 .. MaxDT] /\ nextDT \in [Domain -> Nat]
        /\ iter \in [Domain -> 0 .. MaxIterations]
    BY StepsAssumption DEF Init
  <2>7. pc \in [Domain -> Labels] /\ \A d \in Domain : pc[d] # "fatal"
    BY DEF Init, Labels
  <2>8. /\ incrDelta \in [Domain -> BOOLEAN] /\ mobError \in [Domain -> BOOLEAN]
        /\ bad \in [Domain -> SUBSET Node]
        /\ global \in [Domain -> {"none", "position", "mobility"}]
    BY DEF Init
  <2> QED BY <2>1, <2>2, <2>4, <2>5, <2>6, <2>7, <2>8 DEF TypeOK
<1>2. \A d \in Domain :
        /\ pc[d] = "evaluate" /\ round[d] = Last /\ incrDelta[d] = TRUE
        /\ \A n \in Node : vel[d][n] = Last /\ pos[d][n] = AtStart
  BY DEF Init
<1>3. \A d, e \in Domain :
        nextDT[d] = nextDT[e] /\ deltaTT[d] = deltaTT[e] /\ oldV[d] = oldV[e]
  BY DEF Init
<1> QED BY <1>1, <1>2, <1>3, FreshTimestep DEF Fresh

LEMMA NextCycleKeeps ==
  ASSUME TimestepInv, NextCycle
  PROVE  TimestepInv'
<1>0. TypeOK
  BY DEF TimestepInv
<1>1. TypeOK'
  <2>1. vel' \in [Domain -> [Node -> Int]] /\ currV' \in [Domain -> [Node -> Int]]
        /\ round' \in [Domain -> Int] /\ \A d \in Domain : round'[d] >= Last
    BY DEF NextCycle, Last
  <2>2. oldV' \in [Domain -> [Node -> Int]]
    BY DEF NextCycle, Unset, Older
  <2>3. AtStart \in Position
    BY DEF AtStart, Position, Last
  <2>4. pos' \in [Domain -> [Node -> Position]]
    BY <2>3 DEF NextCycle
  <2>5. mail' \in [Domain -> [entry : [Node -> Int], trial : [Node -> Int]]]
    BY <2>1 DEF NextCycle
  <2>6. /\ newDT' \in [Domain -> 0 .. MaxDT] /\ deltaTT' \in [Domain -> 0 .. MaxDT]
        /\ realDT' \in [Domain -> 0 .. MaxDT] /\ nextDT' \in [Domain -> Nat]
        /\ iter' \in [Domain -> 0 .. MaxIterations]
    BY <1>0, StepsAssumption DEF NextCycle, TypeOK
  <2>7. pc' \in [Domain -> Labels] /\ \A d \in Domain : pc'[d] # "fatal"
    BY DEF NextCycle, Labels
  <2>8. /\ incrDelta' \in [Domain -> BOOLEAN] /\ mobError' \in [Domain -> BOOLEAN]
        /\ bad' \in [Domain -> SUBSET Node]
        /\ global' \in [Domain -> {"none", "position", "mobility"}]
    BY DEF NextCycle
  <2> QED BY <2>1, <2>2, <2>4, <2>5, <2>6, <2>7, <2>8 DEF TypeOK
<1>2. \A d \in Domain :
        /\ pc'[d] = "evaluate" /\ round'[d] = Last /\ incrDelta'[d] = TRUE
        /\ \A n \in Node : vel'[d][n] = Last /\ pos'[d][n] = AtStart
  BY DEF NextCycle
<1>3. ASSUME NEW d \in Domain, NEW e \in Domain
      PROVE  nextDT'[d] = nextDT'[e] /\ deltaTT'[d] = deltaTT'[e] /\ oldV'[d] = oldV'[e]
  <2>1. SameViews(d, e) /\ LocalInv(d) /\ LocalInv(e) /\ pc[d] = "done" /\ pc[e] = "done"
    BY DEF TimestepInv, PairInv, NextCycle
  <2>2. ~Early(d) /\ ~Early(e)
    BY <1>0, <2>1 DEF LocalInv, ControlInv, Early, Last, Entry, TypeOK
  <2>3. nextDT[d] = nextDT[e] /\ newDT[d] = newDT[e]
    BY <2>1, <2>2 DEF SameViews, NextView, StepView, Passes, Cuts, Fails
  <2>4. deltaTT[d] = deltaTT[e]
    BY <2>1, <2>2, <2>3 DEF LocalInv, StepInv
  <2> QED BY <2>3, <2>4 DEF NextCycle
<1>4. Fresh'
  BY <1>1, <1>2, <1>3 DEF Fresh
<1> QED BY <1>4, FreshTimestep, PTL
-----------------------------------------------------------------------------
(* The invariant holds in every state.                                     *)
THEOREM TimestepInvariant == Spec => []TimestepInv
<1>1. Init => TimestepInv
  BY InitHolds
<1>2. TimestepInv /\ [Next]_vars => TimestepInv'
  <2> SUFFICES ASSUME TimestepInv, [Next]_vars PROVE TimestepInv'
    OBVIOUS
  <2>1. CASE Reduce
    BY <2>1, ReduceKeeps
  <2>2. CASE NextCycle
    BY <2>2, NextCycleKeeps
  <2>3. CASE UNCHANGED vars
    <3>1. TypeOK'
      BY <2>3 DEF TimestepInv, TypeOK, vars, dtVars, velVars, errVars
    <3>2. \A d \in Domain : UNCHANGED State(d)
      BY <2>3 DEF State, vars, dtVars, velVars, errVars
    <3>3. \A d \in Domain : LocalInv(d)'
      BY <3>2, LocalFrame DEF TimestepInv
    <3>4. ASSUME NEW d \in Domain, NEW e \in Domain PROVE PairInv(d, e)'
      <4>1. /\ PairInv(d, e) /\ ViewKept(d) /\ ViewKept(e)
            /\ (Early(d)' <=> Early(d)) /\ (Early(e)' <=> Early(e))
            /\ \A n \in Known(d) : OldOf(d, n)' = OldOf(d, n)
            /\ \A n \in Known(e) : OldOf(e, n)' = OldOf(e, n)
        BY <3>2, ViewFrame DEF TimestepInv
      <4>2. SameViews(d, e)'
        BY <4>1 DEF PairInv, SameViews, ViewKept
      <4> QED BY <2>3, <4>1, <4>2 DEF PairInv, ViewKept, vars, dtVars, velVars, errVars,
              Known, Native
    <3> QED BY <3>1, <3>3, <3>4 DEF TimestepInv
  <2>4. ASSUME NEW d \in Domain, Step(d) PROVE TimestepInv'
    BY <2>4, EvaluateKeeps, ReceiveKeeps, BeginKeeps, IterateKeeps, CutKeeps, AcceptKeeps
       DEF Step
  <2> QED BY <2>1, <2>2, <2>3, <2>4 DEF Next, Aborted
<1> QED BY <1>1, <1>2, PTL DEF Spec
-----------------------------------------------------------------------------
(* Copies at the same evaluation were computed alike.                      *)
LEMMA InStep == TimestepInv => GhostsInStep
<1> SUFFICES ASSUME TimestepInv, NEW d \in Domain, NEW n \in Primary[d],
                    Trial(d) = Trial(NodeDomain[n]),
                    pc[d] \notin {"begin", "fatal"},
                    pc[NodeDomain[n]] \notin {"begin", "fatal"}
             PROVE  deltaTT[d] = deltaTT[NodeDomain[n]] /\ pos[d][n] = pos[NodeDomain[n]][n]
  BY DEF GhostsInStep
<1> DEFINE o == NodeDomain[n]
<1>1. o \in Domain /\ n \in Node /\ n \in Known(d) /\ n \in Known(o)
  BY Owners DEF Known
<1> HIDE DEF o
<1>2. TypeOK /\ LocalInv(d) /\ LocalInv(o) /\ PairInv(d, o) /\ PairInv(o, d)
  BY <1>1 DEF TimestepInv
<1>3. Trial(d) = Trial(o) /\ pc[d] \notin {"begin", "fatal"} /\ pc[o] \notin {"begin", "fatal"}
  BY DEF o
<1>4. round[d] \in Int /\ round[o] \in Int /\ round[d] >= Last /\ round[o] >= Last
  BY <1>1, <1>2 DEF TypeOK
<1>5. Early(d) <=> Early(o)
  BY <1>2, <1>3, <1>4 DEF LocalInv, ControlInv, Early, Trial, Last, Entry
<1>6. CASE Early(d)
  <2>1. deltaTT[d] = deltaTT[o]
    BY <1>2, <1>5, <1>6 DEF PairInv
  <2>2. pos[d][n] = pos[o][n]
    BY <1>1, <1>2, <1>5, <1>6 DEF LocalInv, PosInv
  <2> QED BY <2>1, <2>2 DEF o
<1>7. CASE Accepting(d)
  <2>1. Accepting(o) /\ pos[d][n] = pos[o][n]
    BY <1>1, <1>2, <1>7 DEF PairInv, SameViews
  <2>2. ~Early(d) /\ ~Early(o) /\ ~Cuts(d) /\ ~Cuts(o)
    BY <1>2, <1>4, <1>5, <1>7, <2>1
       DEF LocalInv, ControlInv, Accepting, Passes, Cuts, Fails, Early, Last, Entry
  <2>3. newDT[d] = newDT[o]
    BY <1>2, <2>2 DEF PairInv, SameViews, StepView
  <2> QED BY <1>2, <1>3, <2>1, <2>2, <2>3 DEF LocalInv, StepInv, o
<1>8. CASE ~Early(d) /\ ~Accepting(d)
  <2>1. ~Early(o) /\ ~Accepting(o) /\ pc[d] # "done" /\ pc[o] # "done"
    BY <1>2, <1>5, <1>8 DEF PairInv, SameViews, Accepting
  <2>2. Fails(d) <=> Fails(o)
    BY <1>2, <1>3, <1>4, <1>8, <2>1 DEF PairInv, SameViews, Level, Trial, Fails
  <2>3. iter[d] = iter[o] /\ newDT[d] = newDT[o]
    <3>1. CASE Fails(d)
      BY <1>2, <2>2, <3>1 DEF PairInv, Fails
    <3>2. CASE ~Fails(d)
      BY <1>2, <1>3, <1>8, <2>1, <2>2, <3>2 DEF PairInv, SameViews, StepView, IterView, Cuts
    <3> QED BY <3>1, <3>2
  <2>4. OldOf(d, n) = OldOf(o, n)
    BY <1>1, <1>2, <2>1 DEF PairInv
  <2>5. /\ pos[d][n] = [curr |-> Entry, dt |-> newDT[d],
                        with |-> IF iter[d] = 1 THEN OldOf(d, n) ELSE Trial(d) - 1]
        /\ pos[o][n] = [curr |-> Entry, dt |-> newDT[o],
                        with |-> IF iter[o] = 1 THEN OldOf(o, n) ELSE Trial(o) - 1]
    BY <1>1, <1>2, <1>3, <1>8, <2>1 DEF LocalInv, PosInv
  <2>6. pos[d][n] = pos[o][n]
    BY <1>3, <2>3, <2>4, <2>5
  <2>7. deltaTT[d] = deltaTT[o]
    BY <1>2, <1>3, <1>8, <2>1, <2>3 DEF LocalInv, StepInv
  <2> QED BY <2>6, <2>7 DEF o
<1> QED BY <1>6, <1>7, <1>8 DEF o

(* The accepted step is that of domain 0, which is not too small.          *)
LEMMA Judged == TimestepInv => AcceptedAsJudged
<1> SUFFICES ASSUME TimestepInv, NEW d \in Domain, pc[d] = "done"
             PROVE  /\ deltaTT[d] = realDT[d] /\ realDT[d] > 0
                    /\ \A n \in Node : pos[d][n].dt = realDT[d]
                    /\ \A e \in Domain : ~mobError[e] /\ bad[e] = {}
                    /\ \A e \in Domain : pc[e] = "done" =>
                         realDT[e] = realDT[d] /\ nextDT[e] = nextDT[d]
  BY DEF AcceptedAsJudged
<1>1. \A e \in Domain : LocalInv(e) /\ PairInv(d, e)
  BY DEF TimestepInv
<1>2. \A e \in Domain : round[e] \in Int /\ newDT[e] \in 0 .. MaxDT
  BY DEF TimestepInv, TypeOK
<1>3. ASSUME NEW e \in Domain
      PROVE  /\ Accepting(e) /\ ~Early(e) /\ ~Cuts(e) /\ pc[e] # "fatal"
             /\ newDT[e] = newDT[d] /\ realDT[e] = newDT[e] /\ deltaTT[e] = newDT[e]
             /\ ~mobError[e] /\ bad[e] = {}
  <2>1. Accepting(e) /\ Accepting(d) /\ ~mobError[e] /\ bad[e] = {}
    BY <1>1 DEF PairInv, SameViews, Accepting
  <2>2. ~Early(e) /\ ~Cuts(e) /\ pc[e] # "fatal" /\ ~Early(d) /\ ~Cuts(d)
    BY <1>1, <1>2, <2>1
       DEF LocalInv, ControlInv, Accepting, Passes, Cuts, Fails, Early, Last, Entry
  <2>3. newDT[e] = newDT[d]
    BY <1>1, <2>2 DEF PairInv, SameViews, StepView
  <2> QED BY <1>1, <2>1, <2>2, <2>3 DEF LocalInv, StepInv
<1>4. newDT[d] >= 1
  BY <1>1, <1>2, <1>3, NodesAssumption DEF LocalInv, StepInv
<1>5. \A n \in Node : pos[d][n].dt = newDT[d]
  BY <1>1, <1>3 DEF LocalInv, PosInv
<1>6. \A e \in Domain : pc[e] = "done" => nextDT[e] = nextDT[d]
  BY <1>1 DEF PairInv, SameViews, NextView, Passes
<1> QED BY <1>2, <1>3, <1>4, <1>5, <1>6

(* Every variable keeps its type, and only domain 0 gives up, with a step  *)
(* of zero: Fatal after the cut (TrapezoidIntegrator.cc:937 to 941).       *)
THEOREM TimestepTyped == Spec => []TypeOK
<1>1. TimestepInv => TypeOK
  BY DEF TimestepInv
<1> QED BY <1>1, TimestepInvariant, PTL

(* Every primary ghost is where its owner has the node, whenever the two   *)
(* domains are at the same evaluation, though each moves its own copy.     *)
THEOREM CopiesInStep == Spec => []GhostsInStep
BY TimestepInvariant, InStep, PTL

(* What is accepted was judged good everywhere, at the accepted step, and  *)
(* is the same step and the same proposal in all domains.                  *)
THEOREM StepJudgedByAll == Spec => []AcceptedAsJudged
BY TimestepInvariant, Judged, PTL
=============================================================================
