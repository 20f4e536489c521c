--------------------------- MODULE SubcyclingProofs ---------------------------
(***************************************************************************)
(* The network is moved by exactly the outer step, whatever is tried,      *)
(* rejected and undone on the way: for any domains, nodes and pairs, any   *)
(* number of groups, steps and tries.                                      *)
(*                                                                         *)
(* What has to be known of a domain depends on its own state alone: the    *)
(* interplay of the domains enters through Reduce, which changes only what *)
(* the domains have seen.  So the invariant is a conjunction over the      *)
(* domains of three parts, one on steps, one on positions and one on flags.*)
(*                                                                         *)
(* That the domains take the same decisions is about two domains at once,  *)
(* which between two collective calls are at different places.  A step of  *)
(* a domain is therefore shown to be a function, Decided, of what the      *)
(* domain has (OwnDecides); the domains are in step if of any two one is   *)
(* ahead by at most two decisions, those it takes until it waits again.    *)
(* From that and from what the caches hold it follows that the force that  *)
(* moves the network is complete and current.                              *)
(***************************************************************************)
EXTENDS Subcycling, TLAPS

Trying(d)  == pc[d] \in {"base", "stages", "errors", "final"}
Lowers(d)  == Trying(d) /\ group[d] # Highest
Highests(d) == Trying(d) /\ group[d] = Highest
Counted(d) == pc[d] \in {"driver", "full", "done"}

(* Steps stay within the cycle, and a first try is made with the proposal. *)
StepsInv(d) ==
  /\ Trying(d) => dt[d] >= 1
  /\ Highests(d) /\ iTry[d] = 0 => dt[d] = nextDT[d][Highest]
  /\ Lowers(d) /\ iTry[d] = 0 => dt[d] = Attempt(d, group[d])
  /\ Lowers(d) => dt[d] <= Remaining(d, group[d])
  /\ Highests(d) \/ pc[d] = "counts" => \A g \in Group : subTime[d][g] = 0
  /\ Lowers(d) \/ Counted(d) =>
       \A g \in Group \ {Highest} : subTime[d][g] <= OuterDT(d)
  /\ pc[d] \in {"full", "done"} => subTime[d][0] = OuterDT(d)

(* A try has captured the physical configuration, and between tries the    *)
(* network is there.                                                       *)
PlacesInv(d) ==
  /\ Trying(d) => base[d] = Physical(subTime[d][0])
  /\ pc[d] = "base" => conf[d] = base[d]
  /\ Counted(d) \/ pc[d] = "counts" => conf[d] = Physical(subTime[d][0])

(* Frozen nodes are those of the group that is at work.                    *)
FrozenInv(d) ==
  /\ group[d] # Highest => group[d] = oldGroup[d]
  /\ \A n \in Node :
       flag[d][n] = 0 => group[d] # Highest /\ nSub[d] > Patience

DomainInv(d) == StepsInv(d) /\ PlacesInv(d) /\ FrozenInv(d)
SubcyclingInv == TypeOK /\ \A d \in Domain : DomainInv(d)

(* The state of one domain, as far as the invariant looks at it.           *)
State(d) == <<pc[d], group[d], oldGroup[d], nSub[d], dt[d], iTry[d], subTime[d],
              nextDT[d], realDT[d], conf[d], base[d], flag[d]>>
-----------------------------------------------------------------------------
(* Groups are numbered from 0; the highest and the next lower are groups.  *)
LEMMA Groups ==
  /\ NumGroups \in Nat /\ 0 \in Group /\ Highest \in Group /\ Lower \in Group
  /\ Highest # 0 /\ Lower = Highest - 1 /\ Highest \in Nat
  /\ \A g \in Group : g \in Nat /\ (g # Highest <=> g \in 0 .. Lower)
BY GroupsAssumption DEF Group, Highest, Lower

(* A cut step is a shorter step.                                           *)
LEMMA CutStep == \A n \in Nat : Cut(n) \in Nat /\ Cut(n) <= n
BY DEF Cut

(* The lesser of two numbers.                                              *)
LEMMA LeastOfTwo ==
  \A a, b \in Nat : Least(a, b) \in {a, b} /\ Least(a, b) <= a /\ Least(a, b) <= b
BY DEF Least

(* A configuration within the cycle.                                       *)
LEMMA PhysicalTyped ==
  \A t \in 0 .. MaxDT : Physical(t) \in Configuration
BY DEF Physical, Configuration

(* The invariant holds when a cycle begins.                                *)
LEMMA InvInit == Init => SubcyclingInv
<1> SUFFICES ASSUME Init PROVE SubcyclingInv
  OBVIOUS
<1>1. PICK proposed \in [Group -> Proposals] :
        /\ nextDT = [d \in Domain |-> proposed]
        /\ dt = [d \in Domain |-> proposed[Highest]]
  BY DEF Init
<1>2. /\ proposed \in [Group -> 1 .. MaxDT] /\ MaxDT \in Nat
      /\ proposed[Highest] \in 1 .. MaxDT
  BY <1>1, StepsAssumption, Groups
<1>3. Physical(0) \in Configuration
  BY PhysicalTyped, <1>2
<1>4. TypeOK
  <2>1. /\ pc \in [Domain -> Evaluations \cup
                     {"errors", "counts", "driver", "done", "fatal"}]
        /\ waiting \in [Domain -> BOOLEAN]
        /\ group \in [Domain -> Group] /\ oldGroup \in [Domain -> 0 .. NumGroups]
        /\ nSub \in [Domain -> 0 .. Patience + 1] /\ iTry \in [Domain -> 0 .. Tries]
        /\ pairGroup \in [Pair -> Group]
        /\ flag \in [Domain -> [Node -> 0 .. 2]]
    BY Groups, StepsAssumption DEF Init, Evaluations, None
  <2>2. /\ dt \in [Domain -> 0 .. MaxDT]
        /\ nextDT \in [Domain -> [Group -> 1 .. MaxDT]]
    BY <1>1, <1>2
  <2>3. /\ subTime \in [Domain -> [Group -> 0 .. MaxDT]]
        /\ realDT \in [Domain -> [Group -> 0 .. MaxDT]]
    BY <1>2 DEF Init
  <2>4. /\ conf \in [Domain -> Configuration] /\ base \in [Domain -> Configuration]
        /\ cache \in [Domain -> [Group -> [pairs : SUBSET Pair, at : Configuration]]]
    BY <1>3 DEF Init
  <2> QED BY <2>1, <2>2, <2>3, <2>4 DEF TypeOK
<1>5. ASSUME NEW d \in Domain PROVE DomainInv(d)
  <2>1. pc[d] = "base" /\ group[d] = Highest /\ dt[d] = nextDT[d][Highest]
        /\ dt[d] >= 1 /\ \A g \in Group : subTime[d][g] = 0
    BY <1>1, <1>2 DEF Init
  <2>2. conf[d] = Physical(0) /\ base[d] = conf[d] /\ flag[d] = None
    BY DEF Init
  <2> QED BY <2>1, <2>2, Groups DEF DomainInv, StepsInv, PlacesInv, FrozenInv, None,
             Trying, Lowers, Highests, Counted
<1> QED BY <1>4, <1>5 DEF SubcyclingInv
-----------------------------------------------------------------------------
(* The invariant of a domain depends on its state alone.                   *)
LEMMA Frame ==
  ASSUME NEW d \in Domain, DomainInv(d), UNCHANGED State(d)
  PROVE  DomainInv(d)'
BY DEF State, DomainInv, StepsInv, PlacesInv, FrozenInv, Trying, Lowers, Highests,
       Counted, Attempt, Remaining, OuterDT

(* A step of one domain leaves the others as they are.                     *)
LEMMA OthersStay ==
  ASSUME TypeOK, NEW d \in Domain, DomainStep(d), NEW e \in Domain \ {d}
  PROVE  UNCHANGED State(e)
<1> USE DEF State, Call, TryAgain, MoveRKFNodes, stepVars, seenVars, TypeOK
<1>1. CASE BaseEvaluated(d)  BY <1>1 DEF BaseEvaluated
<1>2. CASE StagesEvaluated(d)  BY <1>2 DEF StagesEvaluated
<1>3. CASE ErrorsReduced(d)  BY <1>3 DEF ErrorsReduced
<1>4. CASE FinalRejected(d)  BY <1>4 DEF FinalRejected
<1>5. CASE HighestAccepted(d)  BY <1>5 DEF HighestAccepted
<1>6. CASE GroupAccepted(d)  BY <1>6 DEF GroupAccepted
<1>7. CASE PairsCounted(d)  BY <1>7 DEF PairsCounted
<1>8. CASE NextSubcycle(d)  BY <1>8 DEF NextSubcycle
<1>9. CASE FinishSubcycling(d)  BY <1>9 DEF FinishSubcycling
<1>10. CASE FullEvaluated(d)  BY <1>10 DEF FullEvaluated
<1> QED BY <1>1, <1>2, <1>3, <1>4, <1>5, <1>6, <1>7, <1>8, <1>9, <1>10 DEF DomainStep

(* The types of one domain's state.                                        *)
LEMMA StateTyped ==
  ASSUME TypeOK, NEW d \in Domain
  PROVE  /\ MaxDT \in Nat \ {0} /\ dt[d] \in 0 .. MaxDT
         /\ Tries \in Nat \ {0} /\ iTry[d] \in 0 .. Tries
         /\ Patience \in Nat /\ nSub[d] \in 0 .. Patience + 1
         /\ group[d] \in Group /\ flag[d] \in [Node -> 0 .. 2]
         /\ conf[d] \in Configuration /\ base[d] \in Configuration
         /\ subTime[d] \in [Group -> 0 .. MaxDT] /\ realDT[d] \in [Group -> 0 .. MaxDT]
         /\ nextDT[d] \in [Group -> 1 .. MaxDT]
         /\ OuterDT(d) \in 0 .. MaxDT
         /\ \A g \in Group : Remaining(d, g) \in Int
<1>1. /\ MaxDT \in Nat \ {0} /\ Tries \in Nat \ {0} /\ Patience \in Nat
      /\ dt[d] \in 0 .. MaxDT /\ iTry[d] \in 0 .. Tries
      /\ nSub[d] \in 0 .. Patience + 1
      /\ group[d] \in Group /\ flag[d] \in [Node -> 0 .. 2]
      /\ conf[d] \in Configuration /\ base[d] \in Configuration
  BY StepsAssumption DEF TypeOK
<1>2. /\ subTime[d] \in [Group -> 0 .. MaxDT] /\ realDT[d] \in [Group -> 0 .. MaxDT]
      /\ nextDT[d] \in [Group -> 1 .. MaxDT]
  BY DEF TypeOK
<1>3. OuterDT(d) \in 0 .. MaxDT
  BY <1>2, Groups DEF OuterDT
<1>4. \A g \in Group : Remaining(d, g) \in Int
  BY <1>1, <1>2, <1>3 DEF Remaining
<1> QED BY <1>1, <1>2, <1>3, <1>4

(* A rejected try: the step is cut and the positions come back.            *)
LEMMA TryAgainStep ==
  ASSUME SubcyclingInv, NEW d \in Domain, Trying(d), TryAgain(d),
         UNCHANGED <<group, oldGroup, nSub, stepVars, base, flag>>
  PROVE  /\ DomainInv(d)'
         /\ pc' \in [Domain -> Evaluations \cup
                        {"errors", "counts", "driver", "done", "fatal"}]
         /\ waiting' \in [Domain -> BOOLEAN]
         /\ iTry' \in [Domain -> 0 .. Tries] /\ dt' \in [Domain -> 0 .. MaxDT]
         /\ conf' \in [Domain -> Configuration]
<1>0. TypeOK
  BY DEF SubcyclingInv
<1>1. /\ dt[d] \in 0 .. MaxDT /\ iTry[d] \in 0 .. Tries /\ MaxDT \in Nat
      /\ Tries \in Nat /\ Tries >= 1 /\ group[d] \in Group
      /\ base[d] \in Configuration /\ Remaining(d, group[d]) \in Int
  BY <1>0, StateTyped
<1>2. /\ dt' = [dt EXCEPT ![d] = Cut(dt[d])]
      /\ Cut(dt[d]) \in 0 .. MaxDT /\ Cut(dt[d]) <= dt[d]
  BY <1>1, CutStep DEF TryAgain
<1>3. /\ iTry' = [iTry EXCEPT ![d] = Least(iTry[d] + 1, Tries)]
      /\ Least(iTry[d] + 1, Tries) \in 1 .. Tries
  BY <1>1, LeastOfTwo DEF TryAgain
<1>4. conf' = [conf EXCEPT ![d] = base[d]]
  BY DEF TryAgain
<1>5. /\ pc' \in [Domain -> Evaluations \cup
                        {"errors", "counts", "driver", "done", "fatal"}]
      /\ waiting' \in [Domain -> BOOLEAN]
      /\ pc'[d] \in {"base", "fatal"} /\ (pc'[d] = "base" => dt'[d] >= 1)
  <2>1. CASE dt'[d] < 1
    BY <2>1, <1>0 DEF TryAgain, TypeOK
  <2>2. CASE ~(dt'[d] < 1)
    <3>1. Call(d, "base")
      BY <2>2 DEF TryAgain
    <3>2. dt'[d] >= 1
      BY <2>2, <1>0, <1>1, <1>2 DEF TypeOK
    <3> QED BY <3>1, <3>2, <1>0 DEF Call, TypeOK, Evaluations
  <2> QED BY <2>1, <2>2
<1>6. /\ iTry' \in [Domain -> 0 .. Tries] /\ dt' \in [Domain -> 0 .. MaxDT]
      /\ conf' \in [Domain -> Configuration]
  BY <1>1, <1>2, <1>3, <1>4 DEF SubcyclingInv, TypeOK
<1>7. dt'[d] <= dt[d] /\ dt'[d] \in Nat /\ iTry'[d] # 0 /\ conf'[d] = base[d]
  BY <1>1, <1>2, <1>3, <1>4 DEF SubcyclingInv, TypeOK
<1>8. StepsInv(d)'
  <2>1. Lowers(d) => dt'[d] <= Remaining(d, group[d])
    BY <1>1, <1>7 DEF SubcyclingInv, DomainInv, StepsInv
  <2> QED BY <1>5, <1>7, <2>1 DEF SubcyclingInv, DomainInv, StepsInv, Trying, Lowers,
             Highests, Counted, Remaining, OuterDT, stepVars
<1>9. PlacesInv(d)'
  BY <1>5, <1>7 DEF SubcyclingInv, DomainInv, PlacesInv, Trying, Counted, stepVars
<1>10. FrozenInv(d)'
  BY DEF SubcyclingInv, DomainInv, FrozenInv
<1> QED BY <1>5, <1>6, <1>8, <1>9, <1>10 DEF DomainInv

(* A step in the collective calls of a try.                                *)
LEMMA BaseStep ==
  ASSUME SubcyclingInv, NEW d \in Domain, BaseEvaluated(d)
  PROVE  TypeOK' /\ DomainInv(d)'
<1>0. TypeOK /\ DomainInv(d) /\ Trying(d) /\ pc[d] = "base"
  BY DEF SubcyclingInv, BaseEvaluated, Returned, Trying
<1>1. CASE mobError[d]
  <2>1. TryAgain(d) /\ UNCHANGED <<group, oldGroup, nSub, stepVars, base, flag,
                                  cache, pairGroup>>
    BY <1>1 DEF BaseEvaluated
  <2> QED BY <1>0, <2>1, TryAgainStep DEF TypeOK, stepVars
<1>2. CASE ~mobError[d]
  <2>1. /\ MoveRKFNodes(d) /\ Call(d, "stages")
        /\ UNCHANGED <<dt, iTry, group, oldGroup, nSub, stepVars, base, pairGroup, flag>>
    BY <1>2 DEF BaseEvaluated
  <2>2. conf[d] \in Configuration /\ PairsIn(group[d]) \subseteq Pair
    BY <1>0, StateTyped DEF PairsIn
  <2>3. cache' \in [Domain -> [Group -> [pairs : SUBSET Pair, at : Configuration]]]
    <3>1. cache[d] \in [Group -> [pairs : SUBSET Pair, at : Configuration]]
      BY <1>0 DEF TypeOK
    <3>2. [cache[d] EXCEPT ![group[d]] = [pairs |-> PairsIn(group[d]), at |-> conf[d]]]
            \in [Group -> [pairs : SUBSET Pair, at : Configuration]]
      BY <2>2, <3>1
    <3> QED BY <1>0, <1>2, <3>2 DEF BaseEvaluated, TypeOK
  <2>4. conf' \in [Domain -> Configuration]
    <3>1. [conf[d] EXCEPT !.trial = TRUE] \in Configuration
      BY <2>2 DEF Configuration
    <3> QED BY <1>0, <2>1, <3>1 DEF MoveRKFNodes, TypeOK
  <2>5. /\ pc' \in [Domain -> Evaluations \cup
                     {"errors", "counts", "driver", "done", "fatal"}]
        /\ waiting' \in [Domain -> BOOLEAN] /\ pc'[d] = "stages"
    BY <1>0, <2>1 DEF Call, TypeOK, Evaluations
  <2>6. TypeOK'
    BY <1>0, <2>1, <2>3, <2>4, <2>5 DEF TypeOK, stepVars
  <2>7. DomainInv(d)'
    BY <1>0, <2>1, <2>5 DEF DomainInv, StepsInv, PlacesInv, FrozenInv, Trying, Lowers,
       Highests, Counted, Attempt, Remaining, OuterDT, stepVars
  <2> QED BY <2>6, <2>7
<1> QED BY <1>1, <1>2

(* Nodes are flagged in the highest group only, and none is frozen there.  *)
LEMMA StagesStep ==
  ASSUME SubcyclingInv, NEW d \in Domain, StagesEvaluated(d)
  PROVE  TypeOK' /\ DomainInv(d)'
<1>0. TypeOK /\ DomainInv(d) /\ Trying(d) /\ pc[d] = "stages"
  BY DEF SubcyclingInv, StagesEvaluated, Returned, Trying
<1>1. CASE mobError[d]
  <2>1. TryAgain(d) /\ UNCHANGED <<group, oldGroup, nSub, stepVars, base, flag,
                                  cache, pairGroup>>
    BY <1>1 DEF StagesEvaluated
  <2> QED BY <1>0, <2>1, TryAgainStep DEF TypeOK, stepVars
<1>2. CASE ~mobError[d]
  <2>1. /\ Call(d, "errors")
        /\ UNCHANGED <<dt, iTry, conf, group, oldGroup, nSub, stepVars, base, cache,
                       pairGroup>>
    BY <1>2 DEF StagesEvaluated
  <2>2. flag[d] \in [Node -> 0 .. 2]
    BY <1>0 DEF TypeOK
  <2>3. /\ flag' \in [Domain -> [Node -> 0 .. 2]]
        /\ \A n \in Node : flag'[d][n] = 0 => flag[d][n] = 0
    <3> DEFINE flagged ==
          [n \in Node |-> IF group[d] = Highest /\ iTry[d] < Tries /\ flag[d][n] > 0
                          THEN IF verdict[d][n] = "error" THEN 2 ELSE 1
                          ELSE flag[d][n]]
    <3>1. flag' = [flag EXCEPT ![d] = flagged]
      BY <1>2 DEF StagesEvaluated
    <3>2. flagged \in [Node -> 0 .. 2]
      BY <2>2
    <3>3. \A n \in Node : flagged[n] = 0 => flag[d][n] = 0
      BY <2>2
    <3> HIDE DEF flagged
    <3> QED BY <1>0, <3>1, <3>2, <3>3 DEF TypeOK
  <2>4. /\ pc' \in [Domain -> Evaluations \cup
                     {"errors", "counts", "driver", "done", "fatal"}]
        /\ waiting' \in [Domain -> BOOLEAN] /\ pc'[d] = "errors"
    BY <1>0, <2>1 DEF Call, TypeOK, Evaluations
  <2>5. TypeOK'
    BY <1>0, <2>1, <2>3, <2>4 DEF TypeOK, stepVars
  <2>6. DomainInv(d)'
    BY <1>0, <2>1, <2>3, <2>4 DEF DomainInv, StepsInv, PlacesInv, FrozenInv, Trying,
       Lowers, Highests, Counted, Attempt, Remaining, OuterDT, stepVars
  <2> QED BY <2>5, <2>6
<1> QED BY <1>1, <1>2

(* Pairs that are moved go to a group.                                     *)
LEMMA ErrorsStep ==
  ASSUME SubcyclingInv, NEW d \in Domain, ErrorsReduced(d)
  PROVE  TypeOK' /\ DomainInv(d)'
<1>0. TypeOK /\ DomainInv(d) /\ Trying(d) /\ pc[d] = "errors"
  BY DEF SubcyclingInv, ErrorsReduced, Returned, Trying
<1>1. CASE ~Converged(d)
  <2>1. TryAgain(d) /\ UNCHANGED <<group, oldGroup, nSub, stepVars, base, flag, cache>>
    BY <1>1 DEF ErrorsReduced
  <2>2. pairGroup' \in [Pair -> Group]
    BY <1>0, <1>1, Groups DEF ErrorsReduced, TypeOK
  <2> QED BY <1>0, <2>1, <2>2, TryAgainStep DEF TypeOK, stepVars
<1>2. CASE Converged(d)
  <2>1. /\ MoveRKFNodes(d) /\ Call(d, "final")
        /\ UNCHANGED <<dt, iTry, pairGroup, group, oldGroup, nSub, stepVars, base, cache,
                       flag>>
    BY <1>2 DEF ErrorsReduced
  <2>2. conf' \in [Domain -> Configuration]
    <3>1. [conf[d] EXCEPT !.trial = TRUE] \in Configuration
      BY <1>0, StateTyped DEF Configuration
    <3> QED BY <1>0, <2>1, <3>1 DEF MoveRKFNodes, TypeOK
  <2>3. /\ pc' \in [Domain -> Evaluations \cup
                     {"errors", "counts", "driver", "done", "fatal"}]
        /\ waiting' \in [Domain -> BOOLEAN] /\ pc'[d] = "final"
    BY <1>0, <2>1 DEF Call, TypeOK, Evaluations
  <2>4. TypeOK'
    BY <1>0, <2>1, <2>2, <2>3 DEF TypeOK, stepVars
  <2>5. DomainInv(d)'
    BY <1>0, <2>1, <2>3 DEF DomainInv, StepsInv, PlacesInv, FrozenInv, Trying, Lowers,
       Highests, Counted, Attempt, Remaining, OuterDT, stepVars
  <2> QED BY <2>4, <2>5
<1> QED BY <1>1, <1>2

LEMMA RejectedStep ==
  ASSUME SubcyclingInv, NEW d \in Domain, FinalRejected(d)
  PROVE  TypeOK' /\ DomainInv(d)'
<1>1. /\ TypeOK /\ Trying(d) /\ TryAgain(d)
      /\ UNCHANGED <<group, oldGroup, nSub, stepVars, base, flag, cache, pairGroup>>
  BY DEF SubcyclingInv, FinalRejected, Returned, Trying
<1> QED BY <1>1, TryAgainStep DEF TypeOK, stepVars

(* What is proposed is a step, and no shorter than the accepted one.       *)
LEMMA ProposalTyped ==
  ASSUME TypeOK, NEW d \in Domain, dt[d] >= 1
  PROVE  Proposal(d) \in 1 .. MaxDT /\ Proposal(d) >= dt[d]
<1>1. MaxDT \in Nat /\ dt[d] \in 1 .. MaxDT
  BY StateTyped
<1> QED BY <1>1, LeastOfTwo DEF Proposal, Least

(* The step of the highest group becomes the outer step.                   *)
LEMMA HighestStep ==
  ASSUME SubcyclingInv, NEW d \in Domain, HighestAccepted(d)
  PROVE  TypeOK' /\ DomainInv(d)'
<1>0. TypeOK /\ DomainInv(d) /\ Trying(d) /\ Highests(d)
  BY DEF SubcyclingInv, HighestAccepted, Returned, Trying, Highests
<1>1. /\ dt[d] \in 0 .. MaxDT /\ dt[d] >= 1 /\ Proposal(d) \in 1 .. MaxDT
      /\ base[d] \in Configuration /\ base[d] = Physical(subTime[d][0])
      /\ \A g \in Group : subTime[d][g] = 0
  BY <1>0, StateTyped, ProposalTyped DEF DomainInv, StepsInv, PlacesInv
<1>2. /\ pc' \in [Domain -> Evaluations \cup
                 {"errors", "counts", "driver", "done", "fatal"}]
      /\ waiting' \in [Domain -> BOOLEAN] /\ pc'[d] = "counts"
  BY <1>0 DEF HighestAccepted, Call, TypeOK
<1>3. /\ realDT' \in [Domain -> [Group -> 0 .. MaxDT]]
      /\ nextDT' \in [Domain -> [Group -> 1 .. MaxDT]]
      /\ conf' \in [Domain -> Configuration] /\ conf'[d] = base[d]
  BY <1>0, <1>1, Groups DEF HighestAccepted, TypeOK
<1>4. UNCHANGED <<group, oldGroup, nSub, dt, iTry, subTime, base, cache, pairGroup, flag>>
  BY DEF HighestAccepted
<1>5. TypeOK'
  BY <1>0, <1>2, <1>3, <1>4 DEF TypeOK
<1>6. DomainInv(d)'
  BY <1>0, <1>1, <1>2, <1>3, <1>4 DEF DomainInv, StepsInv, PlacesInv, FrozenInv, Trying,
     Lowers, Highests, Counted
<1> QED BY <1>5, <1>6

(* Groups are at the beginning or, without pairs, at the end.              *)
LEMMA CountedStep ==
  ASSUME SubcyclingInv, NEW d \in Domain, PairsCounted(d)
  PROVE  TypeOK' /\ DomainInv(d)'
<1>0. TypeOK /\ DomainInv(d) /\ pc[d] = "counts"
  BY DEF SubcyclingInv, PairsCounted, Returned
<1>1. /\ OuterDT(d) \in 0 .. MaxDT /\ MaxDT \in Nat
      /\ subTime[d] \in [Group -> 0 .. MaxDT]
      /\ \A g \in Group : subTime[d][g] = 0
  BY <1>0, StateTyped DEF DomainInv, StepsInv
<1> DEFINE times == [g \in Group |-> IF g \in 1 .. Lower /\ PairsIn(g) = {}
                                    THEN OuterDT(d) ELSE subTime[d][g]]
<1>2. subTime' = [subTime EXCEPT ![d] = times]
  BY DEF PairsCounted
<1>3. /\ times \in [Group -> 0 .. MaxDT] /\ times[0] = 0
      /\ \A g \in Group : times[g] <= OuterDT(d)
  BY <1>1, Groups
<1> HIDE DEF times
<1>4. /\ pc' = [pc EXCEPT ![d] = "driver"]
      /\ UNCHANGED <<waiting, group, oldGroup, nSub, dt, iTry, nextDT, realDT, conf, base,
                     cache, pairGroup, flag>>
  BY DEF PairsCounted
<1>5. pc'[d] = "driver" /\ subTime'[d] = times /\ subTime[d][0] = 0
  BY <1>0, <1>1, <1>2, <1>4, Groups DEF TypeOK
<1>6. TypeOK'
  BY <1>0, <1>2, <1>3, <1>4 DEF TypeOK
<1>7. DomainInv(d)'
  BY <1>0, <1>3, <1>4, <1>5 DEF DomainInv, StepsInv, PlacesInv, FrozenInv, Trying,
     Lowers, Highests, Counted, OuterDT
<1> QED BY <1>6, <1>7

(* The driver picks a group that is behind: group 0 is not at the end, so  *)
(* neither is the one picked, and what is attempted is a step.             *)
LEMMA AttemptTyped ==
  ASSUME SubcyclingInv, NEW d \in Domain, pc[d] = "driver",
         subTime[d][0] < OuterDT(d), NEW g \in 0 .. Lower, Behind(d, g)
  PROVE  /\ g \in Group /\ g # Highest
         /\ Attempt(d, g) \in 1 .. MaxDT /\ Attempt(d, g) <= Remaining(d, g)
<1>0. TypeOK /\ DomainInv(d)
  BY DEF SubcyclingInv
<1>1. g \in Group /\ g # Highest /\ 0 \in 0 .. Lower /\ 0 \in Group
  BY Groups DEF Group
<1>2. /\ subTime[d][g] \in Nat /\ subTime[d][0] \in Nat /\ OuterDT(d) \in 0 .. MaxDT
      /\ nextDT[d][g] \in 1 .. MaxDT /\ MaxDT \in Nat
  BY <1>0, <1>1, StateTyped
<1>3. subTime[d][g] <= subTime[d][0]
  BY <1>1 DEF Behind
<1>4. Remaining(d, g) \in 1 .. MaxDT
  BY <1>2, <1>3 DEF Remaining
<1>5. Attempt(d, g) \in {nextDT[d][g], Remaining(d, g)} /\ Attempt(d, g) <= Remaining(d, g)
  BY <1>2, <1>4, LeastOfTwo DEF Attempt
<1> QED BY <1>1, <1>2, <1>4, <1>5

LEMMA DriverStep ==
  ASSUME SubcyclingInv, NEW d \in Domain, NextSubcycle(d)
  PROVE  TypeOK' /\ DomainInv(d)'
<1>0. TypeOK /\ DomainInv(d) /\ pc[d] = "driver" /\ Counted(d) /\ ~Trying(d)
  BY DEF SubcyclingInv, NextSubcycle, Counted, Trying
<1>1. PICK g \in 0 .. Lower :
        /\ Behind(d, g)
        /\ nSub' = [nSub EXCEPT ![d] = IF g # oldGroup[d] THEN 0 ELSE @]
        /\ flag' = [flag EXCEPT ![d] = IF Resets(d, g) THEN None ELSE @]
        /\ oldGroup' = [oldGroup EXCEPT ![d] = g]
        /\ group' = [group EXCEPT ![d] = g]
        /\ dt' = [dt EXCEPT ![d] = Attempt(d, g)]
  BY DEF NextSubcycle
<1>2. /\ g \in Group /\ g # Highest /\ g \in 0 .. NumGroups
      /\ Attempt(d, g) \in 1 .. MaxDT /\ Attempt(d, g) <= Remaining(d, g)
  BY <1>0, <1>1, AttemptTyped, Groups DEF NextSubcycle, Group
<1>3. /\ base' = [base EXCEPT ![d] = conf[d]]
      /\ iTry' = [iTry EXCEPT ![d] = 0] /\ Call(d, "base")
      /\ UNCHANGED <<stepVars, conf, cache, pairGroup>>
  BY DEF NextSubcycle
<1>4. /\ conf[d] \in Configuration /\ flag[d] \in [Node -> 0 .. 2]
      /\ nSub[d] \in 0 .. Patience + 1 /\ MaxDT \in Nat /\ Tries \in Nat
      /\ Patience \in Nat
  BY <1>0, StateTyped
<1>5. /\ pc' \in [Domain -> Evaluations \cup
                 {"errors", "counts", "driver", "done", "fatal"}]
      /\ waiting' \in [Domain -> BOOLEAN] /\ pc'[d] = "base"
  BY <1>0, <1>3 DEF Call, TypeOK, Evaluations
<1>6. /\ nSub' \in [Domain -> 0 .. Patience + 1]
      /\ flag' \in [Domain -> [Node -> 0 .. 2]]
      /\ oldGroup' \in [Domain -> 0 .. NumGroups] /\ group' \in [Domain -> Group]
      /\ dt' \in [Domain -> 0 .. MaxDT] /\ iTry' \in [Domain -> 0 .. Tries]
      /\ base' \in [Domain -> Configuration]
  <2>1. None \in [Node -> 0 .. 2]
    BY DEF None
  <2> QED BY <1>0, <1>1, <1>2, <1>3, <1>4, <2>1 DEF TypeOK
<1>7. /\ group'[d] = g /\ oldGroup'[d] = g /\ dt'[d] = Attempt(d, g) /\ iTry'[d] = 0
      /\ base'[d] = conf[d]
  BY <1>0, <1>1, <1>3 DEF TypeOK
<1>8. \A n \in Node : flag'[d][n] = 0 => nSub'[d] > Patience
  <2>1. CASE g # oldGroup[d]
    BY <1>0, <1>1, <2>1 DEF Resets, None, TypeOK
  <2>2. CASE g = oldGroup[d]
    BY <1>0, <1>1, <2>2 DEF Resets, TypeOK, DomainInv, FrozenInv
  <2> QED BY <2>1, <2>2
<1>9. TypeOK'
  BY <1>0, <1>3, <1>5, <1>6 DEF TypeOK, stepVars
<1>10. StepsInv(d)'
  BY <1>0, <1>2, <1>3, <1>5, <1>7 DEF DomainInv, StepsInv, Trying, Lowers, Highests,
     Counted, Attempt, Remaining, OuterDT, stepVars
<1>11. PlacesInv(d)' /\ FrozenInv(d)'
  BY <1>0, <1>2, <1>3, <1>5, <1>7, <1>8 DEF DomainInv, PlacesInv, FrozenInv, Trying,
     Counted, stepVars
<1> QED BY <1>9, <1>10, <1>11 DEF DomainInv

(* A lower group's step is accepted: the network has moved if it was group *)
(* 0, and is where it was otherwise.                                       *)
LEMMA GroupStep ==
  ASSUME SubcyclingInv, NEW d \in Domain, GroupAccepted(d)
  PROVE  TypeOK' /\ DomainInv(d)'
<1> DEFINE g == group[d]
<1>0. TypeOK /\ DomainInv(d) /\ Trying(d) /\ Lowers(d) /\ g # Highest
  BY DEF SubcyclingInv, GroupAccepted, Returned, Trying, Lowers
<1>1. /\ MaxDT \in Nat /\ dt[d] \in 1 .. MaxDT /\ Patience \in Nat
      /\ nSub[d] \in 0 .. Patience + 1 /\ g \in Group
      /\ flag[d] \in [Node -> 0 .. 2] /\ Proposal(d) \in 1 .. MaxDT
      /\ base[d] \in Configuration /\ base[d] = Physical(subTime[d][0])
      /\ OuterDT(d) \in 0 .. MaxDT
      /\ \A h \in Group : subTime[d][h] \in Nat
      /\ \A h \in Group \ {Highest} : subTime[d][h] <= OuterDT(d)
      /\ dt[d] <= OuterDT(d) - subTime[d][g]
  BY <1>0, StateTyped, ProposalTyped DEF DomainInv, StepsInv, PlacesInv, Remaining
<1>2. subTime[d][g] + dt[d] \in 0 .. OuterDT(d) /\ subTime[d][g] + dt[d] \in 0 .. MaxDT
  BY <1>1
<1>3. /\ realDT' = [realDT EXCEPT ![d][g] = dt[d]]
      /\ subTime' = [subTime EXCEPT ![d][g] = subTime[d][g] + dt[d]]
      /\ conf' = [conf EXCEPT ![d] = AcceptedConf(d, g)]
      /\ nSub' = [nSub EXCEPT ![d] = Least(nSub[d] + 1, Patience + 1)]
      /\ pc' = [pc EXCEPT ![d] = "driver"]
      /\ UNCHANGED <<waiting, group, oldGroup, dt, iTry, base, cache, pairGroup>>
  BY DEF GroupAccepted
<1>4. /\ realDT' \in [Domain -> [Group -> 0 .. MaxDT]]
      /\ nextDT' \in [Domain -> [Group -> 1 .. MaxDT]]
      /\ subTime' \in [Domain -> [Group -> 0 .. MaxDT]]
  BY <1>0, <1>1, <1>2, <1>3 DEF GroupAccepted, TypeOK
<1>5. /\ OuterDT(d)' = OuterDT(d) /\ subTime'[d][g] = subTime[d][g] + dt[d]
      /\ \A h \in Group \ {g} : subTime'[d][h] = subTime[d][h]
  BY <1>0, <1>1, <1>3, Groups DEF OuterDT, TypeOK
<1>6. AcceptedConf(d, g) = Physical(subTime'[d][0])
  <2>1. CASE g = 0
    <3>1. base[d].time = subTime[d][0]
      BY <1>1 DEF Physical
    <3>2. base[d].time + dt[d] = subTime'[d][0]
      BY <1>5, <2>1, <3>1
    <3>3. AcceptedConf(d, g) = Physical(base[d].time + dt[d])
      BY <2>1 DEF AcceptedConf
    <3> QED BY <3>2, <3>3
  <2>2. CASE g # 0
    BY <1>1, <1>5, <2>2, Groups DEF AcceptedConf
  <2> QED BY <2>1, <2>2
<1>7. conf' \in [Domain -> Configuration] /\ conf'[d] = Physical(subTime'[d][0])
  <2>1. subTime'[d][0] \in 0 .. MaxDT
    BY <1>4, Groups
  <2> QED BY <1>0, <1>3, <1>6, <2>1, PhysicalTyped DEF TypeOK
<1>8. /\ nSub' \in [Domain -> 0 .. Patience + 1]
      /\ nSub[d] > Patience => nSub'[d] > Patience
  BY <1>0, <1>1, <1>3, LeastOfTwo DEF TypeOK, Least
<1>9. /\ flag' \in [Domain -> [Node -> 0 .. 2]]
      /\ \A n \in Node : flag'[d][n] = 0 => nSub'[d] > Patience
  <2> DEFINE frozen ==
        [n \in Node |-> IF nSub[d] > Patience /\ n \in CheckedNodes(d) /\ reversed[d][n]
                        THEN 0 ELSE flag[d][n]]
  <2>1. flag' = [flag EXCEPT ![d] = frozen]
    BY DEF GroupAccepted
  <2>2. frozen \in [Node -> 0 .. 2]
    BY <1>1
  <2>3. \A n \in Node : frozen[n] = 0 => nSub[d] > Patience
    BY <1>0 DEF DomainInv, FrozenInv
  <2> HIDE DEF frozen
  <2> QED BY <1>0, <1>8, <2>1, <2>2, <2>3 DEF TypeOK
<1>10. pc' \in [Domain -> Evaluations \cup
                  {"errors", "counts", "driver", "done", "fatal"}] /\ pc'[d] = "driver"
  BY <1>0, <1>3 DEF TypeOK
<1>11. TypeOK'
  BY <1>0, <1>3, <1>4, <1>7, <1>8, <1>9, <1>10 DEF TypeOK
<1>12. StepsInv(d)'
  <2>1. \A h \in Group \ {Highest} : subTime'[d][h] <= OuterDT(d)'
    BY <1>1, <1>2, <1>5
  <2> QED BY <1>10, <2>1 DEF StepsInv, Trying, Lowers, Highests, Counted
<1>13. PlacesInv(d)' /\ FrozenInv(d)'
  BY <1>0, <1>3, <1>7, <1>9, <1>10 DEF DomainInv, PlacesInv, FrozenInv, Trying, Counted
<1> QED BY <1>11, <1>12, <1>13 DEF DomainInv

(* The end of the cycle.                                                   *)
LEMMA EndStep ==
  ASSUME SubcyclingInv, NEW d \in Domain, FinishSubcycling(d) \/ FullEvaluated(d)
  PROVE  TypeOK' /\ DomainInv(d)'
<1>0. TypeOK /\ DomainInv(d)
  BY DEF SubcyclingInv
<1>1. /\ pc' \in [Domain -> Evaluations \cup
                 {"errors", "counts", "driver", "done", "fatal"}]
      /\ waiting' \in [Domain -> BOOLEAN]
      /\ pc[d] \in {"driver", "full"} /\ pc'[d] \in {"full", "done", "fatal"}
      /\ pc[d] = "driver" => subTime[d][0] >= OuterDT(d)
      /\ UNCHANGED <<group, oldGroup, nSub, dt, iTry, stepVars, conf, base, cache,
                     pairGroup, flag>>
  BY <1>0 DEF FinishSubcycling, FullEvaluated, Returned, Call, TypeOK, Evaluations
<1>2. TypeOK'
  BY <1>0, <1>1 DEF TypeOK, stepVars
<1>3. subTime[d][0] = OuterDT(d)
  <2>1. subTime[d][0] \in Nat /\ OuterDT(d) \in Nat /\ subTime[d][0] <= OuterDT(d)
    BY <1>0, <1>1, StateTyped, Groups DEF DomainInv, StepsInv, Counted
  <2> QED BY <1>0, <1>1, <2>1 DEF DomainInv, StepsInv
<1>4. DomainInv(d)'
  BY <1>0, <1>1, <1>3 DEF DomainInv, StepsInv, PlacesInv, FrozenInv, Trying, Lowers,
     Highests, Counted, OuterDT, stepVars
<1> QED BY <1>2, <1>4

(* Collective calls change nothing but what is seen, and every step keeps  *)
(* the invariant.                                                          *)
LEMMA InvStep == SubcyclingInv /\ [Next]_vars => SubcyclingInv'
<1> SUFFICES ASSUME SubcyclingInv, [Next]_vars PROVE SubcyclingInv'
  OBVIOUS
<1>0. TypeOK /\ \A d \in Domain : DomainInv(d)
  BY DEF SubcyclingInv
<1>1. CASE Reduce \/ UNCHANGED vars
  <2>1. UNCHANGED <<pc, group, oldGroup, nSub, dt, iTry, stepVars, conf, base, cache,
                    pairGroup, flag>>
    BY <1>1 DEF Reduce, vars
  <2>2. waiting' \in [Domain -> BOOLEAN]
    BY <1>0, <1>1 DEF Reduce, vars, TypeOK
  <2>3. TypeOK'
    BY <1>0, <2>1, <2>2 DEF TypeOK, stepVars
  <2>4. ASSUME NEW d \in Domain PROVE DomainInv(d)'
    <3>1. UNCHANGED State(d)
      BY <2>1 DEF State, stepVars
    <3> QED BY <1>0, <3>1, Frame
  <2> QED BY <2>3, <2>4 DEF SubcyclingInv
<1>2. ASSUME NEW d \in Domain, DomainStep(d) PROVE SubcyclingInv'
  <2>1. TypeOK' /\ DomainInv(d)'
    BY <1>2, BaseStep, StagesStep, ErrorsStep, RejectedStep, HighestStep, CountedStep,
       GroupStep, DriverStep, EndStep DEF DomainStep
  <2>2. ASSUME NEW e \in Domain \ {d} PROVE DomainInv(e)'
    <3>1. UNCHANGED State(e)
      BY <1>0, <1>2, OthersStay
    <3> QED BY <1>0, <3>1, Frame
  <2> QED BY <2>1, <2>2 DEF SubcyclingInv
<1> QED BY <1>1, <1>2 DEF Next

(* The invariant holds throughout a cycle (SubcyclingIntegrator).          *)
THEOREM SubcyclingInvariant == Spec => []SubcyclingInv
<1> QED BY InvInit, InvStep, PTL DEF Spec

(* Types: no step is longer than maxDT or the rest of the cycle, and times *)
(* of groups stay within the cycle (the clipping of attemptDT).            *)
THEOREM SubcyclingTyped == Spec => []TypeOK
<1>1. SubcyclingInv => TypeOK
  BY DEF SubcyclingInv
<1> QED BY <1>1, SubcyclingInvariant, PTL

(* Every try begins at the physical configuration, and a cycle that is     *)
(* done has moved the network by exactly the outer step, although virtual  *)
(* groups and rejected tries move nodes too (AdaptiveRKFStep).             *)
THEOREM NetworkMovesByOuterStep == Spec => []NetworkAtSubTime
<1>1. SubcyclingInv => NetworkAtSubTime
  <2> SUFFICES ASSUME SubcyclingInv, NEW d \in Domain
               PROVE  /\ waiting[d] /\ pc[d] = "base" => conf[d] = Physical(subTime[d][0])
                      /\ pc[d] = "done" => conf[d] = Physical(OuterDT(d))
    BY DEF NetworkAtSubTime
  <2> QED BY DEF SubcyclingInv, DomainInv, StepsInv, PlacesInv, Trying, Counted
<1> QED BY <1>1, SubcyclingInvariant, PTL

(* Frozen nodes are those of the group at work, which has worked for more  *)
(* than the patience of ForwardProgressCheck.                              *)
THEOREM FrozenNodesOfOneGroup == Spec => []FrozenInOneGroup
<1>1. SubcyclingInv => FrozenInOneGroup
  BY DEF SubcyclingInv, DomainInv, FrozenInv, FrozenInOneGroup
<1> QED BY <1>1, SubcyclingInvariant, PTL

(* A proposal is lowered only for the group at work and only after one of  *)
(* its tries was rejected: clipping to the end of the cycle does not lower *)
(* it, and an accepted first try does not either.                          *)
LEMMA LoweringStep ==
  ASSUME SubcyclingInv, NEW d \in Domain, DomainStep(d), NEW e \in Domain,
         NEW g \in Group, Lowered(e, g)
  PROVE  group[e] = g /\ iTry[e] > 0
<1>0. TypeOK /\ DomainInv(d)
  BY DEF SubcyclingInv
<1>1. /\ nextDT[e][g] \in Nat /\ nextDT'[e][g] # nextDT[e][g]
      /\ nextDT'[e][g] < nextDT[e][g]
  BY <1>0, StateTyped DEF Lowered
<1>2. CASE HighestAccepted(d)
  <2>1. e = d /\ g = Highest /\ nextDT'[e][g] = Proposal(d)
    BY <1>0, <1>1, <1>2 DEF HighestAccepted, TypeOK
  <2>2. Highests(d) /\ Trying(d) /\ group[d] = Highest
    BY <1>2 DEF HighestAccepted, Returned, Highests, Trying
  <2>3. iTry[d] # 0
    BY <1>0, <1>1, <2>1, <2>2, ProposalTyped, StateTyped DEF DomainInv, StepsInv
  <2> QED BY <1>0, <2>1, <2>2, <2>3, StateTyped
<1>3. CASE GroupAccepted(d)
  <2>1. /\ e = d /\ g = group[d] /\ nextDT'[e][g] = Proposal(d)
        /\ ~KeepsProposal(d, g)
    BY <1>0, <1>1, <1>3 DEF GroupAccepted, TypeOK
  <2>2. Lowers(d) /\ Trying(d)
    BY <1>3 DEF GroupAccepted, Returned, Lowers, Trying
  <2>3. /\ Proposal(d) >= dt[d] /\ Proposal(d) \in Nat /\ dt[d] \in Nat
        /\ nextDT[d][g] \in Nat /\ Remaining(d, g) \in Int
    BY <1>0, <2>1, <2>2, ProposalTyped, StateTyped DEF DomainInv, StepsInv
  <2>4. iTry[d] # 0
    BY <1>0, <1>1, <2>1, <2>2, <2>3 DEF DomainInv, StepsInv, KeepsProposal, Attempt, Least
  <2> QED BY <1>0, <2>1, <2>4, StateTyped
<1>4. CASE ~HighestAccepted(d) /\ ~GroupAccepted(d)
  <2>1. UNCHANGED nextDT
    BY <1>4 DEF DomainStep, BaseEvaluated, StagesEvaluated, ErrorsReduced, FinalRejected,
       PairsCounted, NextSubcycle, FinishSubcycling, FullEvaluated, stepVars
  <2> QED BY <1>1, <2>1
<1> QED BY <1>2, <1>3, <1>4

THEOREM ProposalsKept == Spec => OnlyRejectionsLower
<1>1. SubcyclingInv /\ [Next]_vars =>
        [\A d \in Domain : \A g \in Group :
           Lowered(d, g) => group[d] = g /\ iTry[d] > 0]_vars
  <2> SUFFICES ASSUME SubcyclingInv, Next, NEW e \in Domain, NEW g \in Group, Lowered(e, g)
               PROVE  group[e] = g /\ iTry[e] > 0
    OBVIOUS
  <2>1. nextDT' # nextDT
    BY StateTyped DEF Lowered, SubcyclingInv
  <2>2. PICK d \in Domain : DomainStep(d)
    BY <2>1 DEF Next, Reduce, vars, stepVars
  <2> QED BY <2>2, LoweringStep
<1> QED BY <1>1, SubcyclingInvariant, PTL DEF Spec, OnlyRejectionsLower
-----------------------------------------------------------------------------
(* Domains decide one after the other, each from its own copies.  What a   *)
(* domain does next, and what it makes of the nodes S, is a function of    *)
(* its own state, with the flags of S, and of the groups of the pairs; a   *)
(* domain that waits, or has ended, does nothing.                          *)

Of(values, S) == [n \in S |-> values[n]]
Run(d) == IF waiting[d] THEN "waits" ELSE "runs"
Seen(d, S) == [error |-> mobError[d], fine |-> Converged(d), nodes |-> S,
               verdict |-> Of(verdict[d], S), reversed |-> Of(reversed[d], S)]
Own(d, S) == [pc |-> pc[d], run |-> Run(d), group |-> group[d],
              oldGroup |-> oldGroup[d], nSub |-> nSub[d], dt |-> dt[d],
              iTry |-> iTry[d], sub |-> subTime[d], next |-> nextDT[d],
              real |-> realDT[d], conf |-> conf[d], base |-> base[d],
              cache |-> cache[d], flag |-> Of(flag[d], S), seen |-> Seen(d, S)]

Waits(s) == s.run = "waits" \/ s.pc \in {"done", "fatal"}
Rejects(s) == \/ s.pc \in {"base", "stages", "final"} /\ s.seen.error
              \/ s.pc = "errors" /\ ~s.seen.fine
Grouped(pg, g) == {p \in Pair : pg[p] = g}
Moved(c) == [c EXCEPT !.trial = TRUE]

Calling(s, name) == [s EXCEPT !.pc = name, !.run = "waits"]
Again(s) ==
  LET cut == [s EXCEPT !.iTry = Least(@ + 1, Tries), !.dt = Cut(@), !.conf = s.base]
  IN IF Cut(s.dt) < 1 THEN [cut EXCEPT !.pc = "fatal"] ELSE Calling(cut, "base")
FromBase(s, pg) ==
  Calling([s EXCEPT !.cache = IF s.group > 0
                              THEN [@ EXCEPT ![s.group] = [pairs |-> Grouped(pg, s.group),
                                                           at |-> s.conf]]
                              ELSE @,
                    !.conf = Moved(@)], "stages")
FromStages(s) ==
  Calling([s EXCEPT !.flag =
             [n \in s.seen.nodes |-> IF s.group = Highest /\ s.iTry < Tries /\ @[n] > 0
                                THEN IF s.seen.verdict[n] = "error" THEN 2 ELSE 1
                                ELSE @[n]]], "errors")
FromErrors(s) == Calling([s EXCEPT !.conf = Moved(@)], "final")
Proposes(s) == IF s.iTry = 0 THEN Least(MaxDT, 2 * s.dt) ELSE s.dt
Attempts(s, g) == Least(s.next[g], s.real[Highest] - s.sub[g])
FromHighest(s) ==
  Calling([s EXCEPT !.real = [@ EXCEPT ![Highest] = s.dt],
                    !.next = [@ EXCEPT ![Highest] = Proposes(s)],
                    !.conf = s.base], "counts")
FromGroup(s) ==
  [s EXCEPT
     !.pc = "driver",
     !.real = [@ EXCEPT ![s.group] = s.dt],
     !.next = IF Attempts(s, s.group) < @[s.group] /\ s.dt = Attempts(s, s.group)
              THEN @ ELSE [@ EXCEPT ![s.group] = Proposes(s)],
     !.conf = IF s.group = 0 THEN Physical(s.base.time + s.dt) ELSE s.base,
     !.flag = [n \in s.seen.nodes |-> IF s.nSub > Patience /\ s.seen.reversed[n] THEN 0 ELSE @[n]],
     !.nSub = Least(@ + 1, Patience + 1),
     !.sub = [@ EXCEPT ![s.group] = s.sub[s.group] + s.dt]]
FromCounts(s, pg) ==
  [s EXCEPT !.pc = "driver",
            !.sub = [g \in Group |-> IF g \in 1 .. Lower /\ Grouped(pg, g) = {}
                                     THEN s.real[Highest] ELSE @[g]]]
(* The group that is furthest behind.                                      *)
Furthest(s) == CHOOSE g \in 0 .. Lower :
              /\ \A h \in 0 .. Lower : s.sub[g] <= s.sub[h]
              /\ \A h \in g + 1 .. Lower : s.sub[g] < s.sub[h]
Starts(s, g) ==
  Calling([s EXCEPT !.nSub = IF g # s.oldGroup THEN 0 ELSE @,
                    !.flag = IF g # s.oldGroup THEN Of(None, s.seen.nodes) ELSE @,
                    !.oldGroup = g, !.group = g, !.dt = Attempts(s, g),
                    !.base = s.conf, !.iTry = 0], "base")
FromDriver(s) == IF s.sub[0] < s.real[Highest] THEN Starts(s, Furthest(s))
                 ELSE Calling(s, "full")
FromFull(s) == [s EXCEPT !.pc = IF s.seen.error THEN "fatal" ELSE "done"]

Decided(s, pg) ==
  IF Waits(s) THEN s
  ELSE IF Rejects(s) THEN Again(s)
  ELSE IF s.pc = "base" THEN FromBase(s, pg)
  ELSE IF s.pc = "stages" THEN FromStages(s)
  ELSE IF s.pc = "errors" THEN FromErrors(s)
  ELSE IF s.pc = "final" /\ s.group = Highest THEN FromHighest(s)
  ELSE IF s.pc = "final" THEN FromGroup(s)
  ELSE IF s.pc = "counts" THEN FromCounts(s, pg)
  ELSE IF s.pc = "driver" THEN FromDriver(s)
  ELSE FromFull(s)

(* The domains that have the velocities of the nodes S anew: with no nodes,*)
(* all.  Of two of them one may be ahead of the other, by a decision or two.*)
Refreshing(S) == {d \in Domain : S \subseteq Refreshed(d)}
Ahead(s, t) == \/ t = s \/ t = Decided(s, pairGroup)
               \/ t = Decided(Decided(s, pairGroup), pairGroup)
InStep ==
  /\ \A d \in Domain : pc[d] = "driver" => ~waiting[d]
  /\ \A S \in SUBSET Node : \A d, e \in Refreshing(S) :
       Ahead(Own(d, S), Own(e, S)) \/ Ahead(Own(e, S), Own(d, S))

(* Groups that have taken a step have left the force of all their pairs at *)
(* a physical configuration, not too long ago; a group at work leaves its  *)
(* own at every try.                                                       *)
Saved(d, g) ==
  LET at == cache[d][g].at IN
  /\ cache[d][g].pairs = PairsIn(g)
  /\ ~at.trial /\ at.time <= subTime[d][0] /\ subTime[d][g] <= at.time + realDT[d][g]
CacheInv(d) ==
  /\ Highests(d) => \A g \in 1 .. Lower : cache[d][g].pairs = {}
  /\ pc[d] = "counts" => \A g \in 1 .. Lower : cache[d][g].pairs = {}
  /\ Trying(d) /\ pc[d] # "base" /\ group[d] > 0
       /\ (pc[d] = "errors" /\ group[d] = Highest => Converged(d)) =>
       cache[d][group[d]] = [pairs |-> PairsIn(group[d]), at |-> base[d]]
  /\ Lowers(d) \/ Counted(d) \/ pc[d] = "counts" =>
       cache[d][Highest] = [pairs |-> PairsIn(Highest), at |-> Physical(0)]
  /\ Lowers(d) \/ Counted(d) => \A g \in 1 .. Lower :
       /\ cache[d][g].pairs \subseteq PairsIn(g)
       /\ PairsIn(g) # {} /\ subTime[d][g] > 0 /\ ~(Lowers(d) /\ group[d] = g) => Saved(d, g)
  /\ Lowers(d) => Behind(d, group[d])
CachesInv == InStep /\ \A d \in Domain : CacheInv(d)

(* A state has these fields, and t is s but for the fields F.              *)
Fields == {"pc", "run", "group", "oldGroup", "nSub", "dt", "iTry", "sub", "next",
           "real", "conf", "base", "cache", "flag", "seen"}
IsOwn(s) == s = [f \in Fields |-> s[f]]
AllBut(s, t, F) == IsOwn(t) /\ \A f \in Fields \ F : t[f] = s[f]

(* The state of a domain has its fields and no others.                     *)
LEMMA OwnFields == \A d, S : IsOwn(Own(d, S))
BY DEF Own, Fields, IsOwn

(* Two states that differ from a third in the same fields, in the same     *)
(* way, are the same.                                                      *)
LEMMA SameOwn ==
  ASSUME NEW s, NEW t, NEW u, NEW F, AllBut(s, t, F), AllBut(s, u, F),
         \A f \in F : t[f] = u[f]
  PROVE  t = u
BY DEF AllBut, IsOwn

(* A decision keeps what has been seen, and a second one makes a domain wait. *)
LEMMA DecidedState ==
  ASSUME NEW s, NEW pg, IsOwn(s)
  PROVE  LET t == Decided(s, pg) IN
         /\ IsOwn(t)
         /\ t.seen = s.seen
         /\ Waits(t) \/ (t.pc = "driver" /\ ~Waits(s) /\ s.pc # "driver")
<1> USE DEF Waits, Calling, Fields, IsOwn
<1>1. CASE Waits(s)
  BY <1>1 DEF Decided
<1>2. CASE ~Waits(s) /\ Rejects(s)
  BY <1>2 DEF Decided, Again
<1>3. CASE ~Waits(s) /\ ~Rejects(s) /\ s.pc \in {"base", "stages", "errors"}
  BY <1>3 DEF Decided, FromBase, FromStages, FromErrors
<1>4. CASE ~Waits(s) /\ ~Rejects(s) /\ s.pc = "final"
  BY <1>4 DEF Decided, FromHighest, FromGroup
<1>5. CASE ~Waits(s) /\ ~Rejects(s) /\ s.pc = "driver"
  BY <1>5 DEF Decided, FromDriver, Starts
<1>6. CASE ~Waits(s) /\ ~Rejects(s) /\ s.pc \notin {"base", "stages", "errors", "final", "driver"}
  BY <1>6 DEF Decided, FromCounts, FromFull
<1> QED BY <1>1, <1>2, <1>3, <1>4, <1>5, <1>6

(* What a domain has seen depends on these variables alone.                *)
LEMMA SeenStays ==
  ASSUME NEW d, NEW S, UNCHANGED seenVars
  PROVE  Seen(d, S)' = Seen(d, S)
BY DEF Seen, Converged, seenVars

(* A rejected try.                                                         *)
LEMMA OwnAgain ==
  ASSUME TypeOK, NEW d \in Domain, NEW S, TryAgain(d),
         UNCHANGED <<group, oldGroup, nSub, stepVars, base, cache, flag, seenVars>>
  PROVE  Own(d, S)' = Again(Own(d, S))
<1> DEFINE F == {"pc", "run", "iTry", "dt", "conf"}
           t == Again(Own(d, S))
           u == Own(d, S)'
<1>1. /\ iTry'[d] = Least(iTry[d] + 1, Tries) /\ dt'[d] = Cut(dt[d])
      /\ conf'[d] = base[d]
      /\ pc'[d] = IF Cut(dt[d]) < 1 THEN "fatal" ELSE "base"
      /\ Run(d)' = IF Cut(dt[d]) < 1 THEN Run(d) ELSE "waits"
  BY DEF TryAgain, TypeOK, Call, Run
<1>2. AllBut(Own(d, S), u, F)
  <2>1. Seen(d, S)' = Seen(d, S)
    BY SeenStays
  <2> QED BY <2>1 DEF Own, AllBut, IsOwn, Fields, stepVars
<1>3. /\ u.iTry = Least(Own(d, S).iTry + 1, Tries) /\ u.dt = Cut(Own(d, S).dt)
      /\ u.conf = Own(d, S).base
      /\ u.pc = IF Cut(Own(d, S).dt) < 1 THEN "fatal" ELSE "base"
      /\ u.run = IF Cut(Own(d, S).dt) < 1 THEN Own(d, S).run ELSE "waits"
  BY <1>1 DEF Own
<1>4. AllBut(Own(d, S), t, F)
  <2> DEFINE s == Own(d, S)
  <2>1. IsOwn(s)
    BY OwnFields
  <2> HIDE DEF s
  <2>2. AllBut(s, Again(s), F)
    BY <2>1 DEF Again, AllBut, IsOwn, Fields, Calling
  <2> QED BY <2>2 DEF s
<1>5. /\ t.iTry = Least(Own(d, S).iTry + 1, Tries) /\ t.dt = Cut(Own(d, S).dt)
      /\ t.conf = Own(d, S).base
      /\ t.pc = IF Cut(Own(d, S).dt) < 1 THEN "fatal" ELSE "base"
      /\ t.run = IF Cut(Own(d, S).dt) < 1 THEN Own(d, S).run ELSE "waits"
  BY OwnFields DEF Again, IsOwn, Fields, Calling
<1> HIDE DEF t, u
<1>6. t = u
  BY <1>2, <1>3, <1>4, <1>5, SameOwn
<1> QED BY <1>6 DEF t, u

(* The group furthest behind is one.                                       *)
LEMMA OneBehind ==
  ASSUME TypeOK, NEW d \in Domain, NEW S, NEW g \in 0 .. Lower, Behind(d, g)
  PROVE  g = Furthest(Own(d, S))
<1>1. \A h \in 0 .. Lower : subTime[d][h] \in Nat
  BY Groups, StateTyped DEF Group
<1>2. ASSUME NEW h \in 0 .. Lower, Behind(d, h) PROVE h = g
  <2>1. h \in Nat /\ g \in Nat /\ Lower \in Int
    BY Groups
  <2>2. CASE h < g
    BY <1>1, <1>2, <2>1, <2>2 DEF Behind
  <2>3. CASE g < h
    BY <1>1, <1>2, <2>1, <2>3 DEF Behind
  <2> QED BY <2>1, <2>2, <2>3
<1>3. Furthest(Own(d, S)) = CHOOSE h \in 0 .. Lower : Behind(d, h)
  BY DEF Furthest, Behind, Own
<1> QED BY <1>2, <1>3

(* Every step of a domain is its decision: the actions, one by one, do     *)
(* what Decided says.                                                      *)
LEMMA OwnDecides ==
  ASSUME TypeOK, NEW d \in Domain, DomainStep(d), NEW S \in SUBSET Refreshed(d),
         pc[d] = "driver" => ~waiting[d]
  PROVE  Own(d, S)' = Decided(Own(d, S), pairGroup) /\ ~Waits(Own(d, S))
<1>0. \A n \in S : n \in Node /\ n \in CheckedNodes(d)
  BY GhostsAssumption DEF Refreshed, CheckedNodes, OwnNodes
<1>1. CASE BaseEvaluated(d) /\ mobError[d]
  <2>1. ~Waits(Own(d, S)) /\ Decided(Own(d, S), pairGroup) = Again(Own(d, S))
    BY <1>1 DEF Own, Seen, Run, Waits, Returned, BaseEvaluated, Decided, Rejects
  <2> QED BY <1>1, <2>1, OwnAgain DEF BaseEvaluated
<1>2. CASE BaseEvaluated(d) /\ ~mobError[d]
  <2> DEFINE s == Own(d, S)
             t == FromBase(s, pairGroup)
             u == Own(d, S)'
             F == {"pc", "run", "conf", "cache"}
  <2>1. ~Waits(s) /\ Decided(s, pairGroup) = FromBase(s, pairGroup)
    BY <1>2 DEF Own, Seen, Run, Waits, Returned, BaseEvaluated, Decided, Rejects
  <2>2. /\ pc'[d] = "stages" /\ Run(d)' = "waits" /\ conf'[d] = Moved(conf[d])
        /\ cache'[d] = IF group[d] > 0
                       THEN [cache[d] EXCEPT ![group[d]] =
                               [pairs |-> Grouped(pairGroup, group[d]), at |-> conf[d]]]
                       ELSE cache[d]
    <3>1. pc'[d] = "stages" /\ Run(d)' = "waits" /\ conf'[d] = Moved(conf[d])
      BY <1>2 DEF BaseEvaluated, TypeOK, Call, Run, MoveRKFNodes, Moved
    <3>2. cache' = IF group[d] > 0
                   THEN [cache EXCEPT ![d][group[d]] =
                           [pairs |-> Grouped(pairGroup, group[d]), at |-> conf[d]]]
                   ELSE cache
      BY <1>2 DEF BaseEvaluated, SavesForce, PairsIn, Grouped
    <3> QED BY <3>1, <3>2 DEF TypeOK
  <2>3. AllBut(s, u, F)
    <3>1. UNCHANGED <<dt, iTry, group, oldGroup, nSub, stepVars, base, flag, seenVars>>
      BY <1>2 DEF BaseEvaluated
    <3>2. Seen(d, S)' = Seen(d, S)
      BY <3>1, SeenStays
    <3> QED BY <3>1, <3>2 DEF Own, Run, AllBut, IsOwn, Fields, stepVars
  <2>4. /\ u.pc = "stages"
        /\ u.run = "waits"
        /\ u.conf = Moved(s.conf)
        /\ u.cache = IF s.group > 0
                    THEN [s.cache EXCEPT ![s.group] =
                            [pairs |-> Grouped(pairGroup, s.group), at |-> s.conf]]
                    ELSE s.cache
    BY <2>2 DEF Own
  <2>5. AllBut(s, t, F)
    <3>1. IsOwn(s)
      BY OwnFields
    <3> HIDE DEF s
    <3> QED BY <3>1 DEF FromBase, AllBut, IsOwn, Fields, Calling
  <2>6. /\ t.pc = "stages"
        /\ t.run = "waits"
        /\ t.conf = Moved(s.conf)
        /\ t.cache = IF s.group > 0
                    THEN [s.cache EXCEPT ![s.group] =
                            [pairs |-> Grouped(pairGroup, s.group), at |-> s.conf]]
                    ELSE s.cache
    BY OwnFields DEF FromBase, IsOwn, Fields, Calling
  <2> HIDE DEF s, t, u
  <2>7. t = u
    BY <2>3, <2>4, <2>5, <2>6, SameOwn
  <2> QED BY <2>1, <2>7 DEF s, t, u
<1>3. CASE StagesEvaluated(d) /\ mobError[d]
  <2>1. ~Waits(Own(d, S)) /\ Decided(Own(d, S), pairGroup) = Again(Own(d, S))
    BY <1>3 DEF Own, Seen, Run, Waits, Returned, StagesEvaluated, Decided, Rejects
  <2> QED BY <1>3, <2>1, OwnAgain DEF StagesEvaluated
<1>4. CASE StagesEvaluated(d) /\ ~mobError[d]
  <2> DEFINE s == Own(d, S)
             t == FromStages(s)
             u == Own(d, S)'
             F == {"pc", "run", "flag"}
  <2>1. ~Waits(s) /\ Decided(s, pairGroup) = FromStages(s)
    BY <1>4 DEF Own, Seen, Run, Waits, Returned, StagesEvaluated, Decided, Rejects
  <2>2. /\ pc'[d] = "errors" /\ Run(d)' = "waits"
        /\ Of(flag'[d], S) = [n \in S |->
              IF group[d] = Highest /\ iTry[d] < Tries /\ Of(flag[d], S)[n] > 0
              THEN IF Of(verdict[d], S)[n] = "error" THEN 2 ELSE 1
              ELSE Of(flag[d], S)[n]]
    <3>1. /\ pc'[d] = "errors" /\ Run(d)' = "waits"
          /\ flag'[d] = [n \in Node |->
                IF group[d] = Highest /\ iTry[d] < Tries /\ flag[d][n] > 0
                THEN IF verdict[d][n] = "error" THEN 2 ELSE 1
                ELSE flag[d][n]]
      BY <1>4 DEF StagesEvaluated, TypeOK, Call, Run
    <3> QED BY <1>0, <3>1 DEF Of
  <2>3. AllBut(s, u, F)
    <3>1. UNCHANGED <<dt, iTry, conf, group, oldGroup, nSub, stepVars, base, cache, seenVars>>
      BY <1>4 DEF StagesEvaluated
    <3>2. Seen(d, S)' = Seen(d, S)
      BY <3>1, SeenStays
    <3> QED BY <3>1, <3>2 DEF Own, Run, AllBut, IsOwn, Fields, stepVars
  <2>4. /\ u.pc = "errors"
        /\ u.run = "waits"
        /\ u.flag = [n \in s.seen.nodes |->
              IF s.group = Highest /\ s.iTry < Tries /\ s.flag[n] > 0
              THEN IF s.seen.verdict[n] = "error" THEN 2 ELSE 1
              ELSE s.flag[n]]
    BY <2>2 DEF Own, Seen
  <2>5. AllBut(s, t, F)
    <3>1. IsOwn(s)
      BY OwnFields
    <3> HIDE DEF s
    <3> QED BY <3>1 DEF FromStages, AllBut, IsOwn, Fields, Calling
  <2>6. /\ t.pc = "errors"
        /\ t.run = "waits"
        /\ t.flag = [n \in s.seen.nodes |->
              IF s.group = Highest /\ s.iTry < Tries /\ s.flag[n] > 0
              THEN IF s.seen.verdict[n] = "error" THEN 2 ELSE 1
              ELSE s.flag[n]]
    BY OwnFields DEF FromStages, IsOwn, Fields, Calling
  <2> HIDE DEF s, t, u
  <2>7. t = u
    BY <2>3, <2>4, <2>5, <2>6, SameOwn
  <2> QED BY <2>1, <2>7 DEF s, t, u
<1>5. CASE ErrorsReduced(d) /\ ~Converged(d)
  <2>1. ~Waits(Own(d, S)) /\ Decided(Own(d, S), pairGroup) = Again(Own(d, S))
    BY <1>5 DEF Own, Seen, Run, Waits, Returned, ErrorsReduced, Decided, Rejects
  <2> QED BY <1>5, <2>1, OwnAgain DEF ErrorsReduced
<1>6. CASE ErrorsReduced(d) /\ Converged(d)
  <2> DEFINE s == Own(d, S)
             t == FromErrors(s)
             u == Own(d, S)'
             F == {"pc", "run", "conf"}
  <2>1. ~Waits(s) /\ Decided(s, pairGroup) = FromErrors(s)
    BY <1>6 DEF Own, Seen, Run, Waits, Returned, ErrorsReduced, Decided, Rejects
  <2>2. pc'[d] = "final" /\ Run(d)' = "waits" /\ conf'[d] = Moved(conf[d])
    BY <1>6 DEF ErrorsReduced, TypeOK, Call, Run, MoveRKFNodes, Moved
  <2>3. AllBut(s, u, F)
    <3>1. UNCHANGED <<dt, iTry, group, oldGroup, nSub, stepVars, base, cache, flag, seenVars>>
      BY <1>6 DEF ErrorsReduced
    <3>2. Seen(d, S)' = Seen(d, S)
      BY <3>1, SeenStays
    <3> QED BY <3>1, <3>2 DEF Own, Run, AllBut, IsOwn, Fields, stepVars
  <2>4. /\ u.pc = "final"
        /\ u.run = "waits"
        /\ u.conf = Moved(s.conf)
    BY <2>2 DEF Own
  <2>5. AllBut(s, t, F)
    <3>1. IsOwn(s)
      BY OwnFields
    <3> HIDE DEF s
    <3> QED BY <3>1 DEF FromErrors, AllBut, IsOwn, Fields, Calling
  <2>6. /\ t.pc = "final"
        /\ t.run = "waits"
        /\ t.conf = Moved(s.conf)
    BY OwnFields DEF FromErrors, IsOwn, Fields, Calling
  <2> HIDE DEF s, t, u
  <2>7. t = u
    BY <2>3, <2>4, <2>5, <2>6, SameOwn
  <2> QED BY <2>1, <2>7 DEF s, t, u
<1>7. CASE FinalRejected(d)
  <2>1. ~Waits(Own(d, S)) /\ Decided(Own(d, S), pairGroup) = Again(Own(d, S))
    BY <1>7 DEF Own, Seen, Run, Waits, Returned, FinalRejected, Decided, Rejects
  <2> QED BY <1>7, <2>1, OwnAgain DEF FinalRejected
<1>8. CASE HighestAccepted(d)
  <2> DEFINE s == Own(d, S)
             t == FromHighest(s)
             u == Own(d, S)'
             F == {"pc", "run", "conf", "real", "next"}
  <2>1. ~Waits(s) /\ Decided(s, pairGroup) = FromHighest(s)
    BY <1>8 DEF Own, Seen, Run, Waits, Returned, HighestAccepted, Decided, Rejects
  <2>2. /\ pc'[d] = "counts" /\ Run(d)' = "waits" /\ conf'[d] = base[d]
        /\ realDT'[d] = [realDT[d] EXCEPT ![Highest] = dt[d]]
        /\ nextDT'[d] = [nextDT[d] EXCEPT ![Highest] = Proposal(d)]
    BY <1>8 DEF HighestAccepted, TypeOK, Call, Run
  <2>8. Proposal(d) = Proposes(s)
    BY DEF Proposal, Proposes, Own
  <2>3. AllBut(s, u, F)
    <3>1. UNCHANGED <<group, oldGroup, nSub, dt, iTry, subTime, base, cache, flag, seenVars>>
      BY <1>8 DEF HighestAccepted
    <3>2. Seen(d, S)' = Seen(d, S)
      BY <3>1, SeenStays
    <3> QED BY <3>1, <3>2 DEF Own, Run, AllBut, IsOwn, Fields, stepVars
  <2>4. /\ u.pc = "counts"
        /\ u.run = "waits"
        /\ u.conf = s.base
        /\ u.real = [s.real EXCEPT ![Highest] = s.dt]
        /\ u.next = [s.next EXCEPT ![Highest] = Proposes(s)]
    BY <2>2, <2>8 DEF Own
  <2>5. AllBut(s, t, F)
    <3>1. IsOwn(s)
      BY OwnFields
    <3> HIDE DEF s
    <3> QED BY <3>1 DEF FromHighest, AllBut, IsOwn, Fields, Calling
  <2>6. /\ t.pc = "counts"
        /\ t.run = "waits"
        /\ t.conf = s.base
        /\ t.real = [s.real EXCEPT ![Highest] = s.dt]
        /\ t.next = [s.next EXCEPT ![Highest] = Proposes(s)]
    BY OwnFields DEF FromHighest, IsOwn, Fields, Calling
  <2> HIDE DEF s, t, u
  <2>7. t = u
    BY <2>3, <2>4, <2>5, <2>6, SameOwn
  <2> QED BY <2>1, <2>7 DEF s, t, u
<1>9. CASE GroupAccepted(d)
  <2> DEFINE s == Own(d, S)
             t == FromGroup(s)
             u == Own(d, S)'
             F == {"pc", "real", "next", "conf", "flag", "nSub", "sub"}
  <2>1. ~Waits(s) /\ Decided(s, pairGroup) = FromGroup(s)
    BY <1>9 DEF Own, Seen, Run, Waits, Returned, GroupAccepted, Decided, Rejects
  <2>2. /\ pc'[d] = "driver"
        /\ realDT'[d] = [realDT[d] EXCEPT ![group[d]] = dt[d]]
        /\ subTime'[d] = [subTime[d] EXCEPT ![group[d]] = subTime[d][group[d]] + dt[d]]
        /\ conf'[d] = IF group[d] = 0 THEN Physical(base[d].time + dt[d]) ELSE base[d]
        /\ nSub'[d] = Least(nSub[d] + 1, Patience + 1)
        /\ Of(flag'[d], S) = [n \in S |->
              IF nSub[d] > Patience /\ Of(reversed[d], S)[n] THEN 0 ELSE Of(flag[d], S)[n]]
        /\ nextDT'[d] = IF Attempt(d, group[d]) < nextDT[d][group[d]]
                             /\ dt[d] = Attempt(d, group[d])
                        THEN nextDT[d]
                        ELSE [nextDT[d] EXCEPT ![group[d]] = Proposal(d)]
    <3>1. /\ pc'[d] = "driver"
          /\ realDT'[d] = [realDT[d] EXCEPT ![group[d]] = dt[d]]
          /\ subTime'[d] = [subTime[d] EXCEPT ![group[d]] = subTime[d][group[d]] + dt[d]]
          /\ conf'[d] = IF group[d] = 0 THEN Physical(base[d].time + dt[d]) ELSE base[d]
          /\ nSub'[d] = Least(nSub[d] + 1, Patience + 1)
      BY <1>9 DEF GroupAccepted, TypeOK, AcceptedConf
    <3>2. Of(flag'[d], S) = [n \in S |->
            IF nSub[d] > Patience /\ Of(reversed[d], S)[n] THEN 0 ELSE Of(flag[d], S)[n]]
      <4>1. flag'[d] = [n \in Node |->
              IF nSub[d] > Patience /\ n \in CheckedNodes(d) /\ reversed[d][n]
              THEN 0 ELSE flag[d][n]]
        BY <1>9 DEF GroupAccepted, TypeOK
      <4> QED BY <1>0, <4>1 DEF Of
    <3>3. nextDT'[d] = IF Attempt(d, group[d]) < nextDT[d][group[d]]
                            /\ dt[d] = Attempt(d, group[d])
                       THEN nextDT[d]
                       ELSE [nextDT[d] EXCEPT ![group[d]] = Proposal(d)]
      BY <1>9 DEF GroupAccepted, TypeOK, KeepsProposal
    <3> QED BY <3>1, <3>2, <3>3
  <2>8. Proposal(d) = Proposes(s) /\ Attempt(d, group[d]) = Attempts(s, group[d])
    BY DEF Proposal, Proposes, Attempt, Attempts, Remaining, OuterDT, Own
  <2>3. AllBut(s, u, F)
    <3>1. UNCHANGED <<waiting, group, oldGroup, dt, iTry, base, cache, seenVars>>
      BY <1>9 DEF GroupAccepted
    <3>2. Seen(d, S)' = Seen(d, S)
      BY <3>1, SeenStays
    <3> QED BY <3>1, <3>2 DEF Own, Run, AllBut, IsOwn, Fields, stepVars
  <2>4. /\ u.pc = "driver"
        /\ u.real = [s.real EXCEPT ![s.group] = s.dt]
        /\ u.sub = [s.sub EXCEPT ![s.group] = s.sub[s.group] + s.dt]
        /\ u.conf = IF s.group = 0 THEN Physical(s.base.time + s.dt) ELSE s.base
        /\ u.nSub = Least(s.nSub + 1, Patience + 1)
        /\ u.flag = [n \in s.seen.nodes |-> IF s.nSub > Patience /\ s.seen.reversed[n] THEN 0 ELSE s.flag[n]]
        /\ u.next = IF Attempts(s, s.group) < s.next[s.group] /\ s.dt = Attempts(s, s.group)
                  THEN s.next ELSE [s.next EXCEPT ![s.group] = Proposes(s)]
    BY <2>2, <2>8 DEF Own, Seen
  <2>5. AllBut(s, t, F)
    <3>1. /\ t.run = s.run /\ t.group = s.group /\ t.oldGroup = s.oldGroup
          /\ t.dt = s.dt /\ t.iTry = s.iTry /\ t.base = s.base
          /\ t.cache = s.cache /\ t.seen = s.seen
      BY OwnFields DEF FromGroup, IsOwn, Fields, Calling
    <3>2. IsOwn(t)
      <4>1. IsOwn(s)
        BY OwnFields
      <4> HIDE DEF s
      <4> QED BY <4>1 DEF FromGroup, IsOwn, Fields, Calling
    <3> HIDE DEF s, t
    <3> QED BY <3>1, <3>2 DEF AllBut, Fields
  <2>6. /\ t.pc = "driver"
        /\ t.real = [s.real EXCEPT ![s.group] = s.dt]
        /\ t.sub = [s.sub EXCEPT ![s.group] = s.sub[s.group] + s.dt]
        /\ t.conf = IF s.group = 0 THEN Physical(s.base.time + s.dt) ELSE s.base
        /\ t.nSub = Least(s.nSub + 1, Patience + 1)
        /\ t.flag = [n \in s.seen.nodes |-> IF s.nSub > Patience /\ s.seen.reversed[n] THEN 0 ELSE s.flag[n]]
        /\ t.next = IF Attempts(s, s.group) < s.next[s.group] /\ s.dt = Attempts(s, s.group)
                  THEN s.next ELSE [s.next EXCEPT ![s.group] = Proposes(s)]
    BY OwnFields DEF FromGroup, IsOwn, Fields, Calling
  <2> HIDE DEF s, t, u
  <2>7. t = u
    BY <2>3, <2>4, <2>5, <2>6, SameOwn
  <2> QED BY <2>1, <2>7 DEF s, t, u
<1>10. CASE PairsCounted(d)
  <2> DEFINE s == Own(d, S)
             t == FromCounts(s, pairGroup)
             u == Own(d, S)'
             F == {"pc", "sub"}
  <2>1. ~Waits(s) /\ Decided(s, pairGroup) = FromCounts(s, pairGroup)
    BY <1>10 DEF Own, Seen, Run, Waits, Returned, PairsCounted, Decided, Rejects
  <2>2. /\ pc'[d] = "driver"
        /\ subTime'[d] = [g \in Group |-> IF g \in 1 .. Lower /\ Grouped(pairGroup, g) = {}
                                         THEN realDT[d][Highest] ELSE subTime[d][g]]
    BY <1>10 DEF PairsCounted, TypeOK, OuterDT, PairsIn, Grouped
  <2>3. AllBut(s, u, F)
    <3>1. UNCHANGED <<waiting, group, oldGroup, nSub, dt, iTry, nextDT, realDT, conf, base,
                     cache, flag, seenVars>>
      BY <1>10 DEF PairsCounted
    <3>2. Seen(d, S)' = Seen(d, S)
      BY <3>1, SeenStays
    <3> QED BY <3>1, <3>2 DEF Own, Run, AllBut, IsOwn, Fields, stepVars
  <2>4. /\ u.pc = "driver"
        /\ u.sub = [g \in Group |-> IF g \in 1 .. Lower /\ Grouped(pairGroup, g) = {}
                                  THEN s.real[Highest] ELSE s.sub[g]]
    BY <2>2 DEF Own
  <2>5. AllBut(s, t, F)
    <3>1. IsOwn(s)
      BY OwnFields
    <3> HIDE DEF s
    <3> QED BY <3>1 DEF FromCounts, AllBut, IsOwn, Fields, Calling
  <2>6. /\ t.pc = "driver"
        /\ t.sub = [g \in Group |-> IF g \in 1 .. Lower /\ Grouped(pairGroup, g) = {}
                                  THEN s.real[Highest] ELSE s.sub[g]]
    BY OwnFields DEF FromCounts, IsOwn, Fields, Calling
  <2> HIDE DEF s, t, u
  <2>7. t = u
    BY <2>3, <2>4, <2>5, <2>6, SameOwn
  <2> QED BY <2>1, <2>7 DEF s, t, u
<1>11. CASE NextSubcycle(d)
  <2>0. PICK g \in 0 .. Lower :
          /\ Behind(d, g)
          /\ nSub' = [nSub EXCEPT ![d] = IF g # oldGroup[d] THEN 0 ELSE @]
          /\ flag' = [flag EXCEPT ![d] = IF Resets(d, g) THEN None ELSE @]
          /\ oldGroup' = [oldGroup EXCEPT ![d] = g]
          /\ group' = [group EXCEPT ![d] = g]
          /\ dt' = [dt EXCEPT ![d] = Attempt(d, g)]
    BY <1>11 DEF NextSubcycle
  <2> DEFINE s == Own(d, S)
             t == Starts(s, g)
             u == Own(d, S)'
             F == {"pc", "run", "nSub", "flag", "oldGroup", "group", "dt", "base", "iTry"}
  <2>1. ~Waits(s) /\ Decided(s, pairGroup) = FromDriver(s)
    BY <1>11 DEF Own, Seen, Run, Waits, NextSubcycle, Decided, Rejects
  <2>2. /\ pc'[d] = "base" /\ Run(d)' = "waits" /\ base'[d] = conf[d] /\ iTry'[d] = 0
        /\ nSub'[d] = IF g # oldGroup[d] THEN 0 ELSE nSub[d]
        /\ Of(flag'[d], S) = IF g # oldGroup[d] THEN Of(None, S) ELSE Of(flag[d], S)
        /\ oldGroup'[d] = g /\ group'[d] = g /\ dt'[d] = Attempt(d, g)
    BY <1>11, <2>0 DEF NextSubcycle, TypeOK, Call, Run, Resets
  <2>8. /\ s.sub[0] < s.real[Highest] /\ g = Furthest(s)
        /\ Attempt(d, g) = Attempts(s, g)
    BY <1>11, <2>0, OneBehind DEF NextSubcycle, OuterDT, Attempt, Attempts, Remaining, Own
  <2>3. AllBut(s, u, F)
    <3>1. UNCHANGED <<stepVars, conf, cache, seenVars>>
      BY <1>11 DEF NextSubcycle
    <3>2. Seen(d, S)' = Seen(d, S)
      BY <3>1, SeenStays
    <3> QED BY <3>1, <3>2 DEF Own, Run, AllBut, IsOwn, Fields, stepVars
  <2>4. /\ u.pc = "base"
        /\ u.run = "waits"
        /\ u.nSub = IF g # s.oldGroup THEN 0 ELSE s.nSub
        /\ u.flag = IF g # s.oldGroup THEN Of(None, s.seen.nodes) ELSE s.flag
        /\ u.oldGroup = g
        /\ u.group = g
        /\ u.dt = Attempts(s, g)
        /\ u.base = s.conf
        /\ u.iTry = 0
    BY <2>2, <2>8 DEF Own, Seen
  <2>5. AllBut(s, t, F)
    <3>1. /\ t.sub = s.sub /\ t.next = s.next /\ t.real = s.real
          /\ t.conf = s.conf /\ t.cache = s.cache /\ t.seen = s.seen
      BY OwnFields DEF Starts, IsOwn, Fields, Calling
    <3>2. IsOwn(t)
      <4>1. IsOwn(s)
        BY OwnFields
      <4> HIDE DEF s
      <4> QED BY <4>1 DEF Starts, IsOwn, Fields, Calling
    <3> HIDE DEF s, t
    <3> QED BY <3>1, <3>2 DEF AllBut, Fields
  <2>6. /\ t.pc = "base"
        /\ t.run = "waits"
        /\ t.nSub = IF g # s.oldGroup THEN 0 ELSE s.nSub
        /\ t.flag = IF g # s.oldGroup THEN Of(None, s.seen.nodes) ELSE s.flag
        /\ t.oldGroup = g
        /\ t.group = g
        /\ t.dt = Attempts(s, g)
        /\ t.base = s.conf
        /\ t.iTry = 0
    BY OwnFields DEF Starts, IsOwn, Fields, Calling
  <2> HIDE DEF s, t, u
  <2>7. t = u
    BY <2>3, <2>4, <2>5, <2>6, SameOwn
  <2> QED BY <2>1, <2>7, <2>8 DEF FromDriver, s, t, u
<1>12. CASE FinishSubcycling(d)
  <2> DEFINE s == Own(d, S)
             t == FromDriver(s)
             u == Own(d, S)'
             F == {"pc", "run"}
  <2>1. ~Waits(s) /\ Decided(s, pairGroup) = FromDriver(s)
    BY <1>12 DEF Own, Seen, Run, Waits, FinishSubcycling, Decided, Rejects
  <2>2. pc'[d] = "full" /\ Run(d)' = "waits"
    BY <1>12 DEF FinishSubcycling, Call, Run, TypeOK
  <2>8. ~(s.sub[0] < s.real[Highest])
    BY <1>12, StateTyped, Groups DEF FinishSubcycling, Own, OuterDT
  <2>3. AllBut(s, u, F)
    <3>1. UNCHANGED <<group, oldGroup, nSub, dt, iTry, stepVars, conf, base, cache,
                     flag, seenVars>>
      BY <1>12 DEF FinishSubcycling
    <3>2. Seen(d, S)' = Seen(d, S)
      BY <3>1, SeenStays
    <3> QED BY <3>1, <3>2 DEF Own, Run, AllBut, IsOwn, Fields, stepVars
  <2>4. /\ u.pc = "full"
        /\ u.run = "waits"
    BY <2>2 DEF Own
  <2>5. AllBut(s, t, F)
    <3>1. IsOwn(s)
      BY OwnFields
    <3> HIDE DEF s
    <3> QED BY <2>8, <3>1 DEF FromDriver, AllBut, IsOwn, Fields, Calling
  <2>6. /\ t.pc = "full"
        /\ t.run = "waits"
    BY <2>8, OwnFields DEF FromDriver, IsOwn, Fields, Calling
  <2> HIDE DEF s, t, u
  <2>7. t = u
    BY <2>3, <2>4, <2>5, <2>6, SameOwn
  <2> QED BY <2>1, <2>7 DEF s, t, u
<1>13. CASE FullEvaluated(d)
  <2> DEFINE s == Own(d, S)
             t == FromFull(s)
             u == Own(d, S)'
             F == {"pc"}
  <2>1. ~Waits(s) /\ Decided(s, pairGroup) = FromFull(s)
    BY <1>13 DEF Own, Seen, Run, Waits, Returned, FullEvaluated, Decided, Rejects
  <2>2. pc'[d] = IF mobError[d] THEN "fatal" ELSE "done"
    BY <1>13 DEF FullEvaluated, TypeOK
  <2>3. AllBut(s, u, F)
    <3>1. UNCHANGED <<waiting, group, oldGroup, nSub, dt, iTry, stepVars, conf, base,
                     cache, flag, seenVars>>
      BY <1>13 DEF FullEvaluated
    <3>2. Seen(d, S)' = Seen(d, S)
      BY <3>1, SeenStays
    <3> QED BY <3>1, <3>2 DEF Own, Run, AllBut, IsOwn, Fields, stepVars
  <2>4. /\ u.pc = IF s.seen.error THEN "fatal" ELSE "done"
    BY <2>2 DEF Own, Seen
  <2>5. AllBut(s, t, F)
    <3> DEFINE x == IF s.seen.error THEN "fatal" ELSE "done"
    <3>1. t = [s EXCEPT !.pc = x]
      BY DEF FromFull
    <3> HIDE DEF x, t, s
    <3>2. IsOwn(s)
      BY OwnFields DEF s
    <3> QED BY <3>1, <3>2 DEF AllBut, IsOwn, Fields
  <2>6. /\ t.pc = IF s.seen.error THEN "fatal" ELSE "done"
    BY OwnFields DEF FromFull, IsOwn, Fields, Calling
  <2> HIDE DEF s, t, u
  <2>7. t = u
    BY <2>3, <2>4, <2>5, <2>6, SameOwn
  <2> QED BY <2>1, <2>7 DEF s, t, u
<1> QED BY <1>1, <1>2, <1>3, <1>4, <1>5, <1>6, <1>7, <1>8, <1>9, <1>10, <1>11, <1>12, <1>13
        DEF DomainStep

(* A domain that waits has nothing to decide; after two decisions at most  *)
(* it waits.                                                               *)
LEMMA TwoDecisions ==
  ASSUME NEW s, NEW pg, IsOwn(s)
  PROVE  /\ Waits(s) => Decided(s, pg) = s
         /\ IsOwn(Decided(s, pg)) /\ IsOwn(Decided(Decided(s, pg), pg))
         /\ Waits(Decided(Decided(s, pg), pg))
<1>1. Waits(s) => Decided(s, pg) = s
  BY DEF Decided
<1> DEFINE t == Decided(s, pg)
           u == Decided(t, pg)
<1>2. IsOwn(t) /\ (Waits(t) \/ t.pc = "driver")
  BY DecidedState
<1> HIDE DEF t
<1>3. IsOwn(u) /\ (Waits(u) \/ t.pc # "driver")
  BY <1>2, DecidedState
<1>4. Waits(t) => u = t
  BY DEF Decided
<1>5. Waits(u)
  BY <1>2, <1>3, <1>4
<1> QED BY <1>1, <1>2, <1>3, <1>5 DEF t

(* A step of one domain leaves the others as they are.                     *)
LEMMA OthersOwn ==
  ASSUME TypeOK, NEW d \in Domain, DomainStep(d), NEW e \in Domain \ {d}, NEW S
  PROVE  Own(e, S)' = Own(e, S)
<1>1. UNCHANGED <<pc[e], waiting[e], group[e], oldGroup[e], nSub[e], dt[e], iTry[e],
                  subTime[e], nextDT[e], realDT[e], conf[e], base[e], cache[e], flag[e],
                  seenVars>>
  <2> USE DEF Call, TryAgain, MoveRKFNodes, stepVars, TypeOK
  <2>1. CASE BaseEvaluated(d)  BY <2>1 DEF BaseEvaluated
  <2>2. CASE StagesEvaluated(d)  BY <2>2 DEF StagesEvaluated
  <2>3. CASE ErrorsReduced(d)  BY <2>3 DEF ErrorsReduced
  <2>4. CASE FinalRejected(d)  BY <2>4 DEF FinalRejected
  <2>5. CASE HighestAccepted(d)  BY <2>5 DEF HighestAccepted
  <2>6. CASE GroupAccepted(d)  BY <2>6 DEF GroupAccepted
  <2>7. CASE PairsCounted(d)  BY <2>7 DEF PairsCounted
  <2>8. CASE NextSubcycle(d)  BY <2>8 DEF NextSubcycle
  <2>9. CASE FinishSubcycling(d)  BY <2>9 DEF FinishSubcycling
  <2>10. CASE FullEvaluated(d)  BY <2>10 DEF FullEvaluated
  <2> QED BY <2>1, <2>2, <2>3, <2>4, <2>5, <2>6, <2>7, <2>8, <2>9, <2>10 DEF DomainStep
<1>2. Seen(e, S)' = Seen(e, S)
  BY <1>1, SeenStays
<1> QED BY <1>1, <1>2 DEF Own, Run

(* Pairs change their group when the errors of the highest group are too   *)
(* large, and in no other step.                                            *)
LEMMA PairsMove ==
  ASSUME NEW d \in Domain, DomainStep(d), pairGroup' # pairGroup
  PROVE  ErrorsReduced(d) /\ ~Converged(d) /\ group[d] = Highest
BY DEF DomainStep, BaseEvaluated, StagesEvaluated, ErrorsReduced, FinalRejected,
   HighestAccepted, GroupAccepted, PairsCounted, NextSubcycle, FinishSubcycling,
   FullEvaluated

(* Then all domains have just reduced the errors, or have decided already. *)
LEMMA ErrorsRound ==
  ASSUME TypeOK, InStep, NEW S \in SUBSET Node, NEW d \in Refreshing(S),
         Returned(d, "errors"), NEW e \in Refreshing(S), NEW pg
  PROVE  /\ Own(e, S) \in {Own(d, S), Decided(Own(d, S), pairGroup)}
         /\ Decided(Own(d, S), pg) = Decided(Own(d, S), pairGroup)
         /\ Waits(Decided(Own(d, S), pg))
<1> DEFINE s == Own(d, S)
           t == Decided(s, pairGroup)
<1>1. /\ ~Waits(s) /\ s.pc = "errors" /\ IsOwn(s) /\ IsOwn(Own(e, S))
  BY OwnFields DEF Own, Run, Waits, Returned
<1> HIDE DEF s
<1>2. \A q : /\ Decided(s, q) = IF s.seen.fine THEN FromErrors(s) ELSE Again(s)
             /\ Waits(Decided(s, q))
  <2>1. \A q : Decided(s, q) = IF s.seen.fine THEN FromErrors(s) ELSE Again(s)
    BY <1>1 DEF Decided, Rejects
  <2>2. Waits(FromErrors(s)) /\ Waits(Again(s))
    BY <1>1 DEF FromErrors, Again, Calling, Waits, IsOwn, Fields
  <2> QED BY <2>1, <2>2
<1>3. Decided(t, pairGroup) = t
  BY <1>2 DEF Decided
<1>4. Own(e, S) \in {s, t}
  <2>1. CASE Ahead(s, Own(e, S))
    BY <1>3, <2>1 DEF Ahead
  <2>2. CASE Ahead(Own(e, S), s)
    <3>1. s # Decided(Decided(Own(e, S), pairGroup), pairGroup)
      BY <1>1, TwoDecisions
    <3>2. s # Decided(Own(e, S), pairGroup) \/ s = Own(e, S)
      BY <1>1, DecidedState
    <3> QED BY <2>2, <3>1, <3>2 DEF Ahead
  <2> QED BY <2>1, <2>2 DEF InStep, s
<1> QED BY <1>2, <1>4 DEF s

(* Pairs are moved while the domains have one state, or one and its        *)
(* decision, which the groups of the pairs do not change.                  *)
LEMMA PairsMoving ==
  ASSUME TypeOK, InStep, NEW d \in Domain, DomainStep(d), pairGroup' # pairGroup,
         NEW S \in SUBSET Node
  PROVE  \E t : /\ \A e \in Refreshing(S) : Own(e, S) \in {t, Decided(t, pairGroup)}
                /\ Decided(t, pairGroup') = Decided(t, pairGroup)
                /\ Decided(Decided(t, pairGroup), pairGroup) = Decided(t, pairGroup)
                /\ d \in Refreshing(S) => Own(d, S) = t
<1>1. Returned(d, "errors")
  BY PairsMove DEF ErrorsReduced
<1>2. ASSUME NEW x \in Refreshing(S), Returned(x, "errors")
      PROVE  /\ \A e \in Refreshing(S) : Own(e, S) \in {Own(x, S), Decided(Own(x, S), pairGroup)}
             /\ Decided(Own(x, S), pairGroup') = Decided(Own(x, S), pairGroup)
             /\ Decided(Decided(Own(x, S), pairGroup), pairGroup) = Decided(Own(x, S), pairGroup)
  BY <1>2, ErrorsRound DEF Decided
<1>3. CASE \E x \in Refreshing(S) : Returned(x, "errors")
  <2>1. PICK x \in Refreshing(S) : /\ Returned(x, "errors")
                                   /\ d \in Refreshing(S) => x = d
    BY <1>1, <1>3
  <2> WITNESS Own(x, S)
  <2> QED BY <1>2, <2>1
<1>4. CASE ~\E x \in Refreshing(S) : Returned(x, "errors")
  <2>1. d \notin Refreshing(S)
    BY <1>1, <1>4
  <2>2. ASSUME NEW e \in Refreshing(S) PROVE Waits(Own(e, S)) /\ IsOwn(Own(e, S))
    <3>1. d \in Refreshing({}) /\ e \in Refreshing({}) /\ {} \in SUBSET Node
      BY DEF Refreshing
    <3>2. Own(e, {}) \in {Own(d, {}), Decided(Own(d, {}), pairGroup)}
          /\ Waits(Decided(Own(d, {}), pairGroup))
      BY <1>1, <3>1, ErrorsRound
    <3>3. ~(Own(e, {}).pc = "errors" /\ Own(e, {}).run = "runs")
      BY <1>4 DEF Own, Run, Returned
    <3>4. Own(d, {}).pc = "errors" /\ Own(d, {}).run = "runs"
      BY <1>1 DEF Own, Run, Returned
    <3>5. Waits(Own(e, {}))
      BY <3>2, <3>3, <3>4
    <3>6. Own(e, S).pc = Own(e, {}).pc /\ Own(e, S).run = Own(e, {}).run
      BY DEF Own
    <3> QED BY <3>5, <3>6, OwnFields DEF Waits
  <2>3. ASSUME NEW x \in Refreshing(S), NEW y \in Refreshing(S) PROVE Own(x, S) = Own(y, S)
    BY <2>2, TwoDecisions DEF InStep, Ahead
  <2>4. CASE Refreshing(S) = {}
    <3> DEFINE t == Own(d, {})
    <3>1. d \in Refreshing({}) /\ {} \in SUBSET Node
      BY DEF Refreshing
    <3>2. /\ Decided(t, pairGroup') = Decided(t, pairGroup)
          /\ Waits(Decided(t, pairGroup))
      BY <1>1, <3>1, ErrorsRound
    <3> QED BY <2>4, <3>2 DEF Decided
  <2>5. CASE Refreshing(S) # {}
    <3>1. PICK x \in Refreshing(S) : TRUE
      BY <2>5
    <3>2. \A pg : Decided(Own(x, S), pg) = Own(x, S)
      BY <2>2 DEF Decided
    <3> WITNESS Own(x, S)
    <3> QED BY <2>1, <2>3, <3>2
  <2> QED BY <2>4, <2>5
<1> QED BY <1>3, <1>4

(* A domain that decides keeps in step with the others, as it decides like *)
(* them: when it was behind it catches up, when they were alike it goes    *)
(* ahead.                                                                  *)
LEMMA InStepKept ==
  ASSUME TypeOK, InStep, NEW d \in Domain, DomainStep(d)
  PROVE  InStep'
<1>1. \A e \in Domain : (pc[e] = "driver" => ~waiting[e])'
  <2>1. ASSUME NEW e \in Domain PROVE (pc[e] = "driver" => ~waiting[e])'
    <3> USE DEF InStep, Call, TryAgain, Returned, TypeOK
    <3>1. CASE BaseEvaluated(d)  BY <3>1 DEF BaseEvaluated
    <3>2. CASE StagesEvaluated(d)  BY <3>2 DEF StagesEvaluated
    <3>3. CASE ErrorsReduced(d)  BY <3>3 DEF ErrorsReduced
    <3>4. CASE FinalRejected(d)  BY <3>4 DEF FinalRejected
    <3>5. CASE HighestAccepted(d)  BY <3>5 DEF HighestAccepted
    <3>6. CASE GroupAccepted(d)  BY <3>6 DEF GroupAccepted
    <3>7. CASE PairsCounted(d)  BY <3>7 DEF PairsCounted
    <3>8. CASE NextSubcycle(d)  BY <3>8 DEF NextSubcycle
    <3>9. CASE FinishSubcycling(d)  BY <3>9 DEF FinishSubcycling
    <3>10. CASE FullEvaluated(d)  BY <3>10 DEF FullEvaluated
    <3> QED BY <3>1, <3>2, <3>3, <3>4, <3>5, <3>6, <3>7, <3>8, <3>9, <3>10 DEF DomainStep
  <2> QED BY <2>1
<1>2. ASSUME NEW S \in SUBSET Node, NEW x \in Refreshing(S), NEW y \in Refreshing(S)
      PROVE  (Ahead(Own(x, S), Own(y, S)) \/ Ahead(Own(y, S), Own(x, S)))'
  <2> DEFINE s == Own(d, S)
             D(t) == Decided(t, pairGroup)
  <2>0. x \in Domain /\ y \in Domain
    BY DEF Refreshing
  <2>1. d \in Refreshing(S) => s' = D(s) /\ ~Waits(s)
    BY OwnDecides DEF InStep, Refreshing
  <2>2. \A e \in Domain \ {d} : Own(e, S)' = Own(e, S)
    BY OthersOwn
  <2>3. CASE pairGroup' = pairGroup
    <3>1. ASSUME NEW e \in Refreshing(S) \ {d}, d \in Refreshing(S)
          PROVE  Ahead(D(s), Own(e, S)) \/ Ahead(Own(e, S), D(s))
      <4>1. CASE Ahead(s, Own(e, S))
        BY <4>1 DEF Ahead
      <4>2. CASE Ahead(Own(e, S), s)
        <5>1. s # D(D(Own(e, S)))
          BY <2>1, <3>1, OwnFields, TwoDecisions
        <5> QED BY <4>2, <5>1 DEF Ahead
      <4> QED BY <3>1, <4>1, <4>2 DEF InStep
    <3>2. CASE x = d /\ y = d
      BY <3>2 DEF Ahead
    <3>3. CASE x = d /\ y # d
      BY <2>0, <2>1, <2>2, <2>3, <3>1, <3>3 DEF Ahead
    <3>4. CASE x # d /\ y = d
      BY <2>0, <2>1, <2>2, <2>3, <3>1, <3>4 DEF Ahead
    <3>5. CASE x # d /\ y # d
      BY <2>0, <2>2, <2>3, <3>5 DEF Ahead, InStep
    <3> QED BY <3>2, <3>3, <3>4, <3>5
  <2>4. CASE pairGroup' # pairGroup
    <3>1. PICK t : /\ \A e \in Refreshing(S) : Own(e, S) \in {t, D(t)}
                   /\ Decided(t, pairGroup') = D(t) /\ D(D(t)) = D(t)
                   /\ d \in Refreshing(S) => s = t
      BY <2>4, PairsMoving
    <3>2. \A e \in Refreshing(S) : Own(e, S)' \in {t, D(t)}
      <4>1. ASSUME NEW e \in Refreshing(S) PROVE Own(e, S)' \in {t, D(t)}
        <5>1. CASE e = d
          BY <2>1, <3>1, <5>1
        <5>2. CASE e # d
          BY <2>2, <3>1, <5>2 DEF Refreshing
        <5> QED BY <5>1, <5>2
      <4> QED BY <4>1
    <3> HIDE DEF s
    <3> QED BY <3>1, <3>2 DEF Ahead
  <2> QED BY <2>3, <2>4
<1>3. \A S : Refreshing(S)' = Refreshing(S)
  BY DEF Refreshing, Refreshed, OwnNodes
<1> QED BY <1>1, <1>2, <1>3 DEF InStep

(* A collective call returns the same to all.                              *)
LEMMA InStepReduced ==
  ASSUME TypeOK, InStep, Reduce
  PROVE  InStep'
<1>1. ASSUME NEW S \in SUBSET Node, NEW d \in Refreshing(S), NEW e \in Refreshing(S)
      PROVE  Own(d, S)' = Own(e, S)'
  <2>0. d \in Domain /\ e \in Domain
    BY DEF Refreshing
  <2>1. Own(d, S) = Own(e, S)
    <3>1. Waits(Own(d, S)) /\ Waits(Own(e, S)) /\ IsOwn(Own(d, S)) /\ IsOwn(Own(e, S))
      BY <2>0, OwnFields DEF Reduce, Own, Run, Waits
    <3> QED BY <3>1, TwoDecisions DEF InStep, Ahead
  <2>2. /\ pc[d] = pc[e] /\ group[d] = group[e] /\ oldGroup[d] = oldGroup[e]
        /\ nSub[d] = nSub[e] /\ dt[d] = dt[e] /\ iTry[d] = iTry[e]
        /\ subTime[d] = subTime[e] /\ nextDT[d] = nextDT[e] /\ realDT[d] = realDT[e]
        /\ conf[d] = conf[e] /\ base[d] = base[e] /\ cache[d] = cache[e]
        /\ Of(flag[d], S) = Of(flag[e], S) /\ Of(verdict[d], S) = Of(verdict[e], S)
    <3> DEFINE s == Own(d, S)
               t == Own(e, S)
    <3>1. /\ s.pc = pc[d] /\ s.group = group[d] /\ s.oldGroup = oldGroup[d]
          /\ s.nSub = nSub[d] /\ s.dt = dt[d] /\ s.iTry = iTry[d]
          /\ s.sub = subTime[d] /\ s.next = nextDT[d] /\ s.real = realDT[d]
          /\ s.conf = conf[d] /\ s.base = base[d] /\ s.cache = cache[d]
          /\ s.flag = Of(flag[d], S) /\ s.seen.verdict = Of(verdict[d], S)
      BY DEF Own, Seen
    <3>2. /\ t.pc = pc[e] /\ t.group = group[e] /\ t.oldGroup = oldGroup[e]
          /\ t.nSub = nSub[e] /\ t.dt = dt[e] /\ t.iTry = iTry[e]
          /\ t.sub = subTime[e] /\ t.next = nextDT[e] /\ t.real = realDT[e]
          /\ t.conf = conf[e] /\ t.base = base[e] /\ t.cache = cache[e]
          /\ t.flag = Of(flag[e], S) /\ t.seen.verdict = Of(verdict[e], S)
      BY DEF Own, Seen
    <3>3. s = t
      BY <2>1
    <3> HIDE DEF s, t
    <3> QED BY <3>1, <3>2, <3>3
  <2>3. \A n \in S : /\ n \in Node /\ n \in Refreshed(d) /\ n \in Refreshed(e)
                     /\ flag[d][n] = flag[e][n] /\ verdict[d][n] = verdict[e][n]
    <3>1. \A n \in S : /\ Of(flag[d], S)[n] = flag[d][n] /\ Of(flag[e], S)[n] = flag[e][n]
                       /\ Of(verdict[d], S)[n] = verdict[d][n]
                       /\ Of(verdict[e], S)[n] = verdict[e][n]
      BY DEF Of
    <3> QED BY <2>2, <3>1 DEF Refreshing
  <2>4. mobError'[d] = mobError'[e]
    BY <2>0 DEF Reduce, GlobalMobilityError
  <2>5. Of(verdict'[d], S) = Of(verdict'[e], S)
    <3>1. PICK seen : verdict' = [x \in Domain |->
                        IF pc[x] = "errors" THEN verdict[x] ELSE RKFErrors(x, seen)]
      BY DEF Reduce
    <3>2. \A n \in S : RKFErrors(d, seen)[n] = RKFErrors(e, seen)[n]
      BY <2>2, <2>3 DEF RKFErrors
    <3>3. \A n \in S : verdict'[d][n] = verdict'[e][n]
      BY <2>0, <2>2, <2>3, <3>1, <3>2
    <3> QED BY <3>3 DEF Of
  <2>6. Of(reversed'[d], S) = Of(reversed'[e], S)
    <3>1. PICK back : reversed' = [x \in Domain |-> Reversals(x, back)]
      BY DEF Reduce
    <3>2. \A n \in S : Reversals(d, back)[n] = Reversals(e, back)[n]
      BY <2>3 DEF Reversals
    <3>3. \A n \in S : reversed'[d][n] = reversed'[e][n]
      BY <2>0, <3>1, <3>2
    <3> QED BY <3>3 DEF Of
  <2>7. Run(d)' = Run(e)'
    BY <2>0 DEF Run, Reduce
  <2>8. Converged(d)' = Converged(e)'
    BY DEF Converged
  <2>9. UNCHANGED <<pc, group, oldGroup, nSub, dt, iTry, stepVars, conf, base, cache, flag>>
    BY DEF Reduce
  <2>10. Seen(d, S)' = Seen(e, S)'
    BY <2>4, <2>5, <2>6, <2>8 DEF Seen
  <2> QED BY <2>2, <2>7, <2>9, <2>10 DEF Own, stepVars
<1>2. \A d \in Domain : ~waiting'[d]
  BY DEF Reduce
<1>3. \A S : Refreshing(S)' = Refreshing(S)
  BY DEF Refreshing, Refreshed, OwnNodes
<1> QED BY <1>1, <1>2, <1>3 DEF InStep, Ahead

(* All begin alike, with empty caches.                                     *)
LEMMA InStepInit == Init => InStep
<1> SUFFICES ASSUME Init PROVE InStep
  OBVIOUS
<1>1. ASSUME NEW S \in SUBSET Node, NEW d \in Domain, NEW e \in Domain
      PROVE  Own(d, S) = Own(e, S)
  BY DEF Init, Own, Seen, Run, Converged
<1>2. \A d \in Domain : pc[d] = "base"
  BY DEF Init
<1> QED BY <1>1, <1>2 DEF InStep, Ahead, Refreshing

(* Nothing has been cached when a cycle begins.                            *)
LEMMA CachesInit == Init => \A d \in Domain : CacheInv(d)
<1> SUFFICES ASSUME Init, NEW d \in Domain PROVE CacheInv(d)
  OBVIOUS
<1>1. pc[d] = "base" /\ group[d] = Highest
  BY DEF Init
<1>2. \A g \in 1 .. Lower : cache[d][g].pairs = {}
  BY Groups DEF Init, Group
<1> QED BY <1>1, <1>2 DEF CacheInv, Highests, Lowers, Counted, Trying

(* What the caches of a domain hold depends on its state, the groups of    *)
(* the pairs and the verdict on the errors that are being reduced.         *)
LEMMA CacheFrame ==
  ASSUME NEW d \in Domain, CacheInv(d),
         UNCHANGED <<pc[d], group[d], subTime[d], realDT[d], base[d], cache[d], pairGroup>>,
         pc[d] = "errors" => (Converged(d)' <=> Converged(d))
  PROVE  CacheInv(d)'
BY DEF CacheInv, Highests, Lowers, Counted, Trying, Saved, PairsIn, Behind, Converged

(* A rejected try leaves the caches as they are; pairs leave the highest   *)
(* group only when its step is about to be tried again.                    *)
LEMMA CachesAgain ==
  ASSUME SubcyclingInv, NEW d \in Domain, CacheInv(d), Trying(d), TryAgain(d),
         UNCHANGED <<group, stepVars, base, cache>>,
         pairGroup' = pairGroup \/ group[d] = Highest
  PROVE  CacheInv(d)'
<1>1. pc'[d] \in {"base", "fatal"}
  BY DEF SubcyclingInv, TypeOK, TryAgain, Call
<1>2. CASE group[d] = Highest
  BY <1>1, <1>2 DEF CacheInv, Highests, Lowers, Counted, Trying
<1>3. CASE group[d] # Highest
  <2>1. /\ pc'[d] \in {"base", "fatal"} /\ group'[d] = group[d] /\ subTime'[d] = subTime[d]
        /\ realDT'[d] = realDT[d] /\ cache'[d] = cache[d] /\ pairGroup' = pairGroup
    BY <1>1, <1>3 DEF stepVars
  <2>2. Lowers(d) /\ ~Counted(d) /\ pc[d] # "counts" /\ ~Highests(d)
    BY <1>3 DEF Lowers, Counted, Trying, Highests
  <2>3. /\ ~Counted(d)' /\ ~Highests(d)' /\ pc'[d] # "counts" /\ pc'[d] # "errors"
        /\ (Trying(d)' => pc'[d] = "base")
    BY <1>3, <2>1 DEF Counted, Trying, Highests
  <2>4. Behind(d, group[d])' /\ \A h : PairsIn(h)' = PairsIn(h)
    BY <2>1, <2>2 DEF CacheInv, Behind, PairsIn
  <2>5. ASSUME NEW g \in 1 .. Lower
        PROVE  /\ cache'[d][g].pairs \subseteq PairsIn(g)'
               /\ PairsIn(g)' # {} /\ subTime'[d][g] > 0 /\ ~(Lowers(d)' /\ group'[d] = g)
                    /\ Lowers(d)' => Saved(d, g)'
    BY <2>1, <2>2, <2>4 DEF CacheInv, Saved
  <2>6. cache'[d][Highest] = [pairs |-> PairsIn(Highest)', at |-> Physical(0)]
    BY <2>1, <2>2, <2>4 DEF CacheInv
  <2> QED BY <2>1, <2>3, <2>4, <2>5, <2>6 DEF CacheInv
<1> QED BY <1>2, <1>3

(* At every try a group leaves its force at the configuration it starts    *)
(* from.                                                                   *)
LEMMA CachesBase ==
  ASSUME SubcyclingInv, NEW d \in Domain, CacheInv(d), BaseEvaluated(d)
  PROVE  CacheInv(d)'
<1> DEFINE g == group[d]
<1>0. TypeOK /\ Trying(d) /\ pc[d] = "base" /\ g \in Group /\ conf[d] = base[d]
  BY StateTyped DEF SubcyclingInv, DomainInv, PlacesInv, BaseEvaluated, Returned, Trying
<1>1. CASE mobError[d]
  BY <1>0, <1>1, CachesAgain DEF BaseEvaluated
<1>2. CASE ~mobError[d]
  <2>1. pc'[d] = "stages" /\ UNCHANGED <<group, stepVars, base, pairGroup, verdict>>
    BY <1>0, <1>2 DEF BaseEvaluated, Call, TypeOK, seenVars
  <2>2. /\ \A h \in Group \ {g} : cache'[d][h] = cache[d][h]
        /\ g > 0 => cache'[d][g] = [pairs |-> PairsIn(g), at |-> base[d]]
    BY <1>0, <1>2 DEF BaseEvaluated, TypeOK, SavesForce
  <2>3. \A h \in 1 .. Lower : h \in Group /\ h # Highest
    BY Groups DEF Group
  <2>4. PairsIn(g)' = PairsIn(g) /\ \A h : PairsIn(h)' = PairsIn(h)
    BY <2>1 DEF PairsIn
  <2>5. CASE g = Highest
    BY <1>0, <2>1, <2>2, <2>3, <2>4, <2>5 DEF CacheInv, Highests, Lowers, Counted, Trying
  <2>6. CASE g # Highest
    <3>1. cache'[d][Highest] = cache[d][Highest]
      BY <2>2, <2>6, Groups
    <3>2. ASSUME NEW h \in 1 .. Lower
          PROVE  /\ cache'[d][h].pairs \subseteq PairsIn(h)
                 /\ PairsIn(h) # {} /\ subTime[d][h] > 0 /\ g # h => Saved(d, h)'
      <4>1. CASE h = g
        <5>1. cache'[d][h].pairs = PairsIn(h)
          BY <2>2, <2>3, <4>1, Groups DEF Group
        <5> QED BY <4>1, <5>1
      <4>2. CASE h # g
        <5>1. cache'[d][h] = cache[d][h]
          BY <2>2, <2>3, <4>2
        <5> QED BY <1>0, <2>1, <2>4, <2>6, <4>2, <5>1 DEF CacheInv, Lowers, Saved, stepVars
      <4> QED BY <4>1, <4>2
    <3> QED BY <1>0, <2>1, <2>2, <2>4, <2>6, <3>1, <3>2
            DEF CacheInv, Highests, Lowers, Counted, Trying, Behind, stepVars
  <2> QED BY <2>5, <2>6
<1> QED BY <1>1, <1>2

(* The later calls of a try leave the caches as they are.                  *)
LEMMA CachesTry ==
  ASSUME SubcyclingInv, NEW d \in Domain, CacheInv(d),
         StagesEvaluated(d) \/ ErrorsReduced(d) \/ FinalRejected(d)
  PROVE  CacheInv(d)'
<1>0. TypeOK /\ Trying(d) /\ pc[d] \in {"stages", "errors", "final"}
  BY DEF SubcyclingInv, StagesEvaluated, ErrorsReduced, FinalRejected, Returned, Trying
<1>1. CASE TryAgain(d)
  <2>1. UNCHANGED <<group, stepVars, base, cache>>
    BY DEF StagesEvaluated, ErrorsReduced, FinalRejected
  <2>2. pairGroup' = pairGroup \/ group[d] = Highest
    BY DEF StagesEvaluated, ErrorsReduced, FinalRejected
  <2> QED BY <1>0, <1>1, <2>1, <2>2, CachesAgain
<1>2. CASE ~TryAgain(d)
  <2>1. /\ pc'[d] \in {"errors", "final"} /\ (pc'[d] = "final" => pc[d] = "errors" /\ Converged(d))
        /\ pc[d] # "base"
        /\ pc[d] = "stages" \/ Converged(d)
        /\ UNCHANGED <<group, stepVars, base, cache, pairGroup>>
    BY <1>0, <1>2 DEF StagesEvaluated, ErrorsReduced, FinalRejected, Call, TypeOK, Returned
  <2>2. group[d] > 0 => cache[d][group[d]] = [pairs |-> PairsIn(group[d]), at |-> base[d]]
    BY <1>0, <2>1 DEF CacheInv
  <2> QED BY <1>0, <2>1, <2>2 DEF CacheInv, Highests, Lowers, Counted, Trying, Saved, PairsIn,
             Behind, stepVars
<1> QED BY <1>1, <1>2

(* The cache of the highest group is taken at the beginning of the cycle.  *)
LEMMA CachesHighest ==
  ASSUME SubcyclingInv, NEW d \in Domain, CacheInv(d), HighestAccepted(d)
  PROVE  CacheInv(d)'
<1>1. /\ TypeOK /\ Trying(d) /\ Highests(d) /\ pc[d] = "final" /\ group[d] = Highest
      /\ Highest > 0
  BY Groups DEF SubcyclingInv, HighestAccepted, Returned, Trying, Highests
<1>2. pc'[d] = "counts" /\ UNCHANGED <<group, cache, pairGroup>>
  BY <1>1 DEF HighestAccepted, Call, TypeOK
<1>3. base[d] = Physical(0)
  BY <1>1, Groups DEF SubcyclingInv, DomainInv, StepsInv, PlacesInv
<1> QED BY <1>1, <1>2, <1>3 DEF CacheInv, Highests, Lowers, Counted, Trying, PairsIn

(* A group with pairs has not taken a step when the pairs are counted.     *)
LEMMA CachesCounted ==
  ASSUME SubcyclingInv, NEW d \in Domain, CacheInv(d), PairsCounted(d)
  PROVE  CacheInv(d)'
<1>1. TypeOK /\ pc[d] = "counts" /\ \A g \in Group : subTime[d][g] = 0
  BY DEF SubcyclingInv, DomainInv, StepsInv, PairsCounted, Returned
<1>2. pc'[d] = "driver" /\ UNCHANGED <<group, cache, pairGroup>>
  BY <1>1 DEF PairsCounted, TypeOK
<1>3. \A g \in 1 .. Lower : PairsIn(g) # {} => subTime'[d][g] = 0
  BY <1>1, Groups DEF PairsCounted, TypeOK, Group
<1>4. \A g \in 1 .. Lower : PairsIn(g) # {} => ~(subTime'[d][g] > 0)
  BY <1>3
<1> QED BY <1>1, <1>2, <1>4 DEF CacheInv, Highests, Lowers, Counted, Trying, PairsIn

(* A group that has taken a step was behind the network.                   *)
LEMMA CachesGroup ==
  ASSUME SubcyclingInv, NEW d \in Domain, CacheInv(d), GroupAccepted(d)
  PROVE  CacheInv(d)'
<1> DEFINE g == group[d]
<1>0. TypeOK /\ DomainInv(d) /\ Trying(d) /\ Lowers(d) /\ g # Highest /\ pc[d] = "final"
  BY DEF SubcyclingInv, GroupAccepted, Returned, Trying, Lowers
<1>1. /\ MaxDT \in Nat /\ dt[d] \in Nat /\ g \in 0 .. Lower
      /\ \A h \in Group : subTime[d][h] \in Nat /\ realDT[d][h] \in Nat
      /\ base[d] = Physical(subTime[d][0])
  <2>1. /\ MaxDT \in Nat /\ dt[d] \in 0 .. MaxDT /\ g \in Group
        /\ subTime[d] \in [Group -> 0 .. MaxDT] /\ realDT[d] \in [Group -> 0 .. MaxDT]
    BY <1>0, StateTyped
  <2> QED BY <1>0, <2>1, Groups DEF DomainInv, PlacesInv
<1>2. /\ pc'[d] = "driver" /\ UNCHANGED <<group, cache, pairGroup>>
      /\ subTime'[d][g] = subTime[d][g] + dt[d] /\ realDT'[d][g] = dt[d]
      /\ \A h \in Group \ {g} : subTime'[d][h] = subTime[d][h] /\ realDT'[d][h] = realDT[d][h]
  <2>1. g \in Group
    BY <1>1, Groups DEF Group
  <2> QED BY <1>0, <2>1 DEF GroupAccepted, TypeOK
<1>3. \A h : PairsIn(h)' = PairsIn(h)
  BY <1>2 DEF PairsIn
<1>4. 0 \in 0 .. Lower /\ 0 \in Group /\ \A h \in 1 .. Lower : h \in Group
  BY Groups DEF Group
<1>5. subTime[d][0] <= subTime'[d][0]
  BY <1>1, <1>2, <1>4
<1>6. ASSUME NEW h \in 1 .. Lower, PairsIn(h) # {}, subTime'[d][h] > 0 PROVE Saved(d, h)'
  <2>1. CASE h = g
    <3>1. cache[d][h] = [pairs |-> PairsIn(h), at |-> Physical(subTime[d][0])]
      BY <1>0, <1>1, <2>1 DEF CacheInv
    <3>2. cache[d][h].pairs = PairsIn(h) /\ ~cache[d][h].at.trial
          /\ cache[d][h].at.time = subTime[d][0]
      BY <3>1 DEF Physical
    <3>3. subTime[d][h] <= subTime[d][0]
      BY <1>0, <1>4, <2>1 DEF CacheInv, Behind
    <3>4. subTime'[d][h] <= subTime[d][0] + realDT'[d][h]
      BY <1>1, <1>2, <1>4, <2>1, <3>3
    <3> QED BY <1>2, <1>3, <1>5, <3>2, <3>4 DEF Saved
  <2>2. CASE h # g
    <3>1. Saved(d, h)
      BY <1>0, <1>2, <1>4, <1>6, <2>2 DEF CacheInv
    <3>2. cache[d][h].at.time \in Nat
      BY <1>0, <1>4 DEF TypeOK, Configuration
    <3>3. cache[d][h].at.time <= subTime'[d][0]
      BY <1>1, <1>2, <1>4, <1>5, <3>1, <3>2 DEF Saved
    <3> QED BY <1>2, <1>3, <1>4, <2>2, <3>1, <3>3 DEF Saved
  <2> QED BY <2>1, <2>2
<1>7. \A h \in 1 .. Lower : cache[d][h].pairs \subseteq PairsIn(h)
  BY <1>0 DEF CacheInv
<1> QED BY <1>0, <1>2, <1>3, <1>6, <1>7 DEF CacheInv, Highests, Lowers, Counted, Trying

(* The driver picks the group that is furthest behind, so that the others  *)
(* have been saved.                                                        *)
LEMMA CachesDriver ==
  ASSUME SubcyclingInv, NEW d \in Domain, CacheInv(d),
         NextSubcycle(d) \/ FinishSubcycling(d) \/ FullEvaluated(d)
  PROVE  CacheInv(d)'
<1>0. TypeOK
  BY DEF SubcyclingInv
<1>1. /\ Counted(d) /\ ~Lowers(d)
      /\ UNCHANGED <<stepVars, cache, pairGroup>>
  BY <1>0 DEF NextSubcycle, FinishSubcycling, FullEvaluated, Returned, Counted, Lowers, Trying
<1>2. CASE NextSubcycle(d)
  <2>1. pc'[d] = "base" /\ \E g \in 0 .. Lower : Behind(d, g) /\ group'[d] = g
    BY <1>0, <1>2 DEF NextSubcycle, Call, TypeOK
  <2>2. Behind(d, group[d])' /\ group'[d] # Highest
    BY <1>1, <2>1, Groups DEF Behind, stepVars
  <2> QED BY <1>1, <2>1, <2>2 DEF CacheInv, Highests, Lowers, Counted, Trying, Saved, PairsIn,
             stepVars
<1>3. CASE ~NextSubcycle(d)
  <2>1. pc'[d] \in {"full", "done", "fatal"}
    BY <1>0, <1>3 DEF FinishSubcycling, FullEvaluated, Call, TypeOK
  <2> QED BY <1>1, <2>1 DEF CacheInv, Highests, Lowers, Counted, Trying, Saved, PairsIn, stepVars
<1> QED BY <1>2, <1>3

(* Pairs of the highest group are moved by every domain for itself; the    *)
(* others are waiting for another try, or will be.                         *)
LEMMA CachesOfOthers ==
  ASSUME TypeOK, InStep, NEW d \in Domain, DomainStep(d), NEW e \in Domain \ {d}, CacheInv(e)
  PROVE  CacheInv(e)'
<1>1. Own(e, {})' = Own(e, {})
  BY OthersOwn
<1>2. UNCHANGED <<pc[e], group[e], subTime[e], realDT[e], base[e], cache[e]>>
  <2> DEFINE s == Own(e, {})
  <2>1. /\ s.pc = pc[e] /\ s.group = group[e] /\ s.sub = subTime[e] /\ s.real = realDT[e]
        /\ s.base = base[e] /\ s.cache = cache[e]
    BY DEF Own
  <2>2. /\ s'.pc = pc'[e] /\ s'.group = group'[e] /\ s'.sub = subTime'[e]
        /\ s'.real = realDT'[e] /\ s'.base = base'[e] /\ s'.cache = cache'[e]
    BY DEF Own
  <2>3. s' = s
    BY <1>1
  <2> HIDE DEF s
  <2> QED BY <2>1, <2>2, <2>3
<1>3. UNCHANGED verdict
  BY DEF DomainStep, BaseEvaluated, StagesEvaluated, ErrorsReduced, FinalRejected,
     HighestAccepted, GroupAccepted, PairsCounted, NextSubcycle, FinishSubcycling,
     FullEvaluated, seenVars
<1>4. CASE pairGroup' = pairGroup
  BY <1>2, <1>3, <1>4, CacheFrame DEF Converged
<1>5. CASE pairGroup' # pairGroup
  <2>1. Returned(d, "errors") /\ ~Converged(d) /\ group[d] = Highest
    BY <1>5, PairsMove DEF ErrorsReduced
  <2>2. Own(e, {}) \in {Own(d, {}), Decided(Own(d, {}), pairGroup)}
    <3>1. d \in Refreshing({}) /\ e \in Refreshing({}) /\ {} \in SUBSET Node
      BY DEF Refreshing
    <3> QED BY <2>1, <3>1, ErrorsRound
  <2>3. Own(d, {}).group = Highest /\ ~Waits(Own(d, {})) /\ Rejects(Own(d, {})) /\ IsOwn(Own(d, {}))
        /\ Own(d, {}).pc = "errors"
    BY <2>1, OwnFields DEF Own, Seen, Run, Waits, Rejects, Returned
  <2>4. Decided(Own(d, {}), pairGroup).group = Highest
        /\ Decided(Own(d, {}), pairGroup).pc \in {"base", "fatal"}
    BY <2>3 DEF Decided, Again, IsOwn, Fields, Calling
  <2>5. group[e] = Highest /\ pc[e] \in {"errors", "base", "fatal"}
    <3>1. Own(e, {}).group = group[e] /\ Own(e, {}).pc = pc[e]
      BY DEF Own
    <3> QED BY <2>2, <2>3, <2>4, <3>1
  <2>6. ~Converged(e)'
    BY <1>3, <2>1 DEF Converged
  <2> QED BY <1>2, <2>5, <2>6 DEF CacheInv, Highests, Lowers, Counted, Trying
<1> QED BY <1>4, <1>5

(* Domains that all wait are in the same state, but for the flags of nodes *)
(* whose velocities they do not both have anew.                            *)
LEMMA WaitingAlike ==
  ASSUME InStep, \A d \in Domain : waiting[d], NEW S \in SUBSET Node,
         NEW d \in Refreshing(S), NEW e \in Refreshing(S)
  PROVE  /\ pc[d] = pc[e] /\ group[d] = group[e] /\ dt[d] = dt[e]
         /\ subTime[d] = subTime[e] /\ \A n \in S : flag[d][n] = flag[e][n]
<1> DEFINE s == Own(d, S)
           t == Own(e, S)
<1>1. /\ s.pc = pc[d] /\ s.group = group[d] /\ s.dt = dt[d] /\ s.sub = subTime[d]
      /\ s.flag = Of(flag[d], S)
  BY DEF Own
<1>2. /\ t.pc = pc[e] /\ t.group = group[e] /\ t.dt = dt[e] /\ t.sub = subTime[e]
      /\ t.flag = Of(flag[e], S)
  BY DEF Own
<1>3. Waits(s) /\ Waits(t) /\ IsOwn(s) /\ IsOwn(t)
  BY OwnFields DEF Own, Run, Waits, Refreshing
<1>4. Ahead(s, t) \/ Ahead(t, s)
  BY DEF InStep
<1> HIDE DEF s, t
<1>5. s = t
  BY <1>3, <1>4, TwoDecisions DEF Ahead
<1>6. \A n \in S : Of(flag[d], S)[n] = flag[d][n] /\ Of(flag[e], S)[n] = flag[e][n]
  BY DEF Of
<1> QED BY <1>1, <1>2, <1>5, <1>6

(* A collective call leaves the caches, and the verdict on errors that are *)
(* being reduced, as they are.                                             *)
LEMMA CachesReduced ==
  ASSUME TypeOK, InStep, Reduce, NEW d \in Domain, CacheInv(d)
  PROVE  CacheInv(d)'
<1>1. UNCHANGED <<pc[d], group[d], subTime[d], realDT[d], base[d], cache[d], pairGroup>>
  BY DEF Reduce, stepVars
<1>2. ASSUME pc[d] = "errors" PROVE Converged(d)' <=> Converged(d)
  <2>1. \A e \in Domain : pc[e] = "errors"
    <3>1. {} \in SUBSET Node /\ Refreshing({}) = Domain
      BY DEF Refreshing
    <3> QED BY <1>2, <3>1, WaitingAlike DEF Reduce
  <2>2. \A e \in Domain : verdict'[e] = verdict[e]
    BY <2>1 DEF Reduce
  <2> QED BY <2>2 DEF Converged
<1> QED BY <1>1, <1>2, CacheFrame

(* The three parts together are kept by every step.                        *)
LEMMA CachesStep == SubcyclingInv /\ CachesInv /\ [Next]_vars => CachesInv'
<1> SUFFICES ASSUME SubcyclingInv, CachesInv, [Next]_vars PROVE CachesInv'
  OBVIOUS
<1>0. TypeOK /\ InStep /\ \A d \in Domain : CacheInv(d)
  BY DEF SubcyclingInv, CachesInv
<1>1. CASE Reduce
  BY <1>0, <1>1, InStepReduced, CachesReduced DEF CachesInv
<1>2. CASE UNCHANGED vars
  <2>1. ASSUME NEW d \in Domain PROVE CacheInv(d)'
    <3>1. UNCHANGED <<pc[d], group[d], subTime[d], realDT[d], base[d], cache[d], pairGroup>>
      BY <1>2 DEF vars, stepVars
    <3>2. Converged(d)' <=> Converged(d)
      BY <1>2 DEF vars, seenVars, Converged
    <3> QED BY <1>0, <3>1, <3>2, CacheFrame
  <2>2. InStep'
    <3>1. \A S : Refreshing(S)' = Refreshing(S)
      BY DEF Refreshing, Refreshed, OwnNodes
    <3>2. \A d, S : Own(d, S)' = Own(d, S)
      BY <1>2, SeenStays DEF Own, Run, vars, stepVars
    <3> QED BY <1>0, <1>2, <3>1, <3>2 DEF InStep, Ahead, vars
  <2> QED BY <2>1, <2>2 DEF CachesInv
<1>3. ASSUME NEW d \in Domain, DomainStep(d) PROVE CachesInv'
  <2>1. CacheInv(d)'
    BY <1>0, <1>3, CachesBase, CachesTry, CachesHighest, CachesCounted, CachesGroup,
       CachesDriver DEF DomainStep
  <2>2. \A e \in Domain \ {d} : CacheInv(e)'
    BY <1>0, <1>3, CachesOfOthers
  <2>3. InStep'
    BY <1>0, <1>3, InStepKept
  <2> QED BY <2>1, <2>2, <2>3 DEF CachesInv
<1> QED BY <1>1, <1>2, <1>3 DEF Next

(* The domains stay in step, and their caches current, throughout a cycle. *)
THEOREM CachesInvariant == Spec => [](SubcyclingInv /\ CachesInv)
<1>1. Init => SubcyclingInv /\ CachesInv
  BY InvInit, InStepInit, CachesInit DEF CachesInv
<1>2. SubcyclingInv /\ CachesInv /\ [Next]_vars => (SubcyclingInv /\ CachesInv)'
  BY InvStep, CachesStep
<1> QED BY <1>1, <1>2, PTL DEF Spec

(* The domains take the same decisions, each from its own copies           *)
(* (SubcyclingIntegrator, AdaptiveRKFStep, ForwardProgressCheck): they     *)
(* wait in the same call, for the same group and step, and a node is       *)
(* frozen or flagged by its owner and by all domains that are sent its     *)
(* velocity, or by none.  Secondary ghosts are not sent it and may differ. *)
THEOREM DomainsTakeSameDecisions == Spec => []DomainsAgree
<1>1. SubcyclingInv /\ CachesInv => DomainsAgree
  <2> SUFFICES ASSUME SubcyclingInv, CachesInv PROVE DomainsAgree
    OBVIOUS
  <2>1. SameCollective
    <3>1. {} \in SUBSET Node /\ Refreshing({}) = Domain
      BY DEF Refreshing
    <3> QED BY <3>1, WaitingAlike DEF SameCollective, CachesInv
  <2>2. FlagsAgree
    <3> SUFFICES ASSUME \A d \in Domain : waiting[d], NEW d \in Domain, NEW e \in Domain,
                        NEW n \in Node, Knows(d, n), Knows(e, n)
                 PROVE  flag[d][n] = flag[e][n]
      BY DEF FlagsAgree
    <3>1. {n} \in SUBSET Node /\ d \in Refreshing({n}) /\ e \in Refreshing({n})
      BY DEF Refreshing, Refreshed, OwnNodes, Knows
    <3> QED BY <3>1, WaitingAlike DEF CachesInv
  <2>3. FrozenInOneGroup
    BY DEF SubcyclingInv, DomainInv, FrozenInv, FrozenInOneGroup
  <2> QED BY <2>1, <2>2, <2>3 DEF DomainsAgree
<1> QED BY <1>1, CachesInvariant, PTL

(* A group with pairs that is ahead of group 0 has taken a step.           *)
LEMMA MovingSaved ==
  ASSUME SubcyclingInv, NEW d \in Domain, CacheInv(d), MovingNetwork(d)
  PROVE  /\ Lowers(d) /\ subTime[d][0] \in Nat /\ subTime[d][0] < OuterDT(d)
         /\ cache[d][Highest] = [pairs |-> PairsIn(Highest), at |-> Physical(0)]
         /\ \A g \in 1 .. Lower : /\ cache[d][g].pairs \subseteq PairsIn(g)
                                  /\ PairsIn(g) # {} => Saved(d, g)
                                  /\ subTime[d][0] < subTime[d][g]
<1>0. TypeOK /\ DomainInv(d) /\ Trying(d) /\ Lowers(d) /\ group[d] = 0
  BY Groups DEF SubcyclingInv, MovingNetwork, Trying, Lowers
<1>1. /\ subTime[d][0] \in Nat /\ OuterDT(d) \in Nat /\ dt[d] \in Nat /\ MaxDT \in Nat
      /\ \A g \in 1 .. Lower : subTime[d][g] \in Nat
  BY <1>0, StateTyped, Groups DEF Group
<1>2. dt[d] >= 1 /\ dt[d] <= OuterDT(d) - subTime[d][0]
  BY <1>0 DEF DomainInv, StepsInv, Remaining
<1>3. subTime[d][0] < OuterDT(d)
  BY <1>1, <1>2
<1>4. \A g \in 1 .. Lower : subTime[d][0] < subTime[d][g]
  BY <1>0 DEF CacheInv, Behind
<1>5. \A g \in 1 .. Lower : subTime[d][g] > 0 /\ group[d] # g
  BY <1>0, <1>1, <1>4
<1> QED BY <1>0, <1>1, <1>3, <1>4, <1>5 DEF CacheInv

(* When group 0 moves the network, the force of every pair is in exactly   *)
(* one place, at a physical configuration that is not out of date          *)
(* (SaveCurrentGroupForce, MoveHighestGroupInteractions).                  *)
THEOREM ForcesComplete == Spec => []ForcesSound
<1>1. ASSUME SubcyclingInv, CachesInv, NEW d \in Domain, MovingNetwork(d), NEW p \in Pair
      PROVE  Holding(d, p) = {pairGroup[p]}
  <2>1. /\ cache[d][Highest].pairs = PairsIn(Highest)
        /\ \A g \in 1 .. Lower : /\ cache[d][g].pairs \subseteq PairsIn(g)
                                 /\ PairsIn(g) # {} => cache[d][g].pairs = PairsIn(g)
    BY <1>1, MovingSaved DEF CachesInv, Saved
  <2>2. \A g \in 1 .. Highest : cache[d][g].pairs = PairsIn(g)
    <3>1. \A g \in 1 .. Highest : g = Highest \/ g \in 1 .. Lower
      BY Groups
    <3> QED BY <2>1, <3>1
  <2>3. \A g \in 1 .. Highest : p \in cache[d][g].pairs <=> pairGroup[p] = g
    BY <2>2 DEF PairsIn
  <2>4. pairGroup[p] \in 0 .. Highest
    BY <1>1, Groups DEF SubcyclingInv, TypeOK, Group, Highest
  <2> QED BY <2>3, <2>4 DEF Holding
<1>2. ASSUME SubcyclingInv, CachesInv, NEW d \in Domain, MovingNetwork(d),
             NEW g \in 1 .. Highest, PairsIn(g) # {}
      PROVE  /\ ~cache[d][g].at.trial
             /\ cache[d][g].at.time <= subTime[d][0]
             /\ subTime[d][0] < cache[d][g].at.time + realDT[d][g]
  <2>1. CASE g = Highest
    <3>1. cache[d][g].at = Physical(0) /\ subTime[d][0] \in Nat
          /\ subTime[d][0] < realDT[d][Highest]
      BY <1>2, <2>1, MovingSaved DEF CachesInv, OuterDT
    <3>2. cache[d][g].at.time = 0 /\ ~cache[d][g].at.trial
      BY <3>1 DEF Physical
    <3>3. realDT[d][g] \in Nat
      BY <1>2, <2>1, StateTyped, Groups DEF SubcyclingInv
    <3> QED BY <2>1, <3>1, <3>2, <3>3
  <2>2. CASE g # Highest
    <3>1. g \in 1 .. Lower /\ g \in Group
      BY <2>2, Groups DEF Group
    <3>2. Saved(d, g) /\ subTime[d][0] < subTime[d][g]
      BY <1>2, <3>1, MovingSaved DEF CachesInv
    <3>3. subTime[d][0] \in Nat /\ subTime[d][g] \in Nat /\ realDT[d][g] \in Nat
      BY <1>2, <3>1, StateTyped, Groups DEF SubcyclingInv
    <3>4. cache[d][g].at.time \in Nat
      BY <1>2, <3>1 DEF SubcyclingInv, TypeOK, Configuration
    <3> QED BY <3>2, <3>3, <3>4 DEF Saved
  <2> QED BY <2>1, <2>2
<1>3. SubcyclingInv /\ CachesInv => ForcesSound
  BY <1>1, <1>2 DEF ForcesSound, PairsOnce, CachesCurrent
<1> QED BY <1>3, CachesInvariant, PTL
=============================================================================
