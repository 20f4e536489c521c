------------------------------- MODULE Timestep -------------------------------
(***************************************************************************)
(* The trapezoid integrator (TrapezoidIntegrator.cc) in every domain, with *)
(* the evaluation of ParadisStep.cc before it and the exchange of ghosts   *)
(* after it, over any number of timesteps.                                 *)
(*                                                                         *)
(* A domain moves its nodes and its ghosts by the step to be tried,        *)
(* evaluates the velocities of its own nodes there, sends them to its      *)
(* neighbours, and all domains reduce their errors.  They accept the step, *)
(* or reposition the nodes and try again, or cut the step and start from   *)
(* the old positions.  Every domain computes this for itself.              *)
(*                                                                         *)
(* A velocity is the evaluation it comes from: Entry is that of            *)
(* ParadisStep, 1, 2, ... are those of the integrator, Last is what the    *)
(* ghosts arrived with.  It is what the owner has after that evaluation,   *)
(* also where the mobility function failed.  A position is what it was     *)
(* computed from: the two velocities that were averaged, and the step.  So *)
(* two copies of a node are at the same place if their positions are       *)
(* equal.  Steps are whole numbers of the least one; a cut halves, an      *)
(* increment doubles.                                                      *)
(*                                                                         *)
(* A message of an exchange is the velocities of its sender when it was    *)
(* packed; a receive takes the next one of each neighbour, as Exchange     *)
(* shows of two messages of fixed order.  Ghosts whose owner does not know *)
(* of them (secondary ghosts) get no message.                              *)
(*                                                                         *)
(* Left out, as they make no difference: by how much an error is too large *)
(* and which of rTol and maxSeg it exceeds; the size of the increment      *)
(* under dtVariableAdjustment; zeroOnError, used in the first timestep     *)
(* alone; velocity limits and periodic images.                             *)
(*                                                                         *)
(* Mutants (see the README): Unlimited, NativesOnly, OwnError, StepNotSet, *)
(* NeverTooSmall.                                                          *)
(***************************************************************************)
EXTENDS Integers

CONSTANTS Domain, Node,
          First,         \* domain 0
          NodeDomain,    \* the domain that owns a node
          Primary,       \* Primary[d]: ghosts in the cells next to those of d
          Secondary,     \* Secondary[d]: other ends of the arms of those
          NewNodes,      \* nodes that a timestep may split off
          MaxIterations, \* param->trapezoidMaxIterations
          MaxDT,         \* param->maxDT
          MaxRounds,     \* bound on the evaluations of a timestep, never reached
          Proposals      \* param->nextDT of a control or restart file

ASSUME NodesAssumption ==
  /\ First \in Domain
  /\ NodeDomain \in [Node -> Domain]
  /\ Primary \in [Domain -> SUBSET Node]
  /\ Secondary \in [Domain -> SUBSET Node]
  /\ NewNodes \subseteq Node
  /\ \A d \in Domain : \A n \in Primary[d] \cup Secondary[d] : NodeDomain[n] # d
ASSUME StepsAssumption ==
  /\ MaxIterations \in Nat \ {0}
  /\ MaxDT \in Nat \ {0}
  /\ MaxRounds \in Nat
  /\ Proposals \subseteq Nat

Last  == -1    \* the velocities that came with the ghosts
Entry == 0     \* those of ParadisStep
Older == -2    \* oldv: those of the timestep before
Unset == -3    \* oldv of a node that was split off: zero

Native(d) == {n \in Node : NodeDomain[n] = d}
Neighbours(d) == {NodeDomain[n] : n \in Primary[d]}
Least(a, b) == IF a <= b THEN a ELSE b

VARIABLES
  pc,
  round,      \* the last evaluation
  iter,       \* iter, from 1
  newDT,      \* the local variable
  deltaTT, realDT, nextDT,
  incrDelta,
  vel,        \* v of every node a domain has
  currV, oldV,
  pos,
  mail,       \* what the domain has sent: in ParadisStep, in the integrator
  mobError,   \* what CalcNodeVelocities has returned
  bad,        \* natives with an error above rTol, or moved by maxSeg
  global      \* the reduced errors: "mobility", "position" or "none"

dtVars == <<newDT, deltaTT, realDT, nextDT, incrDelta>>
velVars == <<vel, currV, oldV>>
errVars == <<mobError, bad, global>>
vars == <<pc, round, iter, dtVars, velVars, pos, mail, errVars>>

AtStart == [curr |-> Last, with |-> Last, dt |-> 0]
-----------------------------------------------------------------------------
(* After CommSendGhosts every copy of a node is that of its owner; nodes   *)
(* split off in the timestep have no old velocity.                         *)
Init ==
  /\ pc = [d \in Domain |-> "evaluate"]
  /\ round = [d \in Domain |-> Last]
  /\ iter = [d \in Domain |-> 0]
  /\ newDT = [d \in Domain |-> 0]
  /\ deltaTT = newDT /\ realDT = newDT
  /\ \E dt \in Proposals : nextDT = [d \in Domain |-> dt]
  /\ incrDelta = [d \in Domain |-> TRUE]
  /\ vel = [d \in Domain |-> [n \in Node |-> Last]]
  /\ currV = vel
  /\ \E split \in SUBSET NewNodes :
       oldV = [d \in Domain |-> [n \in Node |->
                 IF n \in split THEN Unset ELSE Older]]
  /\ pos = [d \in Domain |-> [n \in Node |-> AtStart]]
  /\ mail = [d \in Domain |-> [entry |-> vel[d], trial |-> vel[d]]]
  /\ mobError = [d \in Domain |-> FALSE]
  /\ bad = [d \in Domain |-> {}]
  /\ global = [d \in Domain |-> "none"]

Goto(d, label) == pc' = [pc EXCEPT ![d] = label]

(* NodeForce, CalcNodeVelocities, and the packing of CommSendVelocity.     *)
(* ParadisStep ignores an error of the mobility function.  Errors of       *)
(* positions count from zero again.                                        *)
Evaluate(d) ==
  /\ pc[d] = "evaluate" /\ round[d] < MaxRounds
  /\ round' = [round EXCEPT ![d] = @ + 1]
  /\ vel' = [vel EXCEPT ![d] = [n \in Node |-> IF n \in Native(d) THEN round'[d]
                                               ELSE vel[d][n]]]
  /\ mail' = IF round'[d] = Entry THEN [mail EXCEPT ![d].entry = vel'[d]]
                                  ELSE [mail EXCEPT ![d].trial = vel'[d]]
  /\ \E failed \in BOOLEAN :
       mobError' = [mobError EXCEPT ![d] = failed /\ round'[d] # Entry]
  /\ bad' = [bad EXCEPT ![d] = {}]
  /\ Goto(d, "receive")
  /\ UNCHANGED <<iter, dtVars, currV, oldV, pos, global>>

(* CommSendVelocity waits for all neighbours and unpacks.  In the          *)
(* integrator, the errors of the natives follow, unless there is none to   *)
(* compute.                                                                *)
Message(d, m) == IF round[d] = Entry THEN mail[m].entry ELSE mail[m].trial
Receive(d) ==
  /\ pc[d] = "receive"
  /\ \A m \in Neighbours(d) : round[m] >= round[d]
  /\ vel' = [vel EXCEPT ![d] =
               [n \in Node |-> IF n \in Primary[d]
                               THEN Message(d, NodeDomain[n])[n]
                               ELSE vel[d][n]]]
  /\ IF round[d] = Entry
     THEN Goto(d, "begin") /\ UNCHANGED bad
     ELSE /\ Goto(d, "reduce")
          /\ \E nodes \in SUBSET Native(d) :
               /\ mobError[d] => nodes = {}
               /\ bad' = [bad EXCEPT ![d] = nodes]
  /\ UNCHANGED <<round, iter, dtVars, currV, oldV, pos, mail, mobError, global>>
-----------------------------------------------------------------------------
(* Advance_Nodes: from the old position, by the mean of the velocity on    *)
(* entry and that of the timestep before, over deltaTT.                    *)
OldVelocity(old, curr) == IF old = Unset THEN curr ELSE old
Advanced(curr, old, dt) == [curr |-> curr, with |-> OldVelocity(old, curr), dt |-> dt]
Advance(d) ==
  /\ oldV' = [oldV EXCEPT ![d] = [n \in Node |-> OldVelocity(oldV[d][n], currV'[d][n])]]
  /\ pos' = [pos EXCEPT ![d] =
               [n \in Node |-> Advanced(currV'[d][n], oldV[d][n], deltaTT'[d])]]

(* Reposition_Nodes, for the natives and for the ghosts: from the old      *)
(* position, by the mean of the velocity on entry and the last one, over   *)
(* the local newDT.                                                        *)
NativesOnly(d) == Native(d)
Repositioned(d) == Node
Reposition(d) ==
  pos' = [pos EXCEPT ![d] =
            [n \in Node |->
               IF n \in Repositioned(d)
               THEN [curr |-> currV[d][n], with |-> vel[d][n], dt |-> newDT[d]]
               ELSE pos[d][n]]]

(* The first part of TrapezoidIntegrator. *)
Unlimited(dt) == IF dt = 0 THEN MaxDT ELSE dt
Suggested(dt) == IF dt = 0 THEN MaxDT ELSE Least(MaxDT, dt)
Begin(d) ==
  /\ pc[d] = "begin"
  /\ newDT' = [newDT EXCEPT ![d] = Suggested(nextDT[d])]
  /\ deltaTT' = [deltaTT EXCEPT ![d] = newDT'[d]]
  /\ realDT' = [realDT EXCEPT ![d] = newDT'[d]]
  /\ incrDelta' = [incrDelta EXCEPT ![d] = TRUE]
  /\ currV' = [currV EXCEPT ![d] = vel[d]]
  /\ Advance(d)
  /\ iter' = [iter EXCEPT ![d] = 1]
  /\ Goto(d, "evaluate")
  /\ UNCHANGED <<round, nextDT, vel, mail, errVars>>

(* The reduction: an error of the mobility function anywhere outranks the  *)
(* errors of positions.                                                    *)
OwnError(d) == {d}
Contributes(d) == Domain
ReducedError(d) ==
  CASE \E e \in Contributes(d) : mobError[e]   -> "mobility"
    [] \A e \in Contributes(d) : ~mobError[e] /\ bad[e] = {} -> "none"
    [] OTHER -> "position"

Reduce ==
  /\ \A d \in Domain : pc[d] = "reduce"
  /\ pc' = [d \in Domain |-> "decide"]
  /\ global' = [d \in Domain |-> ReducedError(d)]
  /\ UNCHANGED <<round, iter, dtVars, velVars, pos, mail, mobError, bad>>
-----------------------------------------------------------------------------
(* The rest of an iteration, and of an attempt. *)

Iterate(d) ==
  /\ pc[d] = "decide" /\ global[d] = "position" /\ iter[d] < MaxIterations
  /\ incrDelta' = [incrDelta EXCEPT ![d] = FALSE]
  /\ Reposition(d)
  /\ iter' = [iter EXCEPT ![d] = @ + 1]
  /\ Goto(d, "evaluate")
  /\ UNCHANGED <<round, newDT, deltaTT, realDT, nextDT, velVars, mail, errVars>>

(* Only domain 0 gives up when the step has become too small. *)
NeverTooSmall(dt) == FALSE
TooSmall(dt) == dt < 1
StepNotSet(d) == deltaTT[d]
StepToTry(d) == newDT'[d]
CutStep(d) ==
  /\ pc[d] = "decide"
  /\ \/ global[d] = "mobility" /\ UNCHANGED incrDelta
     \/ /\ global[d] = "position" /\ iter[d] = MaxIterations
        /\ incrDelta' = [incrDelta EXCEPT ![d] = FALSE]
  /\ newDT' = [newDT EXCEPT ![d] = @ \div 2]
  /\ deltaTT' = [deltaTT EXCEPT ![d] = StepToTry(d)]
  /\ IF TooSmall(newDT'[d]) /\ d = First
     THEN Goto(d, "fatal") /\ UNCHANGED <<iter, realDT, currV, oldV, pos>>
     ELSE /\ realDT' = [realDT EXCEPT ![d] = deltaTT'[d]]
          /\ currV' = currV
          /\ Advance(d)
          /\ iter' = [iter EXCEPT ![d] = 1]
          /\ Goto(d, "evaluate")
  /\ UNCHANGED <<round, nextDT, vel, mail, errVars>>

Accept(d) ==
  /\ pc[d] = "decide" /\ global[d] = "none"
  /\ deltaTT' = [deltaTT EXCEPT ![d] = newDT[d]]
  /\ realDT' = [realDT EXCEPT ![d] = newDT[d]]
  /\ nextDT' = [nextDT EXCEPT ![d] =
                  IF incrDelta[d] THEN Least(MaxDT, 2 * newDT[d]) ELSE newDT[d]]
  /\ oldV' = [oldV EXCEPT ![d] = currV[d]]
  /\ Goto(d, "done")
  /\ UNCHANGED <<round, iter, newDT, incrDelta, vel, currV, pos, mail, errVars>>

(* The rest of ParadisStep: topology, migration, and new ghosts.  The      *)
(* local variables of the integrator are gone.                             *)
NextCycle ==
  /\ \A d \in Domain : pc[d] = "done"
  /\ pc' = [d \in Domain |-> "evaluate"]
  /\ round' = [d \in Domain |-> Last]
  /\ vel' = [d \in Domain |-> [n \in Node |-> Last]]
  /\ \E split \in SUBSET NewNodes :
       oldV' = [d \in Domain |-> [n \in Node |->
                  IF n \in split THEN Unset ELSE Older]]
  /\ pos' = [d \in Domain |-> [n \in Node |-> AtStart]]
  /\ mail' = [d \in Domain |-> [entry |-> vel'[d], trial |-> vel'[d]]]
  /\ currV' = vel'
  /\ mobError' = [d \in Domain |-> FALSE]
  /\ bad' = [d \in Domain |-> {}]
  /\ global' = [d \in Domain |-> "none"]
  /\ iter' = [d \in Domain |-> 0]
  /\ newDT' = [d \in Domain |-> 0]
  /\ incrDelta' = [d \in Domain |-> TRUE]
  /\ UNCHANGED <<deltaTT, realDT, nextDT>>

Stopped == pc[First] = "fatal" \/ \E d \in Domain : round[d] = MaxRounds
Aborted == Stopped /\ UNCHANGED vars

Step(d) == \/ Evaluate(d) \/ Receive(d) \/ Begin(d) \/ Iterate(d)
           \/ CutStep(d) \/ Accept(d)
Next == Reduce \/ NextCycle \/ Aborted \/ \E d \in Domain : Step(d)

Spec == Init /\ [][Next]_vars
FairSpec == Spec /\ WF_vars(Reduce) /\ \A d \in Domain : WF_vars(Step(d))
-----------------------------------------------------------------------------
Labels == {"evaluate", "receive", "begin", "reduce", "decide", "done",
           "fatal"}
Position == [curr : Int, with : Int, dt : Nat]

(* The variables have the values their declarations promise; domain 0      *)
(* alone gives up, and only with a step that is too small to go on.        *)
TypeOK ==
  /\ pc \in [Domain -> Labels]
  /\ round \in [Domain -> Int] /\ \A d \in Domain : round[d] >= Last
  /\ iter \in [Domain -> 0 .. MaxIterations]
  /\ newDT \in [Domain -> 0 .. MaxDT] /\ deltaTT \in [Domain -> 0 .. MaxDT]
  /\ realDT \in [Domain -> 0 .. MaxDT] /\ nextDT \in [Domain -> Nat]
  /\ incrDelta \in [Domain -> BOOLEAN]
  /\ vel \in [Domain -> [Node -> Int]]
  /\ currV \in [Domain -> [Node -> Int]] /\ oldV \in [Domain -> [Node -> Int]]
  /\ pos \in [Domain -> [Node -> Position]]
  /\ mail \in [Domain -> [entry : [Node -> Int], trial : [Node -> Int]]]
  /\ mobError \in [Domain -> BOOLEAN]
  /\ bad \in [Domain -> SUBSET Node]
  /\ global \in [Domain -> {"none", "position", "mobility"}]
  /\ \A d \in Domain : pc[d] = "fatal" => d = First /\ newDT[d] = 0

(* The evaluation whose positions a domain has. *)
Trial(d) == IF pc[d] = "evaluate" THEN round[d] + 1 ELSE round[d]

(* Domains that are at the same evaluation have the same step, and every   *)
(* primary ghost is where its owner has the node: forces are computed at   *)
(* one configuration, and the accepted one is the same in every domain,    *)
(* though each domain moves its copies by itself.                          *)
(* TrapezoidIntegrator.cc:829 and 920, with CommSendVelocity at 840.       *)
GhostsInStep ==
  \A d \in Domain : \A n \in Primary[d] :
    LET o == NodeDomain[n] IN
      (Trial(d) = Trial(o) /\ pc[d] # "begin" /\ pc[o] # "begin"
         /\ pc[o] # "fatal" /\ pc[d] # "fatal")
      => deltaTT[d] = deltaTT[o] /\ pos[d][n] = pos[o][n]

(* What a domain accepts was judged good by the owners of all nodes, at    *)
(* the positions of exactly the accepted step; all domains accept the same *)
(* step and the same proposal for the next one, however often it was cut   *)
(* and whoever had the error (lines 880 to 1000).                          *)
AcceptedAsJudged ==
  \A d \in Domain : pc[d] = "done" =>
    /\ deltaTT[d] = realDT[d] /\ realDT[d] > 0
    /\ \A n \in Node : pos[d][n].dt = realDT[d]
    /\ \A e \in Domain : ~mobError[e] /\ bad[e] = {}
    /\ \A e \in Domain : pc[e] = "done" =>
         realDT[e] = realDT[d] /\ nextDT[e] = nextDT[d]

(* Every timestep comes to an accepted step, or domain 0 aborts. *)
StepEnds == []<>((\A d \in Domain : pc[d] = "done") \/ pc[First] = "fatal")

(* "Automatically increment timestep if convergence was reached on the     *)
(* very first iteration of the above loop" (TrapezoidIntegrator.cc:967).   *)
(* Not so: after an error of the mobility function the step is cut but     *)
(* incrDelta stays set (see the README, no run checks it).                 *)
GrowsAfterFirstIteration ==
  [][\A d \in Domain :
       pc[d] = "decide" /\ pc'[d] = "done" /\ nextDT'[d] > realDT'[d]
         => round[d] = 1]_vars

(* "This includes all ghost nodes, so nodal velocities must previously     *)
(* have been distributed to neighboring domains"                           *)
(* (TrapezoidIntegrator.cc:826), and secondary ghosts are there to         *)
(* calculate forces (CommSendSecondaryGhosts.cc:14).  Not so:              *)
(* CommSendVelocity sends the nodes of exported cells only (see the        *)
(* README, no run checks it).                                              *)
AllGhostsInStep ==
  \A d \in Domain : \A n \in Secondary[d] :
    pc[d] = "done" /\ pc[NodeDomain[n]] = "done"
      => pos[d][n] = pos[NodeDomain[n]][n]
=============================================================================
