------------------------------ MODULE Subcycling ------------------------------
(***************************************************************************)
(* One outer cycle of the drift-mode subcycling integrator                 *)
(* (SubcyclingIntegrator.cc) in every domain.                              *)
(*                                                                         *)
(* Pairs of segments are divided into groups, the near ones in group 0.    *)
(* The highest group is tried first and its accepted step is the outer     *)
(* step; then the group that is furthest behind takes a step, until group  *)
(* 0 has reached the end.  Only group 0 moves the network: what the others *)
(* leave is the force of their pairs, kept in a cache and added to the     *)
(* force of group 0.                                                       *)
(*                                                                         *)
(* Times are whole numbers of the least step; a cut halves a step and an   *)
(* increment doubles it.  Between two collective calls a domain works      *)
(* alone.  The five stage evaluations of a try are one collective call     *)
(* here, and forces and velocities are what their reader can tell apart:   *)
(* whose pairs they hold, at which configuration, and the verdicts on      *)
(* them.  Each domain takes its verdicts from its own copies of the nodes, *)
(* of which the secondary ghosts have old velocities.  A message passed    *)
(* inside an evaluation (CommSendVelocity, segment forces) arrives in it,  *)
(* as every evaluation ends in a reduction.                                *)
(*                                                                         *)
(* Left out, as they make no difference: the distinction of rTol, relative *)
(* error and NaN (an error is an error, "far" is a node moved further than *)
(* maxSeg); the size of the increment under dtVariableAdjustment, which    *)
(* depends on the reduced error alone; proposals <= 0 (Initialize.cc sets  *)
(* them); the clean-up of rounded sums of times and the limit of ten       *)
(* million subcycles.                                                      *)
(*                                                                         *)
(* Mutants (see the README): LocalError, FirstTryOnly, NoCut, Unclipped,   *)
(* TrialKept, NeverKept, OwnNodes, LaterOnTies, NeverReset.                *)
(***************************************************************************)
EXTENDS Integers

CONSTANTS Domain, Node, Pair,
          NodeDomain, PairDomain,  \* the domain that owns a node, a pair
          Primary,       \* Primary[d]: ghosts in the cells next to those of d
          Secondary,     \* Secondary[d]: other ends of the arms of those
          Ends,          \* Ends[p]: the nodes of the two segments of a pair
          Reach,         \* Reach[p]: the first try that may move this pair
          NumGroups,
          MaxDT,         \* param->maxDT
          Proposals,     \* the steps proposed by earlier cycles
          Patience,      \* 3 in the code: steps of a group before nodes freeze
          Tries          \* 3 in the code: tries that may move pairs

ASSUME OwnersAssumption == /\ NodeDomain \in [Node -> Domain]
                           /\ PairDomain \in [Pair -> Domain]
                           /\ Ends \in [Pair -> SUBSET Node]
                           /\ Reach \in [Pair -> Nat \ {0}]
ASSUME GhostsAssumption ==
  /\ Primary \in [Domain -> SUBSET Node] /\ Secondary \in [Domain -> SUBSET Node]
  /\ \A d \in Domain : \A n \in Primary[d] \cup Secondary[d] : NodeDomain[n] # d
  /\ \A d \in Domain : Primary[d] \cap Secondary[d] = {}
ASSUME GroupsAssumption == NumGroups \in 2 .. 5
ASSUME StepsAssumption == /\ MaxDT \in Nat \ {0}
                          /\ Proposals \subseteq 1 .. MaxDT
                          /\ Patience \in Nat /\ Tries \in Nat \ {0}

Group   == 0 .. NumGroups - 1
Highest == NumGroups - 1
Lower   == NumGroups - 2
Least(a, b) == IF a <= b THEN a ELSE b

VARIABLES
  pc,          \* the collective call a domain is in or has returned from
  waiting,     \* TRUE: it has not returned yet
  group, oldGroup, nSub,   \* state->group, oldGroup, nSubcycInGroup
  dt, iTry,
  subTime, nextDT, realDT, \* per group
  conf, base,  \* the configuration, [time, trial], and the one a try starts at
  cache,       \* cachedForce: per group [pairs, at]
  pairGroup,   \* the group of a pair, kept by its owner
  flag,        \* nodeFlag: 1 normal, 0 frozen, 2 excessive error
  mobError,    \* what the last evaluation has returned
  verdict,     \* verdict[d][n]: the RKF error of n, as d computes it
  reversed     \* reversed[d][n]: n moves, for d, against its first velocity

stepVars == <<subTime, nextDT, realDT>>
seenVars == <<mobError, verdict, reversed>>
vars == <<pc, waiting, group, oldGroup, nSub, dt, iTry, stepVars, conf, base,
          cache, pairGroup, flag, seenVars>>

None == [n \in Node |-> 1]
Physical(t) == [time |-> t, trial |-> FALSE]
OuterDT(d)  == realDT[d][Highest]
PairsIn(g)  == {p \in Pair : pairGroup[p] = g}
-----------------------------------------------------------------------------
(* Any cycle: proposals of earlier cycles, pairs at any distances.         *)
Init ==
  /\ pc = [d \in Domain |-> "base"] /\ waiting = [d \in Domain |-> TRUE]
  /\ group = [d \in Domain |-> Highest]
  /\ oldGroup = [d \in Domain |-> NumGroups]      \* -1 in the code: no group
  /\ nSub = [d \in Domain |-> 0] /\ iTry = [d \in Domain |-> 0]
  /\ \E proposed \in [Group -> Proposals] :
       /\ nextDT = [d \in Domain |-> proposed]
       /\ dt = [d \in Domain |-> proposed[Highest]]
  /\ subTime = [d \in Domain |-> [g \in Group |-> 0]]
  /\ realDT = subTime
  /\ conf = [d \in Domain |-> Physical(0)] /\ base = conf
  /\ cache = [d \in Domain |-> [g \in Group |->
                [pairs |-> {}, at |-> Physical(0)]]]
  /\ pairGroup \in [Pair -> Group]
  /\ flag = [d \in Domain |-> None]
  /\ mobError = [d \in Domain |-> FALSE]
  /\ verdict = [d \in Domain |-> [n \in Node |-> "fine"]]
  /\ reversed = [d \in Domain |-> [n \in Node |-> FALSE]]

Call(d, name) == /\ pc' = [pc EXCEPT ![d] = name]
                 /\ waiting' = [waiting EXCEPT ![d] = TRUE]
Returned(d, name) == pc[d] = name /\ ~waiting[d]
Evaluations == {"base", "stages", "final", "full"}

(* The nodes whose velocities a domain has anew after every evaluation: it *)
(* computes those of its own and is sent those of its primary ghosts.      *)
OwnNodes(d) == {n \in Node : NodeDomain[n] = d}
Refreshed(d) == OwnNodes(d) \cup Primary[d]

(* A collective call: every domain has arrived.  An evaluation may fail in *)
(* any domain; if not, the velocities found are those of the owner and of  *)
(* the primary ghosts of its nodes.  A secondary ghost keeps the velocity  *)
(* it came with, by which it has no error, but for rounding, and never     *)
(* turns back.                                                             *)
LocalError(failed, d) == failed[d]
GlobalMobilityError(failed, d) == \E e \in Domain : failed[e]

(* Nor has a frozen node, which does not move. *)
RKFErrors(d, seen) ==
  [n \in Node |-> IF n \notin Refreshed(d) \/ (flag[d][n] = 0 /\ group[d] # Highest)
                  THEN "fine" ELSE seen[n]]
Reversals(d, back) == [n \in Node |-> n \in Refreshed(d) /\ back[n]]

Reduce ==
  /\ \A d \in Domain : waiting[d]
  /\ waiting' = [d \in Domain |-> FALSE]
  /\ \E failed \in [Domain -> BOOLEAN] :
       /\ \A d \in Domain : failed[d] => pc[d] \in Evaluations
       /\ mobError' = [d \in Domain |-> GlobalMobilityError(failed, d)]
  /\ \E seen \in [Node -> {"fine", "error", "far"}] :
       /\ (\E n \in Node : seen[n] # "fine") =>
            \E d \in Domain : pc[d] = "stages" /\ ~mobError'[d]
       /\ verdict' = [d \in Domain |->
                        IF pc[d] = "errors" THEN verdict[d]
                        ELSE RKFErrors(d, seen)]
  /\ \E back \in [Node -> BOOLEAN] :
       /\ (\E n \in Node : back[n]) =>
            \E d \in Domain : pc[d] = "final" /\ ~mobError'[d] /\ nSub[d] > Patience
       /\ reversed' = [d \in Domain |-> Reversals(d, back)]
  /\ UNCHANGED <<pc, group, oldGroup, nSub, dt, iTry, stepVars, conf, base,
                 cache, pairGroup, flag>>
-----------------------------------------------------------------------------
(* AdaptiveRKFStep. *)

(* Cut the step and try again from the captured configuration. *)
NoCut(step) == step
Cut(step) == step \div 2
TryAgain(d) ==
  /\ iTry' = [iTry EXCEPT ![d] = Least(@ + 1, Tries)]
  /\ dt' = [dt EXCEPT ![d] = Cut(@)]
  /\ conf' = [conf EXCEPT ![d] = base[d]]
  /\ IF dt'[d] < 1
     THEN pc' = [pc EXCEPT ![d] = "fatal"] /\ UNCHANGED waiting
     ELSE Call(d, "base")

(* Move nodes by the velocities found so far. *)
MoveRKFNodes(d) == conf' = [conf EXCEPT ![d].trial = TRUE]

(* SaveCurrentGroupForce: at every try. *)
FirstTryOnly(d) == group[d] > 0 /\ iTry[d] = 0
SavesForce(d) == group[d] > 0
BaseEvaluated(d) ==
  /\ Returned(d, "base")
  /\ IF mobError[d]
     THEN TryAgain(d) /\ UNCHANGED cache
     ELSE /\ cache' = IF SavesForce(d)
                      THEN [cache EXCEPT ![d][group[d]] =
                              [pairs |-> PairsIn(group[d]), at |-> conf[d]]]
                      ELSE cache
          /\ MoveRKFNodes(d) /\ Call(d, "stages")
          /\ UNCHANGED <<dt, iTry>>
  /\ UNCHANGED <<group, oldGroup, nSub, stepVars, base, pairGroup, flag, seenVars>>

(* After the last stage: in the first tries of the highest group nodes     *)
(* with excessive error are flagged.                                       *)
StagesEvaluated(d) ==
  /\ Returned(d, "stages")
  /\ IF mobError[d]
     THEN TryAgain(d) /\ UNCHANGED flag
     ELSE /\ flag' = [flag EXCEPT ![d] = [n \in Node |->
                IF group[d] = Highest /\ iTry[d] < Tries /\ @[n] > 0
                THEN IF verdict[d][n] = "error" THEN 2 ELSE 1
                ELSE @[n]]]
          /\ Call(d, "errors")
          /\ UNCHANGED <<dt, iTry, conf>>
  /\ UNCHANGED <<group, oldGroup, nSub, stepVars, base, cache, pairGroup,
                 seenVars>>

(* ReduceRKFErrors: each domain adds the errors of its own nodes. *)
Converged(d) ==
  \A e \in Domain : \A n \in Node :
    NodeDomain[n] = e => verdict[e][n] = "fine"

(* MoveHighestGroupInteractions. *)
Moving(d) ==
  {p \in PairsIn(Highest) :
     /\ PairDomain[p] = d /\ Reach[p] <= iTry[d] + 1
     /\ \E n \in Ends[p] : flag[d][n] = 2}
ErrorsReduced(d) ==
  /\ Returned(d, "errors")
  /\ IF Converged(d)
     THEN /\ MoveRKFNodes(d) /\ Call(d, "final")
          /\ UNCHANGED <<dt, iTry, pairGroup>>
     ELSE /\ pairGroup' = IF group[d] = Highest /\ iTry[d] < Tries
                          THEN [p \in Pair |-> IF p \in Moving(d) THEN Lower
                                                        ELSE pairGroup[p]]
                          ELSE pairGroup
          /\ TryAgain(d)
  /\ UNCHANGED <<group, oldGroup, nSub, stepVars, base, cache, flag, seenVars>>

Proposal(d) == IF iTry[d] = 0 THEN Least(MaxDT, 2 * dt[d]) ELSE dt[d]
-----------------------------------------------------------------------------
(* The driver, SubcyclingIntegrator. *)

FinalRejected(d) ==
  /\ Returned(d, "final") /\ mobError[d]
  /\ TryAgain(d)
  /\ UNCHANGED <<group, oldGroup, nSub, stepVars, base, cache, pairGroup, flag,
                 seenVars>>

(* The accepted step of the highest group is the outer step.               *)
HighestAccepted(d) ==
  /\ Returned(d, "final") /\ ~mobError[d] /\ group[d] = Highest
  /\ realDT' = [realDT EXCEPT ![d][Highest] = dt[d]]
  /\ nextDT' = [nextDT EXCEPT ![d][Highest] = Proposal(d)]
  /\ conf' = [conf EXCEPT ![d] = base[d]]
  /\ Call(d, "counts")
  /\ UNCHANGED <<group, oldGroup, nSub, dt, iTry, subTime, base, cache, pairGroup,
                 flag, seenVars>>

(* Groups without pairs are at the end already.                            *)
PairsCounted(d) ==
  /\ Returned(d, "counts")
  /\ subTime' = [subTime EXCEPT ![d] = [g \in Group |->
       IF g \in 1 .. Lower /\ PairsIn(g) = {} THEN OuterDT(d) ELSE @[g]]]
  /\ pc' = [pc EXCEPT ![d] = "driver"]
  /\ UNCHANGED <<waiting, group, oldGroup, nSub, dt, iTry, nextDT, realDT, conf,
                 base, cache, pairGroup, flag, seenVars>>

Remaining(d, g) == OuterDT(d) - subTime[d][g]
Unclipped(d, g) == nextDT[d][g]
Attempt(d, g)   == Least(nextDT[d][g], Remaining(d, g))
TrialKept(d, g) == [conf[d] EXCEPT !.trial = g > 0]
AcceptedConf(d, g) == IF g = 0 THEN Physical(base[d].time + dt[d]) ELSE base[d]
CheckedNodes(d) == OwnNodes(d) \cup Primary[d] \cup Secondary[d]

(* A lower group's step is accepted.  Positions come back unless the group *)
(* is 0; nodes that reverse freeze (ForwardProgressCheck); a step that was *)
(* clipped to the end of the cycle does not lower the proposal.            *)
NeverKept(d, g) == FALSE
KeepsProposal(d, g) == Attempt(d, g) < nextDT[d][g] /\ dt[d] = Attempt(d, g)
GroupAccepted(d) ==
  LET g == group[d] IN
  /\ Returned(d, "final") /\ ~mobError[d] /\ g # Highest
  /\ realDT' = [realDT EXCEPT ![d][g] = dt[d]]
  /\ nextDT' = IF KeepsProposal(d, g) THEN nextDT
               ELSE [nextDT EXCEPT ![d][g] = Proposal(d)]
  /\ conf' = [conf EXCEPT ![d] = AcceptedConf(d, g)]
  /\ flag' = [flag EXCEPT ![d] = [n \in Node |->
                IF nSub[d] > Patience /\ n \in CheckedNodes(d) /\ reversed[d][n]
                THEN 0 ELSE @[n]]]
  /\ nSub' = [nSub EXCEPT ![d] = Least(@ + 1, Patience + 1)]
  /\ subTime' = [subTime EXCEPT ![d][g] = @ + dt[d]]
  /\ pc' = [pc EXCEPT ![d] = "driver"]
  /\ UNCHANGED <<waiting, group, oldGroup, dt, iTry, base, cache, pairGroup,
                 seenVars>>

(* The group furthest behind, the highest of several.                      *)
LaterOnTies(d, g) ==
  /\ \A h \in 0 .. Lower : subTime[d][g] <= subTime[d][h]
  /\ \A h \in 0 .. g - 1 : subTime[d][g] < subTime[d][h]
Behind(d, g) ==
  /\ \A h \in 0 .. Lower : subTime[d][g] <= subTime[d][h]
  /\ \A h \in g + 1 .. Lower : subTime[d][g] < subTime[d][h]
NeverReset(d, g) == FALSE
Resets(d, g) == g # oldGroup[d]
NextSubcycle(d) ==
  /\ pc[d] = "driver" /\ subTime[d][0] < OuterDT(d)
  /\ \E g \in 0 .. Lower :
       /\ Behind(d, g)
       /\ nSub' = [nSub EXCEPT ![d] = IF g # oldGroup[d] THEN 0 ELSE @]
       /\ flag' = [flag EXCEPT ![d] = IF Resets(d, g) THEN None ELSE @]
       /\ oldGroup' = [oldGroup EXCEPT ![d] = g]
       /\ group' = [group EXCEPT ![d] = g]
       /\ dt' = [dt EXCEPT ![d] = Attempt(d, g)]
  /\ base' = [base EXCEPT ![d] = conf[d]]
  /\ iTry' = [iTry EXCEPT ![d] = 0]
  /\ Call(d, "base")
  /\ UNCHANGED <<stepVars, conf, cache, pairGroup, seenVars>>

(* The partition ends, and forces and velocities are computed in full.     *)
FinishSubcycling(d) ==
  /\ pc[d] = "driver" /\ subTime[d][0] >= OuterDT(d)
  /\ Call(d, "full")
  /\ UNCHANGED <<group, oldGroup, nSub, dt, iTry, stepVars, conf, base, cache,
                 pairGroup, flag, seenVars>>

FullEvaluated(d) ==
  /\ Returned(d, "full")
  /\ pc' = [pc EXCEPT ![d] = IF mobError[d] THEN "fatal" ELSE "done"]
  /\ UNCHANGED <<waiting, group, oldGroup, nSub, dt, iTry, stepVars, conf,
                 base, cache, pairGroup, flag, seenVars>>
-----------------------------------------------------------------------------
DomainStep(d) ==
  \/ BaseEvaluated(d) \/ StagesEvaluated(d) \/ ErrorsReduced(d)
  \/ FinalRejected(d) \/ HighestAccepted(d) \/ GroupAccepted(d)
  \/ PairsCounted(d) \/ NextSubcycle(d) \/ FinishSubcycling(d) \/ FullEvaluated(d)

(* Fatal in one domain ends the others, wherever they are (MPI_Abort).     *)
Ended == \/ \A d \in Domain : pc[d] = "done"
         \/ \E d \in Domain : pc[d] = "fatal"
Next == \/ /\ \A d \in Domain : pc[d] # "fatal"
           /\ Reduce \/ \E d \in Domain : DomainStep(d)
        \/ Ended /\ UNCHANGED vars
Spec == Init /\ [][Next]_vars

(* Domains run, and a reduction in which all take part ends.               *)
Fairness == WF_vars(Reduce) /\ \A d \in Domain : WF_vars(DomainStep(d))
FairSpec == Spec /\ Fairness
-----------------------------------------------------------------------------
Configuration == [time : 0 .. MaxDT, trial : BOOLEAN]
TypeOK ==
  /\ pc \in [Domain ->
               Evaluations \cup {"errors", "counts", "driver", "done", "fatal"}]
  /\ waiting \in [Domain -> BOOLEAN]
  /\ group \in [Domain -> Group] /\ oldGroup \in [Domain -> 0 .. NumGroups]
  /\ nSub \in [Domain -> 0 .. Patience + 1] /\ iTry \in [Domain -> 0 .. Tries]
  /\ dt \in [Domain -> 0 .. MaxDT]
  /\ subTime \in [Domain -> [Group -> 0 .. MaxDT]]
  /\ nextDT \in [Domain -> [Group -> 1 .. MaxDT]]
  /\ realDT \in [Domain -> [Group -> 0 .. MaxDT]]
  /\ conf \in [Domain -> Configuration] /\ base \in [Domain -> Configuration]
  /\ cache \in [Domain -> [Group -> [pairs : SUBSET Pair, at : Configuration]]]
  /\ pairGroup \in [Pair -> Group]
  /\ flag \in [Domain -> [Node -> 0 .. 2]]

(* All domains take part in the same collective call, for the same group,  *)
(* with the same step: a schedule that differed would mix reductions.      *)
SameCollective ==
  (\A d \in Domain : waiting[d]) =>
    \A d, e \in Domain : /\ pc[d] = pc[e] /\ group[d] = group[e]
                         /\ dt[d] = dt[e] /\ subTime[d] = subTime[e]

(* The total force that moves the network holds every pair exactly once,   *)
(* live or from one cache, although pairs change their group between tries.*)
MovingNetwork(d) == /\ waiting[d] /\ group[d] = 0
                    /\ pc[d] \in {"base", "stages", "final"}
Holding(d, p) == {g \in 1 .. Highest : p \in cache[d][g].pairs}
                   \cup {g \in {0} : pairGroup[p] = 0}
PairsOnce ==
  \A d \in Domain : MovingNetwork(d) =>
    \A p \in Pair : Holding(d, p) = {pairGroup[p]}

(* A cached force is of a physical configuration, never of a trial one,    *)
(* and no older than the step for which its group was found to converge.   *)
CachesCurrent ==
  \A d \in Domain : MovingNetwork(d) => \A g \in 1 .. Highest :
    PairsIn(g) # {} =>
      LET at == cache[d][g].at IN
      /\ ~at.trial
      /\ at.time <= subTime[d][0] /\ subTime[d][0] < at.time + realDT[d][g]

(* Every try begins at the physical configuration, and the cycle moves the *)
(* network by exactly the outer step, whatever the virtual groups and the  *)
(* rejected tries have done to the positions.                              *)
NetworkAtSubTime ==
  \A d \in Domain :
    /\ waiting[d] /\ pc[d] = "base" => conf[d] = Physical(subTime[d][0])
    /\ pc[d] = "done" => conf[d] = Physical(OuterDT(d))

(* A node is frozen or flagged by its owner and by every domain of which   *)
(* it is a primary ghost, or by none: else these copies would move apart,  *)
(* and the domains would disagree on the pairs that are near.              *)
Knows(d, n) == NodeDomain[n] = d \/ n \in Primary[d]
FlagsAgree ==
  (\A d \in Domain : waiting[d]) =>
    \A d, e \in Domain : \A n \in Node :
      Knows(d, n) /\ Knows(e, n) => flag[d][n] = flag[e][n]

(* The comments go further: marked nodes are frozen, natives and ghosts    *)
(* alike (SubcyclingIntegrator.cc:331), and "each locally visible node" is *)
(* classified (:743).  Not so for secondary ghosts: by their old velocity  *)
(* they are never frozen and always fine.  No run checks it:               *)
AllGhostsFlagged ==
  (\A d \in Domain : waiting[d]) =>
    \A d \in Domain : \A n \in Secondary[d] : flag[d][n] = flag[NodeDomain[n]][n]

(* Nodes frozen in one group do not stay frozen in the next.               *)
FrozenInOneGroup ==
  \A d \in Domain : \A n \in Node :
    waiting[d] /\ flag[d][n] = 0 => group[d] = oldGroup[d] /\ nSub[d] > Patience

(* The domains take the same decisions, each from its own copies: they     *)
(* meet in the same reduction, and freeze and forget the same nodes among  *)
(* those whose velocities they share.                                      *)
DomainsAgree == SameCollective /\ FlagsAgree /\ FrozenInOneGroup

(* The force that moves the network is complete and not out of date.       *)
ForcesSound == PairsOnce /\ CachesCurrent

(* The proposal for a group is lowered only after a rejected try.          *)
Lowered(d, g) == nextDT'[d][g] < nextDT[d][g]
OnlyRejectionsLower ==
  [][\A d \in Domain : \A g \in Group :
       Lowered(d, g) => group[d] = g /\ iTry[d] > 0]_vars

(* Every cycle ends, accepted or with the message that the step has become *)
(* too short.                                                              *)
CycleEnds == <>Ended
=============================================================================
