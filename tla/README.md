# ParaDiS: a verification project

ParaDiS simulates the motion of a network of dislocation lines: nodes joined by
straight segments, each segment with a Burgers vector. The simulation box is
divided among MPI processes ("domains"). Every domain owns the nodes in its part
of the box (*native* nodes), keeps copies of the nodes next to it (*ghosts*),
moves the native nodes, changes the topology of the network, and keeps the
others informed. Inside a domain OpenMP threads share the data.

What the numbers mean (forces, mobility, energies) is outside this project. What
is inside is the part of the program whose correctness does not depend on the
numbers and is hard to test: who owns what, in which order messages and
operations arrive, which copy of the data is current, and which structure or
index is in use.

All paths below are relative to the root of the sources; `src/src/X.cc` is
written `X.cc`.

## Contents

1. The system: components, state, interactions
2. The modules and how they correspond to the code
3. Runs: what is checked, with which bounds, and why they are enough
4. Fairness
5. Proofs: what holds for every value of the constants, and why
6. Mutants
7. Where the code differs from what is said of it
8. What is only model-checked, what is not modelled
9. The plan

## 1. The system

### The timestep

`ParadisStep()` is one timestep of one domain. In order:

1. forces and velocities of the native nodes (`NodeForce`, `CalcNodeVelocities`,
   `CommSendVelocity`), and the time integrator (`TrapezoidIntegrator` or another),
   which repeats them until all domains accept a timestep;
2. `InitTopologyExemptions`, `ClearOpList`, then the first topological phase:
   multi-node splitting (`SplitMultiNodes`), cross slip, collisions
   (`HandleCollisions`); every operation that others must know of is appended to
   the operation list (`AddOp...`);
3. `CommSendRemesh` exchanges the lists with all neighbouring domains, `FixRemesh`
   replays those received, and double links that only now became visible are
   removed (`RemoveDoubleLinks`);
4. `Remesh`: `ClearOpList`, coarsening and refinement, a second exchange and
   replay, removal of double links and of orphaned nodes;
5. load balancing and output (`GenerateOutput`);
6. migration of the nodes that moved into another domain (`Migrate`), recycling of
   all ghosts (`RecycleGhostNodes`), sorting into cells, and a new set of ghosts
   (`CommSendGhosts`), which first compresses the table of local tags.

### Components

| Component | State | Operations | Interacts with | Hard because |
|---|---|---|---|---|
| Node structures (`QueueOps.cc`) | `freeNodeQ`, `ghostNodeQ`, `nativeNodeQ` with tail pointers, one shared `next` field; `ghostNodeList` | pop, push, block allocation, recycle | every creator of nodes; threads of the ghost unpack | intrusive lists, tail pointers that not every operation maintains, threads |
| Local tags (`Util.cc`, `CommSendGhosts.cc`) | `nodeKeys`, `newNodeKeyPtr`, heap of recycled tags, tag map | get, recycle, compress | every arm names its neighbour by tag | reuse of tags, loops bounded by `newNodeKeyPtr`, map applied by one lookup |
| Heap (`Heap.cc`) | array, size, count | add, remove, peek | local tags | growth and off-by-one |
| Segment ownership (`Util.cc`) | none: a function of class of operation, parity of the timestep and domain numbers | `DomainOwnsSeg` | all topological operations | it is the only protection against two domains changing one segment |
| Topological operations (`Topology.cc`, `Util.cc`, `RemoveNode.cc`, `ProximityCollision.cc`, `Remesh.cc`, `RemeshRule_2.cc`) | arms of native and ghost nodes, exemption flags, coarsen and refine lists, operation list | split, merge, arm changes, removals | other domains through the operation list | several domains work at once on overlapping copies |
| Exchange of operations (`CommSendRemesh.cc`, `RemoteOps.cc`, `FixRemesh.cc`) | `opListBuf`, receive buffers, MPI requests | send lengths, send lists, replay | neighbours | two rounds on the same MPI tags, buffer reuse, replay order |
| Migration (`Migrate.cc`) | lists of migrating nodes, buffers, `tagMap` | pack, collective count, exchange, unpack | all domains, then the neighbours | lengths from any source, freed tags reused at once, stale tags in arms |
| Tag remapping (`RemapInitialTags.cc`, `TagMap.cc`) | tag maps of a domain and its neighbours | exchange, lookup in every arm | migration, start-up | everybody waits for all neighbours |
| Ghost exchange (`CommSendGhosts.cc`, `CommSendSecondaryGhosts.cc`) | packed nodes, remote `nodeKeys`, cells | compress, pack, exchange, threaded unpack, reconcile keys | neighbours | threads, compression while others hold old tags |
| Parallel multi-node splitting (`SplitMultiNodesParallel.cc`, `SMN*.cc`) | partial forces from several domains, temporary ghosts | trial split and merge of ghosts | neighbours | temporary structures removed by position |
| Integrators (`TrapezoidIntegrator.cc`, `SubcyclingIntegrator.cc`, ...) | `deltaTT`, `nextDT`, old positions and velocities | advance, test, cut and retry, grow | all domains by reductions | retries from saved state, agreement on the step |
| Cells (`Cell*.cc`, `Sort*.cc`) | intrusive lists of the nodes of a cell | sort, add, remove | collisions, forces, ghosts | lists that outlive nodes |
| Decomposition (`RBDecomp.cc`, `RSDecomp.cc`) | bounds of every domain | rebalance, find domain | migration | bounds must tile the box |
| Output and restart (`GenerateOutput.cc`, `*Restart.cc`) | counters, I/O groups, restart sets, `latest_restart` | write in turn, read in blocks | all domains; later jobs | crashes between steps, turns handed on by one tag, other numbers of domains |
| Forces, mobility, FMM, inclusions, GPU | numerical | | | numerical |

`PROJECT.json` lists every component with its sources and whether it is modelled.

### Hazards

`PROJECT.json` lists, with the line where each bites, what in this code a test
hardly reaches. They fall into eight groups, and the properties follow them:

- *Structures and tags in two roles*: the queues share a link field and the tail
  pointers go stale; tags are recycled on three paths. (`RolesSound`,
  `GhostViewsAgree`, `TagsSound`, `TagsNeverReused`, `HeapRule`)
- *Two domains, one segment*: ownership, replay order, operations that are not
  sent, double and triple links, trial splits that must be undone. (`ViewsFit`,
  `BurgersConserved`, theorem `OneOwner`)
- *Threads on shared nodes*: decisions read outside a critical section, flags updated
  with and without atomics, locks taken two at a time. (`EntriesStand`, `ForcesMarked`,
  `RemeshEnds`)
- *Rounds that mix*: messages of two rounds on the same tags, receives from any
  source, buffers reused. (`IsRoundExchange`, `NodesArrive`, `InTurn`)
- *Names that are stale*: arms hold tags that have been freed, given away or
  compressed. (`TagsResolve`, `GhostsKnown`)
- *Everybody waits*: collective calls and waits for neighbours, whose number
  depends on decisions of each domain. (`MigrationEnds`, `ExchangeEnds`,
  `CycleEnds`, `StepEnds`, `OutputEnds`, `DomainsAgree`)
- *State kept from an earlier step*: cached forces, saved positions, frozen nodes,
  proposals for the next step, copies that each domain moves by itself.
  (`GhostsInStep`, `AcceptedAsJudged`, `ForcesSound`, `NetworkAtSubTime`,
  `DomainsAgree`, `OnlyRejectionsLower`)
- *Crashes*: a job stopped between two steps of writing, and the next one with
  other numbers of domains and files. (`LatestIsComplete`, `NetworkRead`)

Several of these properties are conjunctions of named parts, so that one run states
what belongs together: `RolesSound` is `OneRole` and `FreeNotInUse`; `TagsSound` is
`TagAccounting` and `TagMapIsOneStep`; `NodesArrive` is `NodesConserved`,
`NoCrossRound` and `LengthMatchesBuffer`; `TagsResolve` is `OldTagsUnique` and
`ArmsResolve`; `DomainsAgree` is `SameCollective`, `FlagsAgree` and
`FrozenInOneGroup`; `ForcesSound` is `PairsOnce` and `CachesCurrent`; `ViewsFit` is
`ViewSymmetric`, `LinkSymmetry` and `NoDoubleLinks`; `GhostsKnown` is `OneCopy`,
`ArmsResolve` and `NeverFatal`; `EntriesStand` is `CommittedIntact` and
`GlobalOpCurrent`.

## 2. The modules

```
                                                   SegOwnership  <-- ExchangeProofs
                                                      ^
  NodePool <-- NodePoolProofs                      Topology <-- TopologyMC
     |  (heap as a set)                               |
     v                                                | (lists delivered whole, round by round)
  TagHeap <-- refined by -- Heap                   RoundExchange <-- refined by -- Exchange <-- ExchangeProofs
                             <-- NodePoolProofs

  Migration (free index as in NodePool)            Subcycling <-- SubcyclingProofs
     <-- MigrationProofs                           Timestep <-- TimestepProofs
  GhostExchange (compression as in NodePool)       Restart <-- RestartProofs
     <-- GhostExchangeProofs
  RemeshThreads (one domain of Topology)
     <-- RemeshThreadsProofs
```

### NodePool: structures and tags of one domain

The three queues are modelled as the code has them, a head, a tail and a `next`
function over structures `1 .. nodeCount`, because the hazards are in the shared
link field; a sequence would hide them. The `PopFreeNodeQ` of the code is the
group `PopNode`, `PopNext`, `PopLast`, `PopCount`, used by every action that
allocates. One action per caller: reading (`UnpackInitialNode`), the
compression loop (one action per turn, `CompressSkip`, `CompressMove`,
`CompressEnd`), the unpacking threads, `GetNewNativeNode`, `GetNewGhostNode`,
`FreeNode`, the trial split of a ghost, `RecycleGhostNodes`. `phase` is the place
in the timestep. The threads are split where the order matters: a pop between
reading the head and unlinking it, a push between linking and publishing; each
critical section is a lock held by a thread over all its pops or pushes, as in
the code. `FREE_NODE_Q` and `GHOST_NODE_Q` are different locks: a pop of one
thread may fall into a push of another.

`nodeKeys` is the partial function from tags in use to structures. The heap of
recycled tags is the set of its members; that the array heap behaves like this
set is what Heap shows.

### Heap and TagHeap

`Heap` is the array with its allocated size and count. `HeapAdd` and
`HeapRemove` are actions, and so is each iteration of `BubbleUp` and `BubbleDown`
(`loop`, `at`). `TagHeap` is the abstract specification: a set from which the
least element is removed. The refinement mapping takes the set of valid entries.
Tags are distinct (a tag is recycled only while in use, `TagAccounting`), so
`HeapAdd` is applied to values not in the heap. The definitions of Heap have names of
their own (`HeapNext`, `HeapTypeOK`, ...), so that one module can speak of NodePool and
of the heap behind its tags.

### SegOwnership and Topology: several domains, one network

`SegOwnership` is `DomainOwnsSeg`, `OrderNodes` and `CollisionNodeOrder`.

In `Topology`, `view[d]` is what domain `d` knows: tags with their lists of arms.
An arm is a tag and a Burgers vector, the vector an integer. Native and ghost
nodes are distinguished by their tags. The elementary operations
(`ChangeConnection`, `ChangeArmBurg`, `InsertArm`, `RemoveNode`) are operators on
a view, with the linear search for the first matching arm that the code does;
`Apply` is the dispatch of `FixRemesh` on the type of an operation. The composed
operations (`SplitNode`, `MergeNode`, `RemoveDoubleLinks`) thread a record of
the domain's view, log and flags through the elementary ones in the order of the
code, so that what is logged is what was done. `fatal` is set where the code
calls `Fatal` (an unknown neighbour, the removal of a native node with arms).

The actions are the operations of a timestep: `SplitMultiNode`, `SegCollision`,
`HingeCollision`, then `CommSendRemesh` and `FixRemesh`, then `Coarsen` and
`Refine`, and the second exchange. Each has the guards of the code: ownership of
every arm that moves, the `NO_COLLISIONS` and `NO_MESH_COARSEN` flags
(`exempt`), the deletability of a node, the check for double links, the coarsen
list built before the merges (a node or neighbour of a committed coarsening is
not coarsened again), the refinement of segments with new ends excluded. Geometry
chooses freely which of the permitted operations happens, which contact point is
used, and whether a step that depends on distances goes on.

`SplitMultiNode` includes the trial splits of `SplitMultiNodes`: every set of arms
is split off, unknown to the other domains, merged back and the nodes restored; if
the merge is refused or removes the wrong node the domain aborts (`TrialFails`).

The domains interleave freely and meet only in the exchanges: `FixRemesh` waits
until every neighbour has sent its list of the same round. `RoundExchange` states
this form of delivery, and `Exchange` shows that the code provides it.

Choices that make the model allow more than the code: a node may be separated
twice in a phase; any three-arm node may contain a binary junction;
a segment may be refined from either end if that end has two arms, and otherwise
from its lower end; every pair of domains is a neighbour; domains replay
neighbours' lists in any order. Choices that make it allow less: nodes carry no
constraints (pinned, surface); segments made by the coarsening of this timestep
are not refined in it (`shortSegs`: their ends have obsolete forces or they are
no longer than `maxSeg`), and obsolete forces are not tracked further.

### Exchange and RoundExchange: CommSendRemesh

`Exchange` has both messages of an exchange. A domain posts receives for the
lengths and sends its length to every neighbour (`SendLengths`), waits for all
its receives and sends (`AllReceived`, `AllSent`), posts receives for the lists
and sends its list (`SendLists`), and waits again. Messages of one MPI tag
between two domains are a queue. The message to the first neighbour is sent from
`opListBuf` itself: while it is `live`, receiving it yields what the buffer holds
at that moment. MPI may buffer the messages of a domain at any time
(`BufferList`, domains in `Eager`), or never (the others): their sends
complete when they are received. `sent` and `got` are histories.

`RoundExchange` is the promise: the list that `d` replays for `e` in round `r` is
the list that `e` sent in round `r`. The refinement mapping is the identity on
`opList`, `sent`, `got`: `SendLengths` is the abstract `CommSendRemesh`,
`FixRemesh` is itself, and everything else is a stutter.

### Migration: Migrate and RemapInitialTags

`Node` is the set of physical nodes, and `Schedules` says where each is at every
migration, so that the decomposition and the motion are free subject to one
fact: connected nodes are in one domain or in neighbouring ones. A domain packs
migrating nodes with their arms and frees their tags, takes part in the
collective count of senders, exchanges lengths (received from any source) and
buffers, unpacks (new tags from the recycled ones, an entry in the tag map for
each), exchanges tag maps with its neighbours, and remaps the arms of its nodes.
`Migrators` is `migNodeList`, the indices of the nodes that go to a destination, which
are packed in ascending order. `pc` follows the waits of the code. Two migrations may overlap in time: nothing
but the messages keeps domains in step.

### Subcycling: the subcycling integrator

One outer cycle of `SubcyclingIntegrator` in drift mode, in every domain. An
action is what a domain does between two collective calls: after the evaluation
at the beginning of a try (`BaseEvaluated`), after the stages
(`StagesEvaluated`), after the reduction of the errors (`ErrorsReduced`), after
the evaluation at the new positions (`FinalRejected`, `HighestAccepted`,
`GroupAccepted`), and the driver (`PairsCounted`, `NextSubcycle`,
`FinishSubcycling`, `FullEvaluated`). `Reduce` is the collective call itself: it
needs all domains, and it is where mobility fails in some domain, the errors of
the nodes come out, and nodes turn back, all by free choice. The five stage
evaluations are one call, since each ends in the same way and the first failure
ends the try. A domain that called `Reduce` for something else than its neighbour would
be let through, as `MPI_Allreduce` would; that this never happens is the
property `SameCollective`.

Times are whole numbers of the least step, a cut halves and an increment doubles.
Positions are the physical time they belong to and whether they are those of a
trial; a cached force is the set of pairs it holds and the configuration it was
computed at. Nodes have owners, and a domain knows its primary and secondary ghosts
(`Primary`, `Secondary`, as in Timestep). Every domain finds errors and reversals, and sets
flags, from its own copies of the nodes (`CheckedNodes`); after an evaluation it has new
velocities of its own nodes and, from `CommSendVelocity`, of its primary ghosts
(`Refreshed`). A secondary ghost keeps the velocity it arrived with, so that its error is
zero but for rounding and it never turns back (`RKFErrors`, `Reversals`). The reduced
error is that of the owners' copies (`Converged`). A pair of segments is in one group, known
to its owner, and moves by the flags that its owner has.

### Timestep: the trapezoid integrator

Timesteps of `TrapezoidIntegrator` in every domain, from the evaluation in
`ParadisStep` to the exchange of new ghosts. `Evaluate` is `NodeForce` and
`CalcNodeVelocities` with the packing of `CommSendVelocity`; `Receive` is the wait and
the unpacking, and the errors of the natives. `Begin` is the entry of the
integrator, which advances all nodes; `Reduce` the reduction; `Iterate`,
`CutStep` and `Accept` are what each domain then does by itself: reposition and
try again, cut the step and advance again, or accept. `NextCycle` is the rest
of the timestep, after which every ghost is a fresh copy and some nodes are new
(no old velocity).

No domain tells another where it has moved a copy of a node to: copies agree
only if every domain moves them by the same velocities over the same step. So a velocity is
the number of the evaluation it comes from, and a position the two
velocities and the step it was computed from; equal positions are equal values.
A velocity received from a domain that is one evaluation ahead or behind
would be seen. Mobility and position errors come by free choice. Steps are
whole numbers of the least one; below it domain 0 aborts.

### GhostExchange: primary and secondary ghosts

All domains, from the sorting of nodes into cells to the return of `CommSendGhosts`.
`RemoteDomains`, `ExpCells` and `CellList` are the neighbourhood `InitRemoteDomains`
computes from the cells of the domains. `PackGhosts` compresses the indices
(`Moves`, `Retagged`, `Compressed`: the result of the loop that NodePool has turn by turn) and
packs, for each neighbour, the nodes of the cells it needs and the changes of tags;
`UnpackGhosts` enters the copies. `RequestSecondary` scans the arms of the ghosts
for nodes the domain does not know and asks for them; `ReduceDone` is the collective count,
`RecvRequest` a receive from any source, `ServeRequests` the answers,
`RecvResponse` the answers in the order in which they complete, `ReconcileKeys` the look-up of every
arm in the map of tags.

A structure is a record of its node, its arms and its kind; an arm is the tag
it holds, and `node` says which node is meant: the code has no such field, it is
what the tags are checked against. The status arrays of the code are modelled as
arrays (`StatusOfLengths`), since answers are sent to the source found in one of them.

### RemeshThreads: MeshCoarsen and MeshRefine with several threads

One domain with its threads. The lists of candidates, the parallel loops and their
barriers are phases (`ListCoarsen`, `CommitOrReject` to `ResetEnds`, `MarkEnds`,
`ListRefine`, `LockFirst` to `SplitAndUnlock`, `ResetForces`). An action of
a thread is what it does inside one critical section or lock, or one read of shared
data outside them: `ReadNeighbours` is the look-up and the decision `globalOp`,
`EnterMerge` and `LeaveMerge` the two ends of `CRIT_COARSEN_C`. Flags of a node are
one word, updated atomically in the loops but by a plain read and write in
`ChangeConnection` inside the critical section: `EnterMerge` keeps what was read and
`LeaveMerge` may write it back for any of the neighbours (`late`), so that updates in
between are lost. The network is a set of neighbours per node. The lock order is
the order in which a segment was listed. `MaxNode` bounds the tags; `SetupsAssumption`
says that a new node for every listed segment fits, since `GetFreeNodeTag` lets the
array of nodes grow.

### Restart: writing restart sets, crashing, starting again

All domains of a job, and the jobs one after the other with the files between them.
`DislocStep` is a cycle with its output, `Finish` the final one. In `DoParallelIO` a domain
waits for its turn in its I/O group (`TakeTurn`, one MPI tag for the tokens of all
types of output: `tokens[d]` is the number under way), and the first of the group
opens and writes the control file (`OpenCtrl`, `WriteCtrl`) and empties the data file
(`OpenData`), to which each then appends (`WriteType`). After the barrier the
first domain writes the name into `latest_restart` (`SetLatestRestart`, two steps, since the file is
empty in between). `Crash` is possible between any two steps. `StartAgain` is
the next job, started as the scripts in `tests/` do from the set named, with any numbers of
domains and groups of `Jobs`; `ReadBlock` is the reading of the data files block by block
by the reading tasks and the distribution of the nodes by the decomposition, `ReadDone` the
check of the count. A reader that finds a file missing or torn ends in
`phase = "fatal"`.

A set of files holds the cycle and counter in the control file, and one line (node,
cycle) per node in a data file, so that lines of two sets can be told apart. The
assumptions on the constants are named: every job has domains and I/O groups
(`JobsAssumption`), nodes have a domain in each of them (`NodesAssumption`), a restart set is
among the outputs (`OutputsAssumption`), and the bounds are numbers (`BoundsAssumption`).

## 3. Runs

`NodePoolMC`, `HeapMC`, `TopologyMC`, `ExchangeMC`, `MigrationMC`, `GhostExchangeMC`,
`RemeshThreadsMC`, `RestartMC`, `SubcyclingMC` and `TimestepMC` instantiate the
modules. Sizes are distinct states.

| Run | Configuration | Checks | States |
|---|---|---|---|
| `pool` | `NodePool.cfg` | `TypeOK`, `RolesSound`, `GhostViewsAgree`, `TagsSound`, `TagsNeverReused` | 2.3M |
| `heap` | `Heap.cfg` | `HeapTypeOK`, `HeapRule`, refinement `IsTagHeap` | 0.6M |
| `topology` | `Topology.cfg` | `TypeOK`, `ViewsFit`, `BurgersConserved` | 0.6M |
| `topology_triple` | `TopologyTriple.cfg` | `BurgersConserved` is violated | |
| `exchange` | `Exchange.cfg` | `TypeOK`, refinement `IsRoundExchange`, liveness `ExchangeEnds` | 0.2M |
| `migration` | `Migration.cfg` | `TypeOK`, `NodesArrive`, `TagsResolve`, liveness `MigrationEnds` | 67k |
| `ghosts` | `GhostExchange.cfg` | `TypeOK`, `GhostsKnown`, liveness `ExchangeEnds` | 44k |
| `remesh` | `RemeshThreads.cfg` | `TypeOK`, `EntriesStand`, `ForcesMarked`, liveness `RemeshEnds` | 0.1M |
| `refine_deadlock` | `RemeshDeadlock.cfg` | `RemeshEnds` is violated | |
| `restart` | `Restart.cfg` | `TypeOK`, `InTurn`, `NetworkRead`, action property `LatestIsComplete`, liveness `OutputEnds` | 0.2M |
| `subcycling` | `Subcycling.cfg` | `TypeOK`, `DomainsAgree`, `ForcesSound`, `NetworkAtSubTime`, `OnlyRejectionsLower`, liveness `CycleEnds` | 1.5M |
| `timestep` | `Timestep.cfg` | `TypeOK`, `GhostsInStep`, `AcceptedAsJudged`, liveness `StepEnds` | 73k |

**pool.** Blocks of two structures (so that blocks end, and a queue of one
element exists), two threads importing up to two ghosts each, four structures,
three tags, a restart file that uses tags 0 and 2 (so that the heap is not empty
at the start). The bounds `MaxNodes` and `MaxTags` are a state constraint: the
behaviours run over as many timesteps as fit into them, and since structures and
tags are recycled this is unbounded; every property is violated by its mutant
well within them. The threads are interchangeable, hence the symmetry.
`RolesSound` and `GhostViewsAgree` need interleaved threads to fail; that nothing on
the free queue is in use needs a stale tail pointer, i.e. several timesteps.

**heap.** Six tags in every order of additions and removals; the array grows at
2, 4 and 6 entries, and the heap has three levels, so both children, one
child and no child occur at every level. (With seven tags, 10.7M states, the
result is the same.)

**topology.** The constant `Setups` lists the networks to start from, each with its
domains, the parity of its timestep, the kinds of operation and how many of them a domain may do
before the exchange; the run has four families. A loop of four nodes, two in each of two
domains, with two operations of every kind: two suffice for one domain to work on what its first
operation left behind while the other does the same at the other end of the same
segments. A node with four arms, for either parity, where
separation has several ways and merges produce double links. A loop of seven nodes, five of them
in one domain, with three operations
before the exchange, so that coarsenings that nobody is told of come before and
after others on the same nodes. Two arrangements of a loop of five over three
domains, where a domain replays two lists in either order. The loop of four has
an even timestep only: the mirror image that exchanges the domains turns
an odd timestep into an even one up to the order of indices. Larger instances of
the same modules (both loops of three domains with two operations for either
parity, 1.1M to 2.6M states each) also pass.

**exchange.** Three domains in a row and three rounds, so that the outer domains
can be two rounds apart, with lists of no or one operation; the last list of a
round and the first of the next are both under way. Two of the domains have their messages buffered, the third has
not, so that both ways of sending meet. (All other choices of `Eager`, and three
domains that are all neighbours of each other, give the same result.)

**migration.** Three domains in a row, a chain of three nodes, three placements to
start from, any placement with connected neighbours next, and two placements
after that: nodes swap, pass a domain, meet in one, or stay, and the second
migration may begin in one domain while the first is not finished in another.

**ghosts.** Four domains on a ring of five cells, one of them shared by two domains. A
chain of nodes runs round the ring and one node hangs on it, so that a domain has
primary ghosts on both sides, a secondary ghost that two domains know, and
one that only a domain it is not adjacent to owns. The indices have holes below none, one or both
nodes of a domain, so that tags change, are reused by another node of the same
domain, or stay.

**remesh.** Two threads and four networks: a line between two ghosts with a corner,
where the merge of the corner removes a neighbour; two triangles at a square, that
collapse into double links and nodes without arms; a junction between a ghost and a
pinned node; a closed loop. Every choice of the listed nodes and segments. With two
threads the locks of the loop cannot be taken in a cycle of three, and the run shows
that everything else ends; `refine_deadlock` has the loop alone and three threads.

**restart.** Jobs of two domains with one group, and of three with two groups of unequal
size or three; three nodes, so that one domain of three has none and one
segment has no nodes; reading in blocks of one node; two cycles over all jobs and
two starts, so that a set is written over by a later job with other groups, and the
second start reads what a stopped job has left. A set and another type of output
are written at each output, so that tokens for different types can be under way
together. A system that is stopped with no starts left stays so:
`CHECK_DEADLOCK FALSE`.

**subcycling.** Two domains with a pair each. The node of the first is a primary ghost of the
second; of the two nodes of the second one is a primary and the other a secondary ghost
of the first. One pair has nodes of both domains, the secondary ghost among them. Three
groups, so that there are two virtual ones and a choice between groups that are
behind; any initial grouping of the pairs, so that groups may be empty; steps up
to 8, so that a group takes up to eight steps, and proposals of the least and
the longest step; two tries may move pairs, one pair at the first and one at the
second; nodes freeze from the third step of a group on, so that a frozen node can
outlive its group. Any evaluation may fail, and any node may have an error or turn back.
`DomainsAgree` is violated when primary ghosts get no new velocities, as well as when they
are not looked at.

**timestep.** Three domains in a row with a node each: the node of a neighbour is a primary
ghost, that of the far domain a secondary one, and the domain in the middle may lag behind
either. Two iterations for each step, so that there is a first, a later and a
last one; steps up to 4, so that a step is cut three times at most, and
proposals of none, 2 and 8 (limited to 4). The steps 4, 2 and 1 take six evaluations
at most, and the seventh (`MaxRounds`) is reached only by a domain that does not
yet know that domain 0 has given up. The number of timesteps is not bounded.

Deadlock is checked in every run but `restart` and `refine_deadlock`, which states its
property instead: a system that has finished stutters explicitly.

## 4. Fairness

`exchange` and `migration` assume weak fairness of the steps of every domain (one
condition for each), and of the delivery of a message for which a receive is
posted: a process that is not waiting continues, and the progress rule of MPI
promises that a send and a matching posted receive complete. No fairness is
assumed of the buffering of messages or of the choice among messages, and the
sends of a domain that is not in `Eager` complete only when they are
received, so nothing depends on buffer space. `subcycling` assumes weak fairness
of the steps of every domain and of `Reduce`: a collective call in which all take part
ends. `timestep` assumes the same, and no fairness of the rest of the timestep.
`ghosts` assumes weak fairness of every domain, each of whose steps is enabled only when the
messages it waits for are there. `remesh` assumes weak fairness of every thread and of the
master's phases: a thread that waits for a lock or a critical section that stays free
gets it. `restart` assumes weak fairness of the domains' reading and writing together, and none of
cycles, crashes or starts.
All other properties are safety properties and use no fairness.

## 5. Proofs

Eight modules hold theorems, checked by TLAPS without assumptions other than the
named assumptions on the constants. Each has an inductive invariant, checked by TLC on
the instance of the run before it was proved, one lemma per action, and the properties
as consequences.

**NodePoolProofs** (`BlockCount` any positive number, any sets of threads, tags and
initial tags). Types of the queues and arrays (`QueueInv`, `PoolInv`) and
`TagInv`, the accounting of tags, are each inductive. `TagInv` strengthens
`TagAccounting` by what the compression loop has already passed: above the loop
index nothing is in use, targets of moves are below it, old tags above it. From
it: `TagsAccountedFor`, `TagMapNeedsOneLookup`, `LiveTagsKept` (an action
property), `PoolTyped`, and `TagsAreSound`, the property of the run.

Its second part is about the roles of structures, with threads interleaved. The hidden
difficulty is that the tail of the free queue may point anywhere
(section 7), so "the free queue is a list that ends" is not inductive in terms
of the pointers. The invariant `RoleInv` says instead that there is *some* set of
free structures, closed under `next` and ranked by a hidden order (`Ranked`), that
is disjoint from what is in use, and that the ghost queue is the ghost array read
backwards; `LockInv` says what a thread in a critical section has already done.
A recycling through a stale tail shortens the queue, which `Ranked` survives
because a write there only changes `next` of structures outside the set or cuts
the set. From it: `NodesHaveOneRole`, `FreeQueueNotInUse`,
`GhostViewsAlwaysAgree`, and `RolesAreSound`, the property of the run.

Its third part is about the array heap behind the recycled tags (any numbers, any
length of the array and increment): `HeapTyped`, `HeapRuleKept` and `HeapImplementsSet`, the refinement of TagHeap, whatever the number of
iterations of the two loops. The heap rule is inductive as the run checks it: at the place a
loop works on it says nothing, but relates the children of that place to its parent. An
iteration exchanges two entries (`Swapped`) and ends where no rule is broken any more. That
the root is then the least entry is an induction over the array, done by its least
counterexample (`LeastNumber`): the first entry smaller than the root would have a parent that
is smaller too.

**ExchangeProofs** (any number of domains, any symmetric neighbourhood, any number of
rounds and operations, buffered or not): `ExchangeTyped`, `ListsFit`, and
`RoundsAreDelivered`, the refinement. The invariant counts, for receiver `d` and
sender `e`, what `d` has read (`LengthsRead`, `ListsRead`) and what `e` has
sent (`Started`, `ListsSent`), and says that each queue holds exactly the part of
`e`'s history in between, in order, and that only the newest list can still be in
the buffer it is sent from, and only while `e` is waiting for it. The property
that a neighbour is never more than one round ahead is not assumed; it follows
from the counts. There is one lemma per action.

Its last part is about what the lists may hold, the laws of SegOwnership that Topology
relies on: `OneOwner`, of the two domains of a crossing segment exactly
one owns it, in every class and timestep; `OwnershipAlternates`;
`RemeshOpposesCollision`; `CollisionOrderTotal` and `CollisionOwnerComesFirst`, which
make a pair of segments collide from one side only.

**MigrationProofs** (any finite sets of domains and nodes, any links, any sequence of
placements with linked nodes in neighbouring domains, any number of migrations, buffered
or synchronous sends): `MigrationTyped`, `NodesArriveOnce`, `ArmsLeadHome`. The invariant
`MigrationInv` says that there is a *move* under way, with a round, the placements it leads
from and to, and the tags the nodes had when it began, and that every domain is at some
stage of that move or waits in the reduction of the next one. Everything else is said
relative to the move and the stages: which nodes a domain has and under which tags
(`KeysAt`), what is in each buffer (`Carries`) and slot (`RecvLenAt`, `RecvBufAt`), what is
in each channel, at most one message and that exactly while it is due (`LengthAt`,
`BufferAt`, `MapAt`), which domain may be ahead of which (`InStep`), what a map has to
contain (`Covers`), that it leads from old tags to the places where the nodes are
(`Sound`), and which tag an arm holds (`ArmsFit`). The old tags are those of the move and
not of the present, so a tag that was freed and given again is no difficulty. When the
reduction completes in one domain, all wait in it, nothing is under way, and the next move
begins (`TurnOver`), with the tags the nodes have then. That the collective count is the
number of lengths a domain will receive makes every slot's source known when the buffers
are received (`AllLengthsIn`, by counting). There is one lemma per action; `StepKeepsInv` carries
the rest of the invariant over a step of one domain.

**SubcyclingProofs** (any number of domains, nodes and pairs, up to the five groups of the
code, any steps and tries): `NetworkMovesByOuterStep`, `SubcyclingTyped`,
`FrozenNodesOfOneGroup`, `ProposalsKept`, `ForcesComplete`, `DomainsTakeSameDecisions`. The invariant `SubcyclingInv` is a
conjunction over the domains of what holds of one domain's own state. It has to
say more than the theorems: in a try the step fits into what is left of the cycle
(`StepsInv`), which needs that the group chosen is behind group 0; the positions captured
by a try are physical and those of a first evaluation are the captured ones
(`PlacesInv`); the step of a first try is the proposal or its clipped form, without
which nothing could be said about lowering it. There is one lemma per action;
`Frame` and `OthersStay` carry the invariant over to the other domains. `ForcesComplete`
adds what the caches hold: the pairs of their group, and the configuration they were
computed at. `DomainsTakeSameDecisions` relates domains: one that has returned from a
collective call and not yet decided, and one that has, differ by just that decision, so
what is invariant is that of two domains one is ahead by at most two decisions (`InStep`);
so those that wait are in the same call. What a domain decides on a node depends on the
velocity it has of it, so this is stated of the state of a domain together with its flags of
a set of nodes, for every set and the domains that have the velocities of all of it
anew (`Refreshing`). The empty set gives the schedule, for all domains; a set of one node gives
its flag, for the owner and the domains of which it is a primary ghost. Of secondary
ghosts nothing is said: section 7.

**TimestepProofs** (any domains, nodes and ghosts, any steps and number of iterations):
`CopiesInStep`, `StepJudgedByAll`, `TimestepTyped`. Domains decide one after the
other, so that their variables differ for a while, and no equality between them is
inductive. What is equal at all times is a *view* of a domain: the evaluation, step,
iteration and proposal it will have when it has decided, or has already
(`Level`, `StepView`, `IterView`, `IncrView`, `NextView`). A step of one domain
leaves its own view alone (`DomainStepKeeps`, one lemma per action), and
`Reduce` changes all views alike. `LocalInv` says how a position
follows from these variables, and `PairInv` that what is accepted is equal; the
two properties are consequences (`InStep`, `Judged`).

**RestartProofs** (any number of jobs, domains, I/O groups, nodes, starts and cycles, any
block size and types of output): `RestartTyped`, `WritersTakeTurns`,
`NamedSetsAreSaved`, `NetworkIsRead`. The first of three invariants (`IInv`) counts tokens:
one tag serves all types of output, and a domain has been sent one token for each type its
predecessor in the group has written; so no two domains of a group are ever writing, although
which type a token is for is nowhere said. The second (`SInv`) says what the files of a set hold at
each point of an output, the lines of exactly the domains that have written, from the
first byte to the name in `latest_restart`; a later output never has the number of a set that
is named, because the counter is read back from that set. The third (`ReadInv`) says of every
line of the set that is being read that it is in the memory of a domain or still to come,
however the files and blocks fall to the readers, so the count agrees at the end.

**RemeshThreadsProofs** (any set of threads, any network and choice of what may be listed):
`RemeshTyped`, `CommittedEntriesStand`, `NewLinksMarked`. That committed entries are
disjoint is not enough, since a merge changes arms of the neighbours of its three nodes,
which may belong to another entry. The invariant `EntryInv` says that an entry not tried yet
that shares no node with a committed one is *as it was listed*: it survives because
`MergeNode` changes the arms of a node outside only by putting one local node for another
(`MergedNet`, `OtherEntry`), which is also why a `globalOp` decided outside the critical
section stays right. `ForceInv` names for each new link the entry that is its cause, and
says that a mark which the second loop will not repeat is set in the flags and in every
copy of them that may be written back. `RoomInv` counts nodes and segments still to
be split: there always is a free tag for `SplitNode`.

**GhostExchangeProofs** (any finite sets of domains and nodes, any cells, segments and
local indices): `AlwaysExchangeInv`, `GhostsTyped`, `GhostsAreKnown`. Every node has a tag
from before its owner's compression, `Old`, and one from after it, `New`, and both are fixed
when the exchange begins: `New` is computed from the indices the owner starts with
(`MovesOf`), whether or not the owner has compressed yet. The invariant (`ExchangeInv`)
says that there are such indices and that everything is said with them: which nodes a
domain holds at each place of the exchange (`HeldInv`: its own; then those of the
cells around it; then what has been answered), that it holds them under their new
tags and with old tags in their arms, and new ones after the look-up (`KeysInv`), that its map
of tags has exactly the retagged ones among them, what it asks for (`AskedInv`), and
what is in each message from the time it is sent until it is taken out (`GhostBufInv`,
`RequestInv`, `ResponseInv`). Two facts carry the argument. No new tag is the old tag of another
node (`Moves` takes the highest indices to the lowest free ones, and never back up),
so a look-up of an old tag among copies under new tags finds the node meant or nothing,
and looking it up a second time through the map is safe. And the far end of an arm of a
ghost is in a cell around the ghost's, and so known to the ghost's owner: no
request fails. That answers arrive in any order, several of them with the same node, and some after it is
known, needs no case of its own: `AlreadyKnown` is exactly `Held`. The lemmas on `Moves`
(the moved indices listed in order, the size of what is left) rest on counting in
finite sets, hence `FiniteAssumption`. There is one lemma per action; `OthersStay` carries
the invariant over to the other domains.

Out of reach of the proof system is liveness (`MigrationEnds`, `ExchangeEnds`,
`CycleEnds`, `StepEnds`, `RemeshEnds`, `OutputEnds`), which needs `ENABLED`. Induction over
data (the entries of a heap, the files of a set, the free tags) is done by a least
counterexample, as for the heap.

## 6. Mutants

Each module defines, before the operator it replaces, a few plausible bugs used
only to show that the properties fail when the code is wrong:

| Mutant | of | the bug |
|---|---|---|
| `PopLastPastEnd` | `PopLast` | tail of a new block off by one |
| `HeapUnchanged` | `HeapAfterTag` | recycled tag stays on the heap |
| `KeyPtrOfNewTag` | `KeyPtrAfterTag` | recycled tags above `newNodeKeyPtr` do not raise it |
| `KeysStale` | `KeysWithout` | `FreeNode` leaves the entry |
| `AnyFreeTag` | `CanMove` | compression moves nodes up |
| `NoCritical` | either lock | critical section missing |
| `GrowWhenOver` | `MustGrow` | heap grows one entry late |
| `EntryAfterLast`, `FirstKept` | `Root`, `LastEntry` | wrong entry returned or moved |
| `AboveIsLargerInner` | `AboveIsLarger` | root left out of the comparison |
| `LeftChild` | `SmallerChild` | smaller child not chosen |
| `ZeroArmKept` | `ChangeArmBurg` | arms with no Burgers vector stay |
| `FirstKept` | `OthersRemoved` | the other arms of a double link stay |
| `BurgOfFirst` | `BurgSum` | double link keeps one vector |
| `SplitLinkUnsigned` | `SplitLinkBack` | same sign at both ends |
| `AnyDeletable` | `Deletable` | ownership of arms not checked |
| `NoDoubleLinkCheck` | `MayDoubleLink` | merge that leaves a foreign double link |
| `BothRemote` | `IsGlobal` | neighbours' arms not considered |
| `OpsReversed` | `InOrder` | list replayed backwards |
| `EndsOwn` | `DomainOwnsSeg` | each domain owns the segments of its nodes |
| `NoWait` | `AllSent` | no wait for the sends |
| `OneReceived` | `AllReceived` | wait for one receive instead of all |
| `IfAny` | `Dests` | empty lists not sent |
| `ReduceOfNeighbours` | `ReduceDone` | senders counted over the neighbours only |
| `IndexAtEnd` | `FreeIndex` | recycled tags not used again |
| `KeysNotFreed` | `KeysKept` | tags of packed nodes not freed |
| `OldTagOfSlot` | `OldTag` | slot number taken for the old tag |
| `Chase` | `NewArmTag` | tag map followed twice |
| `SourceInOrder` | `SourceOfSlot` | slot order instead of the status of the receive |
| `LocalError` | `GlobalMobilityError` | a domain goes by its own mobility error |
| `FirstTryOnly` | `SavesForce` | force cached at the first try only, pairs that move later are counted twice |
| `Unclipped` | `Attempt` | step not clipped to the end of the cycle |
| `LaterOnTies` | `Behind` | group 0 first on ties |
| `TrialKept` | `AcceptedConf` | positions of virtual steps kept |
| `OwnNodes` | `CheckedNodes` | reversal tested for native nodes only |
| `OwnNodes` | `Refreshed` | primary ghosts are sent no velocities |
| `NeverReset` | `Resets` | flags kept when the group changes |
| `NeverKept` | `KeepsProposal` | clipped step becomes the proposal |
| `NoCut` | `Cut` | rejected step tried again unchanged |
| `MapsToMigrationPartners` | `MapDests` | maps sent to the partners of the migration only |
| `Unlimited` | `Suggested` | proposal not limited by `maxDT` |
| `NativesOnly` | `Repositioned` | ghosts not repositioned |
| `StepNotSet` | `StepToTry` | `deltaTT` not set when the step is cut |
| `OwnError` | `Contributes` | a domain goes by its own errors |
| `NeverTooSmall` | `TooSmall` | no end to the cuts |
| `UndoneAsRemesh` | `Undone` | trial split undone under another class of ownership |
| `MovesUpToo` | `MoveCount` | compression moves nodes to higher indices too |
| `SkipByTagOnly` | `AlreadyKnown` | an answer is compared by its old tag only |
| `NativesOnly` | `ToReconcile` | arms of ghosts not looked up |
| `StatusOfRequests` | `StatusOfLengths` | source of an answer taken from the other status array |
| `RequestsOfNeighbours` | `NumRecvReqBufs` | requests counted over the neighbours |
| `OneWay` | `Relinked` | neighbours of a double link keep one end |
| `NodesOnly` | `ProceedWithCoarsen` | only the node itself compared with committed entries |
| `EndsOnly` | `AndNeighbours` | neighbours of the ends not marked |
| `NbrsGoneAgain` | `EndsOf` | a removed neighbour not replaced by the merged node |
| `BothDirections` | `ListedOnce` | a segment listed from both ends |
| `SendsToAll` | `SendsToken` | token sent past the end of the group |
| `TokenOnce`, `AfterAnyDomain` | `NeedsToken` | token waited for at the first type only; first of a group waits too |
| `WholeShares` | `SegsPerReader` | share of the segments rounded down |
| `CountersFromZero` | `SavedCounter` | counter not read back |
| `NoBarrier` | `AllAtBarrier` | set named before all have written |

## 7. Where the code differs from what is said of it

With a run:

- **Three parallel links** (`topology_triple`). Three domains may each remove
  their node between the same two nodes in one exchange. `RemoveDoubleLinks` adds
  two of the three Burgers vectors and drops the third link. The check for
  conservation runs before this clean-up.
- **Locks in a cycle** (`refine_deadlock`). `MeshRefine` locks the two nodes of a
  segment in the order in which the segment was listed. Nodes with two arms list their
  own segments, so those of a closed loop of three can be listed as (a,b), (b,c),
  (c,a), and three threads with one lock each wait for each other, contrary to
  the comment at the loop. A loop of two threads' segments needs the same segment
  twice, which the list excludes.

Shown by TLC without a run of their own; the definitions are in the modules, and adding
them to the configuration named reproduces the behaviour:

- **Ghosts lost by a stale tail** (`RecycleReturnsAllGhosts`, `NodePool.cfg` without
  its symmetry). `RecycleGhostNodes` links the
  ghost queue behind `lastFreeNode`, but a free queue that was emptied by pops and
  refilled by `FreeNode` has a tail that is in use. The ghosts of that timestep
  leave the queue for ever (the memory is not reused), contrary to the comment at
  the function. `RolesSound` and the proofs show that it goes no further: no
  structure in use is ever handed out.
- **Empty slots after compression** (`NoEmptySlots`, `NodePool.cfg`). Slots that are
  empty at the end of `nodeKeys` when `CompressNodeKeyArray` starts are skipped without
  lowering `newNodeKeyPtr`, contrary to its comment. Loops test for null
  entries, so this costs time only.
- **Growth after a cut** (`GrowsAfterFirstIteration`, `Timestep.cfg`). A step is to grow
  only if the very first iteration converged. An error of the mobility function leaves
  the iterations without clearing `incrDelta`; the step is cut, and if the shorter one
  converges, the next step is proposed longer again.
- **Secondary ghosts are moved by old velocities** (`AllGhostsInStep`, `Timestep.cfg`).
  `TrapezoidIntegrator` advances all ghosts, and says that their velocities have been
  distributed. `CommSendVelocity` sends those of primary ghosts only; a secondary
  ghost is moved by the velocity it arrived with, until the next exchange.
- **Secondary ghosts are never frozen or flagged** (`AllGhostsFlagged`, `Subcycling.cfg`).
  `ForwardProgressCheck` and the node flags of `AdaptiveRKFStep` go over all ghosts, and the
  comments speak of natives and ghosts alike (`SubcyclingIntegrator.cc:331`, `:743`). By its
  old velocity a secondary ghost does not turn back and has no error, whatever its owner finds: it
  goes on moving when the owner has frozen the node, and a pair is not moved to the lower
  group if only its secondary ghosts have excessive errors.
  `DomainsAgree` is therefore about natives and primary ghosts.

Exceptions written into properties:

- `LatestIsComplete` says of every name that its set was saved whole when the name was
  written, and of numbered sets that they then stay as they are. The final output of a job overwrites
  `restart.cn` while `latest_restart` may still name the one of the job before: a crash
  in between leaves a torn set, or new parameters with old data, under the name.
- `NetworkRead` excepts a set whose segments are hidden (`Stale`): `ReadNodeDataFile`
  opens the name without a segment number first (`ReadRestart.cc:525`), so a `.data`
  file left by an earlier job with one I/O group is read in place of the
  segments `.data.0`, ... of the same name.
- `ForcesMarked` excepts the outer neighbours of a corner whose merge has removed both
  neighbours of another entry: that entry is skipped by the loop that marks forces, and only the corner is
  marked.

Seen in reading only: `Remesh.cc:925` says that no other thread can change the nodes
of an entry outside the section, but a corner's merge may remove a neighbour whose
other neighbour belongs to another committed entry (`EntriesStand` shows that what was read
still stands). `WriteData` says it aborts without writing the restart file when a
free node has one arm, but has emptied the file by then. `GenerateOutput` replaces
`disloDensity` by its sum over the domains and does so again at the final output, so that
an output in the last cycle makes `restart.cn` hold the sum times the number of
domains. `GetFreeNodeTag` may move the `nodeKeys` array in `MeshRefine` while other
threads look nodes up in it.

## 8. Limits

Only model-checked: the liveness properties of all modules, and everything about Topology
(but for the laws of ownership), whose three invariants are not proved. They are about networks that
several domains change at a time and replay from lists of operations: that a list applied to
another domain's view leaves it of the right type already needs that what
two domains do at a time never conflicts, which depends on the exemptions, the ownership of
segments and the order of the stages together, and the replay itself is a fold over the lists,
about which only induction over data would say anything. The topological properties are about the arms and Burgers
vectors of a few nodes in up to four domains; they do not depend on geometry,
because geometry only restricts which operations happen.

Not modelled: numerical code (forces, mobility, FMM, inclusions, GPU), cross slip,
splitting of special junctions, surfaces, plots and tools; and, for now, the parts
in the plan below. `PROJECT.json` gives the reason for each component. The
abstractions inside the modelled parts are listed in section 2.

Memory exhaustion and failures of MPI are not handled by the code: they end the run, as
does a crash of any process. What such an end leaves in the files, and how the next job
goes on from there, is the subject of Restart; no state but the files survives, so the other
modules need no crash. Not in Restart: binary restart files, the SCR library, the assignment
of new tags on reading, and files that are torn by the file system rather than by
an open that emptied them.

## 9. The plan

Done, in this order: NodePool with its proofs; Heap and TagHeap; Migration;
SegOwnership with its laws, and Topology; Exchange with its proofs; Subcycling with
proofs of what concerns one domain; Timestep with its proofs; GhostExchange;
RemeshThreads; Restart; the trial splits in Topology. Then the proofs of
Heap, of Subcycling's domains and caches, of Restart, of RemeshThreads, of
Migration and of GhostExchange.

What could be proved next is symmetry of the elementary operations of Topology (an operation
applied to a symmetric view leaves it symmetric), and with it what one domain's
operations between two exchanges keep.

Components that could follow: the intrusive lists of cells; the bounds of the recursive
bisection, which Migration assumes in `Schedules`; the parallel version of the
multi-node splits with its partial forces.
