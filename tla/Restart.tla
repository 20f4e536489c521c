------------------------------- MODULE Restart -------------------------------
(***************************************************************************)
(* Writing restart sets, crashing, and starting again from the set named   *)
(* by latest_restart: GenerateOutput and DoParallelIO of GenerateOutput.cc,*)
(* WriteRestart.cc, ReadNodeDataFile of ReadRestart.cc and the loop of     *)
(* ParaDiS.cc around them, all domains together.                           *)
(*                                                                         *)
(* A set is a control file and the nodal data, one data file per I/O group.*)
(* The domains of a group append to their file in turn, handed on by the   *)
(* write token; the files of other types of output follow under the same   *)
(* token.  A crash stops all domains between any two steps and leaves the  *)
(* files as they are.  The user then starts the job named by               *)
(* latest_restart again (the scripts in tests/ do), maybe with other       *)
(* numbers of domains and of I/O groups; nothing else touches the files.   *)
(*                                                                         *)
(* Of a node its identity and the cycle it was written in are kept.  An    *)
(* open with mode "w" empties the file, and what is written reaches it     *)
(* when it is closed: part of it may in fact get there sooner, the file is *)
(* as incomplete either way.  Text restart files only; no SCR.             *)
(*                                                                         *)
(* Mutants (see the README): TokenOnce, AfterAnyDomain, SendsToAll,        *)
(* CountersFromZero, WholeShares, NoBarrier.                               *)
(***************************************************************************)
EXTENDS Integers, Sequences, FiniteSets, SequencesExt

CONSTANTS Node,
          Jobs,        \* [domains, groups]: tasks and numIOGroups of a job
          Placements,  \* where a decomposition puts the nodes, before the
                       \* number of domains is taken into account
          Networks,    \* [nodes, place]: what a step may leave
          Outputs,     \* the types of output of a call, in order
          BlockSize,   \* MAX_NODES_PER_BLOCK
          MaxCycle,    \* bound: cycles over all jobs
          MaxStarts    \* bound: starts of the program

ASSUME JobsAssumption ==
  /\ Jobs \subseteq [domains : Nat \ {0}, groups : Nat \ {0}]
  /\ \A j \in Jobs : j.groups <= j.domains
  /\ \E j \in Jobs : \A k \in Jobs : k.domains <= j.domains

ASSUME NodesAssumption ==
  /\ IsFiniteSet(Node)
  /\ \A w \in Networks : w.nodes \subseteq Node /\ w.place \in [Node -> Nat]
  /\ \A p \in Placements : p \in [Node -> Nat]

ASSUME OutputsAssumption ==   \* DoParallelIO has restart sets first
  \A o \in Outputs : /\ o \in Seq(STRING)
                     /\ \A i \in DOMAIN o : (o[i] = "restart") => i = 1

ASSUME BoundsAssumption ==
  BlockSize \in Nat \ {0} /\ MaxCycle \in Nat /\ MaxStarts \in Nat \ {0}

Number == 1 .. MaxCycle     \* rs0001, rs0002, ...
Final  == 0                 \* restart.cn
Name   == Number \cup {Final}
None   == -1                \* no job, no file, no name
Torn   == -2                \* opened for writing and not closed
Whole  == -1                \* the one file ".data"; ".data.<g>" is g >= 0

VARIABLES
  ctrl, data, latest,       \* the files
  starts,
  job, cycle, counter,      \* the job running, home->cycle, savecncounter
  phase, stage, outs,       \* outs: the types of output of this call, in order
  net,                      \* per domain the nodes it holds
  place, origin, unread,    \* reading: decomposition, the set, per reader
  pc, turn, tokens          \* per domain: in DoParallelIO

files == <<ctrl, data, latest>>
run   == <<job, starts>>
input == <<place, origin, unread>>
io    == <<pc, turn, tokens>>
vars  == <<files, run, cycle, counter, phase, stage, outs, net, input, io>>

MaxDomains == CHOOSE n \in {j.domains : j \in Jobs} :
                \A j \in Jobs : j.domains <= n
AllDomains == 0 .. MaxDomains - 1
Domain     == 0 .. job.domains - 1
Segments   == {Whole} \cup AllDomains

-----------------------------------------------------------------------------
(* I/O groups: GetParallelIOGroup.  The first groups are larger by one.    *)

SmallGroup == job.domains \div job.groups
LargeCount == job.domains % job.groups
LargeGroup == SmallGroup + (IF LargeCount > 0 THEN 1 ELSE 0)

InLarge(d) == d < LargeCount * LargeGroup
Group(d) ==
  IF InLarge(d) THEN d \div LargeGroup
  ELSE LargeCount + (d - LargeCount * LargeGroup) \div SmallGroup
FirstIn(d) ==
  IF InLarge(d) THEN Group(d) * LargeGroup
  ELSE LargeCount * LargeGroup + (Group(d) - LargeCount) * SmallGroup
LastIn(d) == FirstIn(d) + (IF InLarge(d) THEN LargeGroup ELSE SmallGroup) - 1

TokenOnce(d)      == d # FirstIn(d) /\ turn[d] = 1  \* mutant
AfterAnyDomain(d) == d # 0                        \* mutant
NeedsToken(d) == d # FirstIn(d)                     \* prevInIOGroup # d
SendsToAll(d) == d # job.domains - 1              \* mutant
SendsToken(d) == d # LastIn(d)                      \* nextInIOGroup # d

-----------------------------------------------------------------------------
(* The files.                                                              *)

File(groups, g) == IF groups = 1 THEN Whole ELSE g
Prologue(c, n) == [count |-> c, segments |-> n]  \* of the prologue
Missing == [head |-> Prologue(None, 0), body |-> <<>>]
NewFile == [head |-> Prologue(Torn, 0), body |-> <<>>]   \* emptied, no prologue

OutputName == IF stage = "cycle" THEN counter ELSE Final
MyFile(d)  == File(job.groups, Group(d))

\* The nodes of a domain, as lines: the node, and the cycle of its state.
Lines(d) == SetToSeq(net[d])

NodeCount == Cardinality(UNION {net[d] : d \in Domain})   \* GetCounts

-----------------------------------------------------------------------------
(* Starting and reading.                                                   *)

Down ==
  /\ job' = [domains |-> 1, groups |-> 1] /\ cycle' = 0 /\ counter' = 0
  /\ phase' = "down" /\ stage' = "cycle" /\ outs' = <<>>
  /\ net' = [d \in AllDomains |-> {}]
  /\ place' = [n \in Node |-> 0] /\ origin' = None
  /\ unread' = [d \in AllDomains |-> <<>>]
  /\ pc' = [d \in AllDomains |-> "done"]
  /\ turn' = [d \in AllDomains |-> 0]
  /\ tokens' = [d \in AllDomains |-> 0]

Init ==
  /\ ctrl = [s \in Name |-> [state |-> None, cycle |-> 0, counter |-> 0,
                             groups |-> 1]]
  /\ data = [s \in Name |-> [g \in Segments |-> Missing]]
  /\ latest = None
  /\ starts = 0
  /\ job = [domains |-> 1, groups |-> 1] /\ cycle = 0 /\ counter = 0
  /\ phase = "down" /\ stage = "cycle" /\ outs = <<>>
  /\ net = [d \in AllDomains |-> {}]
  /\ place = [n \in Node |-> 0] /\ origin = None
  /\ unread = [d \in AllDomains |-> <<>>]
  /\ pc = [d \in AllDomains |-> "done"]
  /\ turn = [d \in AllDomains |-> 0]
  /\ tokens = [d \in AllDomains |-> 0]

Distribute(w, doms, c) ==
  [d \in AllDomains |->
     {<<n, c>> : n \in {m \in w.nodes : w.place[m] % doms = d}}]

\* The first start, from the files the problem is set up with.  (A bound: a
\* job that was stopped before it named a set is not begun anew.)
Begin ==
  /\ phase = "down" /\ starts = 0
  /\ \E j \in Jobs, w \in Networks :
       /\ job' = j
       /\ net' = Distribute(w, j.domains, 0)
  /\ starts' = 1
  /\ phase' = "loop"
  /\ UNCHANGED <<files, cycle, counter, stage, outs, input, io>>

\* What domain 0 opens: the name itself first, then its first segment.
Opened(s) ==
  IF data[s][Whole] # Missing THEN Whole
  ELSE 0

\* What each domain is to read, as ReadNodeDataFile shares the segments out.
ReadTasks(doms, segs) ==
  IF doms >= segs THEN segs
  ELSE LET n == (segs + doms - 1) \div doms IN IF n < doms THEN n ELSE doms
WholeShares(segs, tasks) == segs \div tasks       \* mutant
SegsPerReader(segs, tasks) == (segs + tasks - 1) \div tasks
ToRead(s, d, doms) ==
  LET segs  == data[s][Opened(s)].head.segments
      per   == SegsPerReader(segs, ReadTasks(doms, segs))
      last  == IF d * per + per - 1 < segs THEN d * per + per - 1
               ELSE segs - 1
  IN IF Opened(s) = Whole
     THEN IF d = 0 THEN data[s][Whole].body ELSE <<>>
     ELSE FlattenSeq([i \in 1 .. last - d * per + 1 |->
                        data[s][d * per + i - 1].body])

\* Starting again: the control file gives cycleStart and savecncounter.
CountersFromZero(s) == 0                          \* mutant
SavedCounter(s) == ctrl[s].counter
StartAgain ==
  /\ phase = "down" /\ latest \in Name /\ starts < MaxStarts
  /\ starts' = starts + 1
  /\ origin' = latest
  /\ cycle' = ctrl[latest].cycle
  /\ counter' = SavedCounter(latest)
  /\ \E j \in Jobs, pl \in Placements :
       LET doms  == j.domains
           head  == data[latest][Opened(latest)].head
           reads == ctrl[latest].state # Torn /\ head.count >= 0
       IN /\ job' = j
          /\ place' = pl
          /\ phase' = IF reads THEN "read" ELSE "fatal"
          /\ unread' = [d \in AllDomains |->
                          IF reads /\ d < doms THEN ToRead(latest, d, doms)
                          ELSE <<>>]
  /\ UNCHANGED <<files, stage, outs, net, io>>

\* One turn of the reading loop, from one MPI_Allreduce to the next: every
\* reader reads a block and sends each node to its domain.  Messages of two
\* turns never mix, no domain passes the MPI_Allreduce before all are there.
Block(d) == IF Len(unread[d]) < BlockSize THEN Len(unread[d]) ELSE BlockSize
ReadBlock ==
  /\ phase = "read"
  /\ \E d \in Domain : unread[d] # <<>>
  /\ net' = [d \in AllDomains |-> net[d] \cup
       UNION {{unread[e][i] :
                 i \in {k \in 1 .. Block(e) :
                          place[unread[e][k][1]] % job.domains = d}} :
                e \in Domain}]
  /\ unread' = [d \in AllDomains |->
                  SubSeq(unread[d], Block(d) + 1, Len(unread[d]))]
  /\ UNCHANGED <<files, run, cycle, counter, phase, stage, outs, place,
                 origin, io>>

\* No domain had anything to send: the node count is checked.
ReadDone ==
  /\ phase = "read"
  /\ \A d \in Domain : unread[d] = <<>>
  /\ phase' = IF NodeCount = data[origin][Opened(origin)].head.count
              THEN "loop" ELSE "fatal"
  /\ UNCHANGED <<files, run, cycle, counter, stage, outs, net, input, io>>

-----------------------------------------------------------------------------
(* The main loop.                                                          *)

\* The collectives of a step and of GetCounts keep the domains together here.
Enter(types) ==
  /\ phase' = "output"
  /\ outs' = types
  /\ turn' = [d \in AllDomains |-> 1]
  /\ pc' = [d \in AllDomains |-> IF d \in Domain THEN "turn" ELSE "done"]
  /\ UNCHANGED tokens

WithRestart(types) == "restart" \in ToSet(types)

\* A cycle ends with GenerateOutput(STAGE_CYCLE).  Whether a restart set is
\* due goes by savecnfreq or savecndt, the other types by rules of their own.
DislocStep ==
  /\ phase = "loop" /\ cycle < MaxCycle
  /\ cycle' = cycle + 1
  /\ \E w \in Networks : net' = Distribute(w, job.domains, cycle')
  /\ origin' = None
  /\ stage' = "cycle"
  /\ \E types \in Outputs :
       /\ counter' = IF WithRestart(types) THEN counter + 1 ELSE counter
       /\ IF types # <<>> THEN Enter(types)
          ELSE UNCHANGED <<phase, outs, io>>
  /\ UNCHANGED <<files, run, place, unread>>

\* ParadisFinish, after cycleEnd, timeEnd or a forced shutdown.
Finish ==
  /\ phase = "loop"
  /\ stage' = "term"
  /\ origin' = None
  /\ \E types \in Outputs : WithRestart(types) /\ Enter(types)
  /\ UNCHANGED <<files, run, cycle, counter, net, place, unread>>

-----------------------------------------------------------------------------
(* DoParallelIO: one type of output after the other.                       *)

Type(d) == outs[turn[d]]
At(d, at) == phase = "output" /\ pc[d] = at
same == <<run, cycle, counter, phase, stage, outs, net, input>>

Empties(d) == d = FirstIn(d)

\* Wait for the token, then begin with this type.
TakeTurn(d) ==
  /\ At(d, "turn")
  /\ NeedsToken(d) => tokens[d] > 0
  /\ tokens' = IF NeedsToken(d) THEN [tokens EXCEPT ![d] = @ - 1] ELSE tokens
  /\ pc' = [pc EXCEPT ![d] = IF Type(d) # "restart" THEN "write"
                             ELSE IF d = 0 THEN "ctrl"
                             ELSE IF Empties(d) THEN "data" ELSE "write"]
  /\ UNCHANGED <<files, turn, same>>

\* WriteCtrl, by domain 0: open ...
OpenCtrl(d) ==
  /\ At(d, "ctrl")
  /\ ctrl' = [ctrl EXCEPT ![OutputName].state = Torn]
  /\ pc' = [pc EXCEPT ![d] = "params"]
  /\ UNCHANGED <<data, latest, turn, tokens, same>>

\* ... and write, cycleStart set to the cycle reached.
WriteCtrl(d) ==
  /\ At(d, "params")
  /\ ctrl' = [ctrl EXCEPT ![OutputName] =
                [state |-> OutputName, cycle |-> cycle, counter |-> counter,
                 groups |-> job.groups]]
  /\ pc' = [pc EXCEPT ![d] = "data"]
  /\ UNCHANGED <<data, latest, turn, tokens, same>>

\* WriteData: the first of a group empties the file.  (The others append,
\* and opening the file does nothing to it.)
OpenData(d) ==
  /\ At(d, "data")
  /\ data' = [data EXCEPT ![OutputName][MyFile(d)] = NewFile]
  /\ pc' = [pc EXCEPT ![d] = "write"]
  /\ UNCHANGED <<ctrl, latest, turn, tokens, same>>

\* Write, close, and hand the token on.
AfterTypes == IF WithRestart(outs) THEN "barrier" ELSE "done"
TokenTo(d) == IF SendsToken(d) THEN {d + 1} ELSE {}
WriteType(d) ==
  /\ At(d, "write")
  /\ data' = IF Type(d) # "restart" THEN data
             ELSE [data EXCEPT ![OutputName][MyFile(d)] =
                     [head |-> IF d = 0
                               THEN Prologue(NodeCount, job.groups)
                               ELSE @.head,
                      body |-> @.body \o Lines(d)]]
  /\ tokens' = [e \in AllDomains |->
                  IF e \in TokenTo(d) THEN tokens[e] + 1 ELSE tokens[e]]
  /\ turn' = [turn EXCEPT ![d] = @ + 1]
  /\ pc' = [pc EXCEPT ![d] = IF turn[d] < Len(outs) THEN "turn"
                             ELSE AfterTypes]
  /\ UNCHANGED <<ctrl, latest, same>>

\* MPI_Barrier; then domain 0 goes on to SetLatestRestart.
NoBarrier    == TRUE                              \* mutant
AllAtBarrier == \A d \in Domain : pc[d] = "barrier"
Barrier ==
  /\ phase = "output"
  /\ pc[0] = "barrier" /\ AllAtBarrier
  /\ pc' = [d \in AllDomains |-> IF d = 0 THEN "latest" ELSE
              IF pc[d] = "barrier" THEN "done" ELSE pc[d]]
  /\ UNCHANGED <<files, turn, tokens, same>>

\* SetLatestRestart empties latest_restart, then writes the name into it.
SetLatestRestart ==
  /\ phase = "output"
  /\ \/ /\ pc[0] = "latest"
        /\ latest' = Torn
        /\ pc' = [pc EXCEPT ![0] = "name"]
     \/ /\ pc[0] = "name"
        /\ latest' = OutputName
        /\ pc' = [pc EXCEPT ![0] = "done"]
  /\ UNCHANGED <<ctrl, data, turn, tokens, same>>

\* All domains meet in the next step, or exit.
OutputDone ==
  /\ phase = "output"
  /\ \A d \in Domain : pc[d] = "done"
  /\ IF stage = "term" THEN Down /\ UNCHANGED <<files, starts>>
     ELSE /\ phase' = "loop"
          /\ UNCHANGED <<files, run, cycle, counter, stage, outs, net, input,
                         io>>

-----------------------------------------------------------------------------
(* The machine, a signal, or Fatal ends the job: MPI stops every domain.   *)

Crash ==
  /\ phase # "down"
  /\ Down
  /\ UNCHANGED <<files, starts>>

DomainStep(d) ==
  \/ TakeTurn(d) \/ OpenCtrl(d) \/ WriteCtrl(d) \/ OpenData(d)
  \/ WriteType(d)

Progress ==
  \/ ReadBlock \/ ReadDone
  \/ \E d \in AllDomains : DomainStep(d)
  \/ Barrier \/ SetLatestRestart \/ OutputDone

Next == Begin \/ StartAgain \/ DislocStep \/ Finish \/ Crash \/ Progress

Spec == Init /\ [][Next]_vars

\* A job that is not stopped from outside goes on reading and writing.
FairSpec == Spec /\ WF_vars(Progress)

-----------------------------------------------------------------------------
(* Properties.                                                             *)

Line     == Node \X (0 .. MaxCycle)
FileType == [head : [count : {None, Torn} \cup 0 .. Cardinality(Node),
                     segments : 0 .. MaxDomains],
             body : Seq(Line)]

FilesTyped ==
  /\ ctrl \in [Name -> [state : Name \cup {None, Torn}, cycle : 0 .. MaxCycle,
                        counter : 0 .. MaxCycle, groups : 1 .. MaxDomains]]
  /\ data \in [Name -> [Segments -> FileType]]
  /\ latest \in Name \cup {None, Torn}

StateTyped ==
  /\ starts \in 0 .. MaxStarts
  /\ job \in [domains : 1 .. MaxDomains, groups : 1 .. MaxDomains]
  /\ cycle \in 0 .. MaxCycle /\ counter \in 0 .. MaxCycle
  /\ phase \in {"down", "read", "fatal", "loop", "output"}
  /\ stage \in {"cycle", "term"} /\ outs \in Seq(STRING)
  /\ net \in [AllDomains -> SUBSET Line]
  /\ place \in [Node -> Nat] /\ origin \in Name \cup {None}
  /\ unread \in [AllDomains -> Seq(Line)]
  /\ pc \in [AllDomains -> {"turn", "ctrl", "params", "data", "write",
                            "barrier", "latest", "name", "done"}]
  /\ turn \in [AllDomains -> Nat] /\ tokens \in [AllDomains -> Nat]

\* Types of the files and of the program's state; no domain is ever sent
\* more tokens than there are types of output it still has to write.
TypeOK ==
  /\ FilesTyped
  /\ StateTyped
  /\ \A d \in AllDomains :
       tokens[d] <= IF pc[d] = "turn" THEN Len(outs) - turn[d] + 1
                    ELSE IF pc[d] \in {"ctrl", "params", "data", "write"}
                    THEN Len(outs) - turn[d] ELSE 0

\* The file of a group is written by its domains one at a time and in
\* order, for every type of output, although one tag serves all the tokens
\* (DoParallelIO: the other task starts on an output type "while the current
\* task continues on with other output types").
Writing(d) == pc[d] \in {"ctrl", "params", "data", "write"}
InTurn ==
  phase = "output" =>
    \A d, e \in Domain :
      d < e /\ Group(d) = Group(e) =>
        /\ turn[e] <= turn[d]
        /\ Writing(e) => turn[e] < turn[d]

\* The nodes in the data files of the job that wrote a set.
AllLines(s) ==
  FlattenSeq([i \in 1 .. ctrl[s].groups |->
                data[s][File(ctrl[s].groups, i - 1)].body])

\* The control file and the prologue of a set are written, the prologue has
\* the number of lines that follow, and no line is there twice.
Written(s) ==
  /\ ctrl[s].state = s
  /\ data[s][File(ctrl[s].groups, 0)].head =
       Prologue(Len(AllLines(s)), ctrl[s].groups)
  /\ IsInjective(AllLines(s))

\* A set holds the network in memory, and the cycle it is at.
Saved(s) ==
  /\ Written(s)
  /\ ctrl[s].cycle = cycle
  /\ ToSet(AllLines(s)) = UNION {net[d] : d \in Domain}

\* A name gets into latest_restart only when its set holds the network in
\* memory, every line once, and a numbered set is not touched as long as it
\* is named, whatever is stopped and started again in between.
\* (DoParallelIO synchronizes "since we don't want to do this until all
\* processes have completed writing".  Not so restart.cn: the final output
\* of the next job overwrites it while it is still the one named.)
LatestIsComplete ==
  [][/\ latest' \in Name /\ latest' # latest => Saved(latest)'
     /\ latest' = latest /\ latest \in Number =>
          UNCHANGED <<ctrl[latest], data[latest]>>]_vars

\* A data file without segments left by an earlier job: it is read in place
\* of the segments of this set.
Stale(s) == ctrl[s].groups > 1 /\ data[s][Whole] # Missing

\* Starting from such a set never fails and gives the network and the cycle
\* it was written with, every node in one domain, whatever the numbers of
\* domains and I/O groups then and now; unless an older data file hides it.
NetworkRead ==
  origin \in Name /\ Written(origin) /\ ~Stale(origin) =>
    /\ phase # "fatal"
    /\ phase = "loop" =>
         /\ UNION {net[d] : d \in Domain} = ToSet(AllLines(origin))
         /\ \A d, e \in Domain : d # e => net[d] \cap net[e] = {}
         /\ cycle = ctrl[origin].cycle

\* Reading and writing end: no domain waits for a token, a barrier or a
\* message that does not come.
OutputEnds == phase \in {"read", "output"} ~> phase \notin {"read", "output"}

=============================================================================
