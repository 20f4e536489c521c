SPECIFICATION FairSpec
CONSTANTS
  Domain <- MCDomain
  Node <- MCNode
  Pair <- MCPair
  NodeDomain <- MCNodeDomain
  PairDomain <- MCPairDomain
  Primary <- MCPrimary
  Secondary <- MCSecondary
  Ends <- MCEnds
  Reach <- MCReach
  NumGroups = 3
  MaxDT = 8
  Proposals <- MCProposals
  Patience = 1
  Tries = 2
INVARIANTS TypeOK DomainsAgree ForcesSound NetworkAtSubTime
PROPERTIES OnlyRejectionsLower CycleEnds
