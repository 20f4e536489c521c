SPECIFICATION FairSpec
CONSTANTS
  Domain <- MCDomain
  Node <- MCNode
  First = 0
  NodeDomain <- MCNodeDomain
  Primary <- MCPrimary
  Secondary <- MCSecondary
  MaxIterations = 2
  MaxDT = 4
  MaxRounds = 7
  NewNodes = {"a"}
  Proposals <- MCProposals
INVARIANTS
  TypeOK
  GhostsInStep
  AcceptedAsJudged
PROPERTY
  StepEnds
