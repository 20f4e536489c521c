SPECIFICATION FairSpec
CONSTANTS
  Node = {1, 2, 4}
  Jobs <- MCJobs
  Placements <- MCPlacements
  Networks <- MCNetworks
  Outputs <- MCOutputs
  BlockSize = 1
  MaxCycle = 2
  MaxStarts = 2
INVARIANTS TypeOK InTurn NetworkRead
PROPERTIES LatestIsComplete OutputEnds
CHECK_DEADLOCK FALSE
