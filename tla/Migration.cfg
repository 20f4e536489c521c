SPECIFICATION FairSpec
CONSTANTS
  Domain <- MCDomain
  Node <- MCNode
  Link <- MCLink
  Adjacent <- MCAdjacent
  Schedules <- MCSchedules
  Eager <- TwoEager
INVARIANTS TypeOK NodesArrive TagsResolve
PROPERTY MigrationEnds
