SPECIFICATION FairSpec
CONSTANTS
  Thread = {t1, t2}
  MaxNode = 9
  Setups <- MCSetups
INVARIANTS TypeOK EntriesStand ForcesMarked
PROPERTY RemeshEnds
