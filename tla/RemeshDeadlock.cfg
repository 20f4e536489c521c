SPECIFICATION FairSpec
CONSTANTS
  Thread = {t1, t2, t3}
  MaxNode = 6
  Setups <- LoopOnly
PROPERTY RemeshEnds
CHECK_DEADLOCK FALSE
