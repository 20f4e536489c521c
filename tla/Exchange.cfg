SPECIFICATION FairSpec
CONSTANTS
  Domain <- MCDomain
  Adjacent <- InARow
  Op = {x}
  Rounds = 3
  MaxOps = 1
  Eager <- TwoEager
INVARIANTS TypeOK
PROPERTIES IsRoundExchange ExchangeEnds
