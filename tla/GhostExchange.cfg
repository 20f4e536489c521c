SPECIFICATION FairSpec
CONSTANTS
  Domain <- MCDomain
  Cell <- MCCell
  Near <- MCNear
  NativeCells <- MCNativeCells
  Node <- MCNode
  Link <- MCLink
  Owner <- MCOwner
  CellOf <- MCCellOf
  MaxIndex = 2
  Indices <- MCIndices
INVARIANTS TypeOK GhostsKnown
PROPERTY ExchangeEnds
