SPECIFICATION HeapSpec
CONSTANTS
  Tags <- MCTags
  HeapSizeIncr = 2
INVARIANTS
  HeapTypeOK
  HeapRule
PROPERTIES
  IsTagHeap
