\* The consumer stops at MaxBlock, or when the generator has returned.
SPECIFICATION Spec
CONSTANTS
  Ranges <- MCRanges
  MinSize = 1
  MaxSize = 4
  MaxBlock = 8
  MaxBack = 5
INVARIANTS
  Contiguous
  ReverseComplete
  ReverseDisjoint
CHECK_DEADLOCK FALSE
