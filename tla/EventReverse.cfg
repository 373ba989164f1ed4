\* The task ends after a reverse range, and when a request or the decoding of a log
\* fails.
SPECIFICATION Spec
CONSTANTS
  Shapes <- MCShapes
  MaxHeight = 4
  StartHeights = {2, 4}
  ToBlock = 3
  StepSize = 2
  Reverse = TRUE
  NodeMayFail = TRUE
  Undecodable = TRUE
INVARIANTS
  InOrder
  ReverseNothingMissed
  ReverseComplete
CHECK_DEADLOCK FALSE
