SPECIFICATION FairSpec
CONSTANTS
  Shapes <- MCShapes
  MaxHeight = 4
  StartHeights = {0, 1}
  ToBlock <- MCOpen
  StepSize = 2
  Reverse = FALSE
  NodeMayFail = FALSE
  Undecodable = FALSE
INVARIANTS
  NothingMissed
PROPERTIES
  FeedSpec
