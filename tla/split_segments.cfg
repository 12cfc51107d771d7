\* Every labelling of the 4x3 pixels inside the border of a 6x5 image.
SPECIFICATION FairSpec
CONSTANTS
  Cols = 6
  Rows = 5
  MaxLabel = 2
INVARIANTS TypeOK OneRectPerGroup InImage QueueDistinct WholeGroups
PROPERTIES Termination
CHECK_DEADLOCK FALSE
