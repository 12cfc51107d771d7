\* Every labelling of the 2x2 pixels inside the border of a 4x4 image.
SPECIFICATION Spec
CONSTANTS
  Cols = 4
  Rows = 4
  MaxLabel = 2
INVARIANTS RectsCoverGroups
CHECK_DEADLOCK FALSE
