\* Three old and two new segments, every combination of descriptors, verdicts
\* and placements.
SPECIFICATION FairSpec
CONSTANTS
  o1 = o1
  o2 = o2
  o3 = o3
  n1 = n1
  n2 = n2
  Old = {o1, o2, o3}
  New = {n1, n2}
  OldOrder <- MCOldOrder
  NewOrder <- MCNewOrder
  Pixels <- MCPixels
  Frame <- MCFrame
  Differs <- MCDiffers
  CreateChangeImage = TRUE
  Writable = {"diff", "delete", "add"}
INVARIANTS AddedAreUnmatched
CHECK_DEADLOCK FALSE
