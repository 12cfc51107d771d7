\* Three old segments compete for two new segments on two threads; the
\* deleted-segments image cannot be written.
SPECIFICATION Spec
CONSTANTS
  Old = {o1, o2, o3}
  New = {n1, n2}
  Pixels <- MCPixels
  Frame <- MCFrame
  Differs <- MCDiffers
  CreateChangeImage = TRUE
  Writable = {"diff", "add"}
  ThreadCount = 2
SYMMETRY OldSymmetry
INVARIANTS ClaimBound
CHECK_DEADLOCK FALSE
