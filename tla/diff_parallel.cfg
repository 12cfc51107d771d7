\* Two old and two new segments on two threads, every combination of
\* descriptors, verdicts and placements.
SPECIFICATION FairSpec
CONSTANTS
  Old = {o1, o2}
  New = {n1, n2}
  Pixels <- MCPixels
  Frame <- MCFrame
  Differs <- MCDiffers
  CreateChangeImage = TRUE
  Writable = {"diff", "delete", "add"}
  ThreadCount = 2
INVARIANTS TypeOK
PROPERTIES FrozenAfterJoin ImplementsOutcome Termination
CHECK_DEADLOCK FALSE
