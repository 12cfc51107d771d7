SPECIFICATION FairSpec
CONSTANTS
  Parallel = TRUE
  Stages = {"all", "detect", "do old", "desc old", "do new", "split new", "group new", "desc new", "create"}
  MaxTime = 2
  Scopes <- Stages
  Around <- MCAround
  Earlier <- MCEarlier
  Named <- MCNamed
  Optional <- MCOptional
  Times <- MCTimes
  None = None
INVARIANTS ParentsCover Attribution ForestPrinted
PROPERTY Termination
CHECK_DEADLOCK FALSE
