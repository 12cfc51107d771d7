\* Two loading tasks, every combination of input files.
SPECIFICATION FairSpec
CONSTANT Parallel = TRUE
INVARIANTS TypeOK WholeLines EndExplained
PROPERTIES ImplementsMain Termination
CHECK_DEADLOCK FALSE
