\* The serial build, every combination of input files.
SPECIFICATION Spec
CONSTANT Parallel = FALSE
INVARIANTS DecodeFailureReported
CHECK_DEADLOCK FALSE
